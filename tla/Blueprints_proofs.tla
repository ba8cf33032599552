------------------------- MODULE Blueprints_proofs -------------------------
(***************************************************************************)
(* The inductive invariants of Blueprints, and the proofs that its types   *)
(* are respected, that a settled dismissal stands and that the status is   *)
(* true when users are calm, for every value of the bounds and of the      *)
(* other constants.                                                        *)
(***************************************************************************)
EXTENDS Blueprints, FiniteSetTheorems, TLAPS

\* A document that a task has found is never removed.
Found(t) ==
    /\ t.type = "status" /\ t.step = "save" => status # None
    /\ t.type = "fetch" /\ t.found # None => model # None
    /\ t.type = "round" => model # None

DocInv == \A t \in tasks : Found(t)

\* A single pull request is open at a time, and its branch exists.
BranchInv ==
    /\ OpenPRs # {} => branch # None
    /\ \A m, n \in OpenPRs : m = n

\* Once a dismissal has settled no check gets past its first step, and no update
\* of the status is in flight, for there is no pull request it could be about.
Harmless(t) == t.type # "status" /\ (t.type = "check" => t.step = "pre")

DismissalInv ==
    hist.dismissed # 0 =>
       /\ Dismissed
       /\ OpenPRs = {}
       /\ Len(prs) = hist.dismissed
       /\ \A t \in tasks : Harmless(t)

IInv == TypeOK /\ DocInv /\ BranchInv /\ DismissalInv

-----------------------------------------------------------------------------
(* Types of what the steps put together.                                   *)

CountType == [events : Events, faults : 0 .. MaxFaults]
HistType == [calm : BOOLEAN, dismissed : 0 .. MaxPRs]

\* A task is what its type says.
LEMMA TaskOfType ==
    ASSUME NEW t \in Tasks
    PROVE  /\ t.type = "check" => t \in Checks
           /\ t.type = "status" => t \in Updates
           /\ t.type = "delete" => t \in Deletes
           /\ t.type = "push" => t \in Pushes
           /\ t.type = "fetch" => t \in Fetches
           /\ t.type = "round" => t \in Rounds
BY DEF Tasks, Checks, Updates, Deletes, Pushes, Fetches, Rounds

\* What Counts leaves in the counter, and the number of a new event.
LEMMA CountsType ==
    ASSUME count \in CountType, NEW acts \in {0, 1}, NEW n \in Nat, Counts(acts, n)
    PROVE  /\ count' \in CountType
           /\ acts = 1 => NextEvent \in Events
           /\ count'.faults = count.faults + n
<1>1. count.events \in Nat /\ count.faults \in Nat
  BY DEF CountType, Events
<1>2. count.events + 2 * n + acts \in Events /\ count.faults + n \in 0 .. MaxFaults
  BY <1>1, BoundsAssumption DEF Counts, Events
<1>3. QED
  BY <1>1, <1>2, BoundsAssumption DEF Counts, CountType, Events, NextEvent

\* A delivery adds some of the tasks of its webhooks.
LEMMA DeliverType ==
    ASSUME count \in CountType, NEW acts \in {0, 1}, NEW remaining, NEW webhooks,
           IsFiniteSet(webhooks), Deliver(remaining, webhooks, acts)
    PROVE  /\ count' \in CountType
           /\ acts = 1 => NextEvent \in Events
           /\ tasks' \subseteq remaining \cup UNION webhooks
<1>1. PICK lost \in SUBSET webhooks :
         /\ Counts(acts, Cardinality(lost))
         /\ tasks' = remaining \cup UNION (webhooks \ lost)
  BY DEF Deliver
<1>2. Cardinality(lost) \in Nat
  BY <1>1, FS_Subset, FS_CardinalityType
<1>3. QED
  BY <1>1, <1>2, CountsType

\* A finite set with at most two elements.
LEMMA PairIsFinite ==
    ASSUME NEW x, NEW y PROVE IsFiniteSet({}) /\ IsFiniteSet({x}) /\ IsFiniteSet({x, y})
<1>1. IsFiniteSet({}) /\ IsFiniteSet({x})
  BY FS_EmptySet, FS_Singleton
<1>2. {x, y} = {x} \cup {y}
  OBVIOUS
<1>3. QED
  BY <1>1, <1>2, FS_AddElement

\* The tasks a webhook adds.
LEMMA WebhookTasks ==
    ASSUME NEW e \in Events
    PROVE  /\ \A n \in 1 .. MaxPRs, state \in PRState : OnClosed(e, n, state) \subseteq Tasks
           /\ \A n \in 1 .. MaxPRs : OnReopened(e, n) \subseteq Tasks
           /\ OnPush(e) \subseteq Tasks
           /\ defined \in Definitions => Fetch(e) \in Fetches
           /\ \A config \in Configs : Check(e, config) \in Checks
<1>1. \A n \in 1 .. MaxPRs, state \in PRState : OnClosed(e, n, state) \subseteq Tasks
  BY DEF OnClosed, Tasks, Updates, Deletes
<1>2. \A n \in 1 .. MaxPRs : OnReopened(e, n) \subseteq Tasks
  BY DEF OnReopened, Tasks, Updates, PRState
<1>3. OnPush(e) \subseteq Tasks
  BY DEF OnPush, Tasks, Pushes
<1>4. defined \in Definitions => Fetch(e) \in Fetches
  BY DEF Fetch, Fetches
<1>5. \A config \in Configs : Check(e, config) \in Checks
  BY BoundsAssumption DEF Check, Checks, CheckSteps, BlueprintStatus
<1>6. QED
  BY <1>1, <1>2, <1>3, <1>4, <1>5

\* The history keeps its type.
LEMMA RememberType ==
    ASSUME TypeOK, Remember, prs' \in Seq(PullRequests), Len(prs') <= MaxPRs
    PROVE  hist' \in HistType
<1>1. hist.dismissed \in 0 .. MaxPRs /\ hist.calm \in BOOLEAN
  BY DEF TypeOK
<1>2. Len(prs') \in 0 .. MaxPRs /\ 0 \in 0 .. MaxPRs
  BY BoundsAssumption
<1>3. (/\ hist.calm
       /\ count'.events # count.events => Settled
       /\ Merging => Compliant(model.config, file')) \in BOOLEAN
  OBVIOUS
<1>4. (IF Reopening \/ LookupFails THEN 0
       ELSE IF Dismissed' /\ tasks' = {} /\ OpenPRs' = {} THEN Len(prs')
       ELSE hist.dismissed) \in 0 .. MaxPRs
  BY <1>1, <1>2
<1>5. QED
  BY <1>3, <1>4 DEF Remember, HistType

\* The two ways the history speaks of a dismissal after a step.
LEMMA Remembered ==
    ASSUME Remember, hist'.dismissed # 0
    PROVE  /\ ~Reopening /\ ~LookupFails
           /\ \/ /\ Dismissed' /\ tasks' = {} /\ OpenPRs' = {}
                 /\ hist'.dismissed = Len(prs')
              \/ hist'.dismissed = hist.dismissed
<1>1. hist'.dismissed = IF Reopening \/ LookupFails THEN 0
                        ELSE IF Dismissed' /\ tasks' = {} /\ OpenPRs' = {} THEN Len(prs')
                        ELSE hist.dismissed
  BY DEF Remember
<1>2. QED
  BY <1>1

-----------------------------------------------------------------------------
(* Steps that leave the pull requests as they are.                         *)

\* Such a step preserves the invariant if what it stores and the tasks it adds
\* are of the right types and respect a dismissal.
LEMMA SamePullRequests ==
    ASSUME IInv, Remember, prs' = prs,
           defined' \in Definitions, file' \in Contents, count' \in CountType,
           model' \in Models \cup {None}, model # None => model' # None,
           branch' \in Branches \cup {None}, OpenPRs # {} => branch' # None,
           status' \in Statuses \cup {None}, status # None => status' # None,
           NEW more \in SUBSET Tasks, tasks' \subseteq tasks \cup more,
           \A t \in more : Found(t)',
           hist.dismissed # 0 /\ ~LookupFails => status' = status /\ \A t \in more : Harmless(t)
    PROVE  IInv'
<1>1. prs \in Seq(PullRequests) /\ Len(prs) <= MaxPRs
  BY DEF IInv, TypeOK
<1>2. tasks' \subseteq Tasks
  BY DEF IInv, TypeOK
<1>3. hist' \in HistType
  BY <1>1, RememberType DEF IInv
<1>4. TypeOK'
  BY <1>1, <1>2, <1>3 DEF TypeOK, CountType, HistType
<1>5. DocInv'
  <2>1. \A t \in tasks : Found(t)'
    BY DEF IInv, DocInv, Found
  <2>2. QED
    BY <2>1 DEF DocInv
<1>6. OpenPRs' = OpenPRs
  BY DEF OpenPRs
<1>7. BranchInv'
  BY <1>6 DEF IInv, BranchInv
<1>8. DismissalInv'
  <2>1. SUFFICES ASSUME hist'.dismissed # 0
                 PROVE  /\ Dismissed' /\ OpenPRs' = {} /\ Len(prs') = hist'.dismissed
                        /\ \A t \in tasks' : Harmless(t)
    BY DEF DismissalInv, Harmless
  <2>2. CASE Dismissed' /\ tasks' = {} /\ OpenPRs' = {} /\ hist'.dismissed = Len(prs')
    BY <2>2
  <2>3. CASE hist'.dismissed = hist.dismissed
    <3>1. hist.dismissed # 0 /\ ~LookupFails
      BY <2>1, <2>3, Remembered
    <3>2. /\ Dismissed /\ OpenPRs = {} /\ Len(prs) = hist.dismissed
          /\ \A t \in tasks : Harmless(t)
      BY <3>1 DEF IInv, DismissalInv
    <3>3. Dismissed'
      BY <3>1, <3>2 DEF Dismissed
    <3>4. QED
      BY <1>6, <2>3, <3>1, <3>2, <3>3
  <2>4. QED
    BY <2>1, <2>2, <2>3, Remembered
<1>9. QED
  BY <1>4, <1>5, <1>7, <1>8 DEF IInv

\* A step of the tasks only.
LEMMA TasksOnly ==
    ASSUME IInv, Remember, UNCHANGED <<defined, model, file, branch, prs, status, count>>,
           NEW more \in SUBSET Tasks, tasks' \subseteq tasks \cup more,
           \A t \in more : Found(t),
           hist.dismissed # 0 => \A t \in more : Harmless(t)
    PROVE  IInv'
<1>1. /\ defined' \in Definitions /\ file' \in Contents /\ count' \in CountType
      /\ model' \in Models \cup {None} /\ branch' \in Branches \cup {None}
      /\ status' \in Statuses \cup {None}
  BY DEF IInv, TypeOK, CountType
<1>2. OpenPRs # {} => branch' # None
  BY DEF IInv, BranchInv
<1>3. \A t \in more : Found(t)'
  BY DEF Found
<1>4. QED
  BY <1>1, <1>2, <1>3, SamePullRequests

\* ... that adds at most one of them.
LEMMA OneTask ==
    ASSUME IInv, Remember, UNCHANGED <<defined, model, file, branch, prs, status, count>>,
           NEW new \in Tasks, tasks' \subseteq tasks \cup {new}, Found(new),
           hist.dismissed # 0 => Harmless(new)
    PROVE  IInv'
<1> DEFINE more == {new}
<1>1. more \in SUBSET Tasks /\ tasks' \subseteq tasks \cup more
  OBVIOUS
<1>2. (\A t \in more : Found(t)) /\ (hist.dismissed # 0 => \A t \in more : Harmless(t))
  OBVIOUS
<1> HIDE DEF more
<1>3. QED
  BY <1>1, <1>2, TasksOnly

\* ... that adds none.
LEMMA NoTask ==
    ASSUME IInv, Remember, UNCHANGED <<defined, model, file, branch, prs, status, count>>,
           tasks' \subseteq tasks
    PROVE  IInv'
<1> DEFINE more == {}
<1>1. more \in SUBSET Tasks /\ tasks' \subseteq tasks \cup more
  OBVIOUS
<1>2. (\A t \in more : Found(t)) /\ (hist.dismissed # 0 => \A t \in more : Harmless(t))
  OBVIOUS
<1> HIDE DEF more
<1>3. QED
  BY <1>1, <1>2, TasksOnly

\* While a dismissal stands there is nothing a user could close or edit, and a
\* check is about to look the dismissal up.
LEMMA WhileDismissed ==
    ASSUME IInv, hist.dismissed # 0
    PROVE  /\ Dismissed /\ OpenPRs = {}
           /\ \A t \in tasks : Harmless(t)
BY DEF IInv, DismissalInv

-----------------------------------------------------------------------------
(* FetchBlueprintsTask and the rounds.                                     *)

\* Reading the definition.
LEMMA ReadDefinitionStep ==
    ASSUME IInv, NEW t \in tasks, ReadDefinition(t) PROVE IInv'
<1> DEFINE new == [t EXCEPT !.step = "find", !.read = defined]
<1>1. t \in Fetches /\ defined \in Definitions
  BY TaskOfType DEF IInv, TypeOK, ReadDefinition
<1>2. new \in Fetches /\ new.type = "fetch" /\ new.found = t.found
  BY <1>1 DEF Fetches
<1>3. Found(new) /\ Harmless(new)
  BY <1>2 DEF IInv, DocInv, Found, Harmless, ReadDefinition
<1>4. new \in Tasks /\ tasks' \subseteq tasks \cup {new}
  BY <1>2 DEF ReadDefinition, Becomes, Tasks
<1> HIDE DEF new
<1>5. QED
  BY <1>3, <1>4, OneTask DEF ReadDefinition

\* Finding the stored model.
LEMMA FindModelStep ==
    ASSUME IInv, NEW t \in tasks, FindModel(t) PROVE IInv'
<1> DEFINE new == [t EXCEPT !.step = "save", !.found = model]
<1>1. t \in Fetches /\ model \in Models \cup {None}
  BY TaskOfType DEF IInv, TypeOK, FindModel
<1>2. new \in Fetches /\ new.type = "fetch" /\ new.found = model
  BY <1>1 DEF Fetches
<1>3. Found(new) /\ Harmless(new)
  BY <1>2 DEF Found, Harmless
<1>4. new \in Tasks /\ tasks' \subseteq tasks \cup {new}
  BY <1>2 DEF FindModel, Becomes, Tasks
<1> HIDE DEF new
<1>5. QED
  BY <1>3, <1>4, OneTask DEF FindModel

\* What is saved is a model.
LEMMA UpdatedType ==
    ASSUME NEW found \in Models, NEW read \in Definitions, model \in Models
    PROVE  Updated(found, read) \in Models
<1>1. read.label \in Labels /\ read.config \in Configs
  BY DEF Definitions
<1>2. model \in [label : Labels, config : Configs, recheck : BOOLEAN]
  BY DEF Models
<1>3. /\ [model EXCEPT !.label = read.label, !.recheck = TRUE] \in Models
      /\ [model EXCEPT !.config = read.config, !.recheck = TRUE] \in Models
      /\ [model EXCEPT !.recheck = FALSE] \in Models
  BY <1>1, <1>2 DEF Models
<1>4. QED
  BY <1>3 DEF Updated

\* Saving the model.
LEMMA SaveModelStep ==
    ASSUME IInv, NEW t \in tasks, SaveModel(t) PROVE IInv'
<1>1. /\ t \in Fetches /\ model \in Models \cup {None}
      /\ t.found # None => model # None
  BY TaskOfType DEF IInv, TypeOK, DocInv, Found, SaveModel
<1>2. t.found \in Models \cup {None} /\ t.read \in Definitions
  BY <1>1 DEF Fetches
<1>3. model' \in Models
  <2>1. CASE t.found = None
    BY <1>2, <2>1 DEF SaveModel, Definitions, Models
  <2>2. CASE t.found # None
    <3>1. model' = Updated(t.found, t.read)
      BY <2>2 DEF SaveModel
    <3>2. QED
      BY <1>1, <1>2, <2>2, <3>1, UpdatedType
  <2>3. QED
    BY <2>1, <2>2
<1>4. model' # None
  BY <1>3, NoneAssumption
<1>5. /\ defined' \in Definitions /\ file' \in Contents /\ count' \in CountType
      /\ branch' \in Branches \cup {None} /\ status' \in Statuses \cup {None}
      /\ OpenPRs # {} => branch' # None
  BY DEF IInv, TypeOK, CountType, BranchInv, SaveModel
<1>6. tasks' \subseteq tasks \cup {}
  BY DEF SaveModel, Ends
<1>7. QED
  BY <1>3, <1>4, <1>5, <1>6, SamePullRequests DEF SaveModel

\* A round starts.
LEMMA StartRoundStep ==
    ASSUME IInv, StartRound PROVE IInv'
<1> DEFINE new == [type |-> "round", event |-> 0, step |-> "evaluate", found |-> model]
<1>1. model \in Models
  BY DEF IInv, TypeOK, StartRound
<1>2. new \in Rounds
  BY <1>1 DEF Rounds
<1>3. Found(new) /\ Harmless(new)
  BY DEF Found, Harmless, StartRound
<1>4. new \in Tasks /\ tasks' \subseteq tasks \cup {new}
  BY <1>2 DEF StartRound, Tasks
<1> HIDE DEF new
<1>5. QED
  BY <1>3, <1>4, OneTask DEF StartRound

\* A check that is scheduled is harmless.
LEMMA CheckIsHarmless ==
    ASSUME NEW e \in Events, NEW config \in Configs
    PROVE  Check(e, config) \in Tasks /\ Found(Check(e, config)) /\ Harmless(Check(e, config))
<1>1. Check(e, config) \in Checks
  BY BoundsAssumption DEF Check, Checks, CheckSteps, BlueprintStatus
<1>2. QED
  BY <1>1 DEF Tasks, Check, Found, Harmless

\* A round schedules a check.
LEMMA EvaluateStep ==
    ASSUME IInv, NEW t \in tasks, Evaluate(t) PROVE IInv'
<1> DEFINE new == [t EXCEPT !.step = "save"]
           check == Check(0, t.found.config)
<1>1. t \in Rounds /\ model # None
  BY TaskOfType DEF IInv, TypeOK, DocInv, Found, Evaluate
<1>2. new \in Rounds /\ new.type = "round"
  BY <1>1 DEF Rounds
<1>3. Found(new) /\ Harmless(new) /\ new \in Tasks
  BY <1>1, <1>2 DEF Found, Harmless, Tasks
<1>4. t.found.config \in Configs /\ 0 \in Events
  BY <1>1, BoundsAssumption DEF Rounds, Models, Events
<1>5. check \in Tasks /\ Found(check) /\ Harmless(check)
  BY <1>4, CheckIsHarmless
<1>6. tasks' \subseteq tasks \cup {new, check}
  BY DEF Evaluate
<1> HIDE DEF new, check
<1>7. {new, check} \subseteq Tasks /\ \A u \in {new, check} : Found(u) /\ Harmless(u)
  BY <1>3, <1>5
<1>8. QED
  BY <1>6, <1>7, TasksOnly DEF Evaluate

\* The round saves its copy of the model.
LEMMA SaveRoundStep ==
    ASSUME IInv, NEW t \in tasks, SaveRound(t) PROVE IInv'
<1>1. model \in Models
  BY DEF IInv, TypeOK, DocInv, Found, SaveRound
<1>2. model' \in Models
  BY <1>1 DEF SaveRound, Models
<1>3. model' # None
  BY <1>2, NoneAssumption
<1>4. /\ defined' \in Definitions /\ file' \in Contents /\ count' \in CountType
      /\ branch' \in Branches \cup {None} /\ status' \in Statuses \cup {None}
      /\ OpenPRs # {} => branch' # None
  BY DEF IInv, TypeOK, CountType, BranchInv, SaveRound
<1>5. tasks' \subseteq tasks \cup {}
  BY DEF SaveRound, Ends
<1>6. QED
  BY <1>2, <1>3, <1>4, <1>5, SamePullRequests DEF SaveRound

\* A push schedules a check.
LEMMA CheckAfterPushStep ==
    ASSUME IInv, NEW t \in tasks, CheckAfterPush(t) PROVE IInv'
<1> DEFINE check == Check(t.event, model.config)
<1>1. CASE status # None /\ model # None
  <2>1. t \in Pushes /\ model \in Models
    BY <1>1, TaskOfType DEF IInv, TypeOK, CheckAfterPush
  <2>2. t.event \in Events /\ model.config \in Configs
    BY <2>1 DEF Pushes, Models
  <2>3. check \in Tasks /\ Found(check) /\ Harmless(check)
    BY <2>2, CheckIsHarmless
  <2>4. tasks' \subseteq tasks \cup {check}
    BY <1>1 DEF CheckAfterPush, Becomes
  <2> HIDE DEF check
  <2>5. QED
    BY <2>3, <2>4, OneTask DEF CheckAfterPush
<1>2. CASE ~(status # None /\ model # None)
  <2>1. tasks' \subseteq tasks
    BY <1>2 DEF CheckAfterPush, Ends
  <2>2. QED
    BY <2>1, NoTask DEF CheckAfterPush
<1>3. QED
  BY <1>1, <1>2

-----------------------------------------------------------------------------
(* CheckFilesTask.                                                         *)

\* Whatever a check goes on to do is the step of a check.
LEMMA CheckGoesOn ==
    ASSUME NEW t \in Checks, NEW step \in CheckSteps, NEW outcome \in BlueprintStatus,
           NEW pr \in 0 .. MaxPRs, NEW created \in BOOLEAN
    PROVE  /\ [t EXCEPT !.step = step] \in Tasks
           /\ Found([t EXCEPT !.step = step])
           /\ [t EXCEPT !.step = step, !.created = created] \in Tasks
           /\ Found([t EXCEPT !.step = step, !.created = created])
           /\ [t EXCEPT !.step = step, !.outcome = outcome, !.pr = pr] \in Tasks
           /\ Found([t EXCEPT !.step = step, !.outcome = outcome, !.pr = pr])
<1>1. /\ [t EXCEPT !.step = step] \in Checks
      /\ [t EXCEPT !.step = step, !.created = created] \in Checks
      /\ [t EXCEPT !.step = step, !.outcome = outcome, !.pr = pr] \in Checks
  BY DEF Checks
<1>2. \A u \in Checks : u \in Tasks /\ Found(u)
  BY DEF Checks, Tasks, Found
<1>3. QED
  BY <1>1, <1>2

\* The task a check becomes when it saves an outcome.
Saving(t, outcome, pr) == [t EXCEPT !.step = "save", !.outcome = outcome, !.pr = pr]

\* It is a task, and nothing else is added.
LEMMA SavesTask ==
    ASSUME NEW t \in Checks, NEW outcome \in BlueprintStatus, NEW pr \in 0 .. MaxPRs,
           Saves(t, outcome, pr)
    PROVE  /\ Saving(t, outcome, pr) \in Tasks
           /\ Found(Saving(t, outcome, pr))
           /\ tasks' \subseteq tasks \cup {Saving(t, outcome, pr)}
<1>1. "save" \in CheckSteps /\ TRUE \in BOOLEAN
  BY DEF CheckSteps
<1>2. QED
  BY <1>1, CheckGoesOn DEF Saving, Saves, Becomes

\* A check that goes on to one of its next steps.
LEMMA GoesTo ==
    ASSUME NEW t \in Checks, NEW step \in CheckSteps, Becomes(t, [t EXCEPT !.step = step])
    PROVE  \E new \in Tasks : Found(new) /\ tasks' \subseteq tasks \cup {new}
<1>1. "success" \in BlueprintStatus /\ 0 \in 0 .. MaxPRs /\ TRUE \in BOOLEAN
  BY BoundsAssumption DEF BlueprintStatus
<1>2. [t EXCEPT !.step = step] \in Tasks /\ Found([t EXCEPT !.step = step])
  BY <1>1, CheckGoesOn
<1>3. QED
  BY <1>2 DEF Becomes

\* Past its first step, a check means that no dismissal stands.
LEMMA PastFirst ==
    ASSUME IInv, NEW t \in tasks, t.type = "check"
    PROVE  /\ t \in Checks
           /\ t.step # "pre" => hist.dismissed = 0
BY TaskOfType, WhileDismissed DEF IInv, TypeOK, Harmless

\* Looking the dismissal up.
LEMMA SkipDismissedStep ==
    ASSUME IInv, NEW t \in tasks, SkipDismissed(t) PROVE IInv'
<1>1. Remember /\ UNCHANGED <<defined, model, file, branch, prs, status, count>>
  BY DEF SkipDismissed
<1>2. CASE Dismissed
  BY <1>1, <1>2, NoTask DEF SkipDismissed, Ends
<1>3. CASE ~Dismissed
  <2>1. hist.dismissed = 0
    BY <1>3, WhileDismissed
  <2>2. t \in Checks /\ "look" \in CheckSteps
    BY PastFirst DEF SkipDismissed, CheckSteps
  <2>3. PICK new \in Tasks : Found(new) /\ tasks' \subseteq tasks \cup {new}
    BY <1>3, <2>2, GoesTo DEF SkipDismissed
  <2>4. QED
    BY <1>1, <2>1, <2>3, OneTask
<1>4. QED
  BY <1>2, <1>3

\* Looking for the branch.
LEMMA LookForBranchStep ==
    ASSUME IInv, NEW t \in tasks, LookForBranch(t) PROVE IInv'
<1>1. Remember /\ UNCHANGED <<defined, model, file, branch, prs, status, count>>
  BY DEF LookForBranch
<1>2. t \in Checks /\ hist.dismissed = 0
  BY PastFirst DEF LookForBranch
<1>3. "create" \in CheckSteps /\ "content" \in CheckSteps
  BY DEF CheckSteps
<1>4. PICK new \in Tasks : Found(new) /\ tasks' \subseteq tasks \cup {new}
  BY <1>2, <1>3, GoesTo DEF LookForBranch
<1>5. QED
  BY <1>1, <1>2, <1>4, OneTask

\* Looking for the pull request.
LEMMA FindPullRequestStep ==
    ASSUME IInv, NEW t \in tasks, FindPullRequest(t) PROVE IInv'
<1>1. Remember /\ UNCHANGED <<defined, model, file, branch, prs, status, count>>
  BY DEF FindPullRequest
<1>2. t \in Checks /\ hist.dismissed = 0
  BY PastFirst DEF FindPullRequest
<1>3. \E new \in Tasks : Found(new) /\ tasks' \subseteq tasks \cup {new}
  <2>1. ASSUME NEW n \in OpenPRs, Saves(t, "remediation_prepared", n)
        PROVE  \E new \in Tasks : Found(new) /\ tasks' \subseteq tasks \cup {new}
    <3>1. n \in 0 .. MaxPRs /\ "remediation_prepared" \in BlueprintStatus
      BY BoundsAssumption DEF IInv, TypeOK, OpenPRs, BlueprintStatus
    <3>2. QED
      BY <1>2, <2>1, <3>1, SavesTask
  <2>2. ASSUME Becomes(t, [t EXCEPT !.step = "open"])
        PROVE  \E new \in Tasks : Found(new) /\ tasks' \subseteq tasks \cup {new}
    BY <1>2, <2>2, GoesTo DEF CheckSteps
  <2>3. QED
    BY <2>1, <2>2 DEF FindPullRequest
<1>4. QED
  BY <1>1, <1>2, <1>3, OneTask

\* A step of a check past its first that leaves the pull requests alone, and
\* changes the branch, the status or the counter.
LEMMA CheckChanges ==
    ASSUME IInv, Remember, UNCHANGED <<defined, model, file, prs>>, hist.dismissed = 0,
           count' \in CountType,
           branch' \in Branches \cup {None}, OpenPRs # {} => branch' # None,
           status' \in Statuses \cup {None}, status # None => status' # None,
           NEW new \in Tasks, tasks' \subseteq tasks \cup {new}, new.type \in {"check", "delete"}
    PROVE  IInv'
<1> DEFINE more == {new}
<1>1. /\ defined' \in Definitions /\ file' \in Contents /\ model' \in Models \cup {None}
      /\ model # None => model' # None
  BY DEF IInv, TypeOK
<1>2. more \in SUBSET Tasks /\ tasks' \subseteq tasks \cup more
  OBVIOUS
<1>3. \A t \in more : Found(t)'
  BY DEF Found
<1> HIDE DEF more
<1>4. QED
  BY <1>1, <1>2, <1>3, SamePullRequests

\* Looking at the file.
LEMMA LookAtFileStep ==
    ASSUME IInv, NEW t \in tasks, LookAtFile(t) PROVE IInv'
<1>1. t \in Checks /\ hist.dismissed = 0
  BY PastFirst DEF LookAtFile
<1>2. count' \in CountType
  BY CountsType DEF LookAtFile, IInv, TypeOK, CountType
<1>3. \E new \in Tasks : new.type = "check" /\ tasks' \subseteq tasks \cup {new}
  <2>1. t.type = "check"
    BY DEF LookAtFile
  <2>2. CASE Saves(t, "success", 0)
    <3>1. "success" \in BlueprintStatus /\ 0 \in 0 .. MaxPRs
      BY BoundsAssumption DEF BlueprintStatus
    <3>2. Saving(t, "success", 0).type = "check"
      BY <1>1 DEF Saving, Checks
    <3>3. QED
      BY <1>1, <2>2, <3>1, <3>2, SavesTask
  <2>3. CASE Becomes(t, [t EXCEPT !.step = "ref"])
    <3>1. [t EXCEPT !.step = "ref"] \in Checks
      BY <1>1 DEF Checks, CheckSteps
    <3>2. [t EXCEPT !.step = "ref"].type = "check"
      BY <3>1 DEF Checks
    <3>3. QED
      BY <2>3, <3>1, <3>2 DEF Becomes, Tasks
  <2>4. QED
    BY <2>2, <2>3 DEF LookAtFile
<1>4. Remember /\ UNCHANGED <<defined, model, file, branch, prs, status>>
  BY DEF LookAtFile
<1>5. branch' \in Branches \cup {None} /\ status' \in Statuses \cup {None}
  BY <1>4 DEF IInv, TypeOK
<1>6. (OpenPRs # {} => branch' # None) /\ (status # None => status' # None)
  BY <1>4 DEF IInv, BranchInv
<1>7. QED
  BY <1>1, <1>2, <1>3, <1>4, <1>5, <1>6, CheckChanges

\* What a check saves is a check.
LEMMA SavesCheck ==
    ASSUME NEW t \in Checks, NEW outcome \in BlueprintStatus, NEW pr \in 0 .. MaxPRs,
           Saves(t, outcome, pr)
    PROVE  \E new \in Tasks : new.type = "check" /\ tasks' \subseteq tasks \cup {new}
<1>1. Saving(t, outcome, pr).type = "check"
  BY DEF Saving, Checks
<1>2. QED
  BY <1>1, SavesTask

\* A failed check is a check.
LEMMA FailsCheck ==
    ASSUME NEW t \in Checks, Fails(t)
    PROVE  \E new \in Tasks : new.type = "check" /\ tasks' \subseteq tasks \cup {new}
<1>1. "failure" \in BlueprintStatus /\ 0 \in 0 .. MaxPRs
  BY BoundsAssumption DEF BlueprintStatus
<1>2. QED
  BY <1>1, SavesCheck DEF Fails

\* Creating the branch.
LEMMA CreateBranchStep ==
    ASSUME IInv, NEW t \in tasks, CreateBranch(t) PROVE IInv'
<1>1. t \in Checks /\ hist.dismissed = 0
  BY PastFirst DEF CreateBranch
<1>2. Remember /\ UNCHANGED <<defined, model, file, prs, status, count>>
  BY DEF CreateBranch
<1>3. count' \in CountType /\ status' \in Statuses \cup {None} /\ (status # None => status' # None)
  BY <1>2 DEF IInv, TypeOK, CountType
<1>4. CASE branch = None
  <2> DEFINE new == [t EXCEPT !.step = "content", !.created = TRUE]
  <2>1. new \in Checks /\ new.type = "check"
    BY <1>1 DEF Checks, CheckSteps
  <2>2. tasks' \subseteq tasks \cup {new} /\ new \in Tasks
    BY <1>4, <2>1 DEF CreateBranch, Becomes, Tasks
  <2>3. branch' = [file |-> file, ahead |-> FALSE, after |-> Len(prs)]
    BY <1>4 DEF CreateBranch
  <2>4. file \in Contents /\ Len(prs) \in 0 .. MaxPRs
    BY DEF IInv, TypeOK
  <2>5. branch' \in Branches
    BY <2>3, <2>4 DEF Branches
  <2>6. branch' # None
    BY <2>5, NoneAssumption
  <2> HIDE DEF new
  <2>7. QED
    BY <1>1, <1>2, <1>3, <2>1, <2>2, <2>5, <2>6, CheckChanges
<1>5. CASE branch # None
  <2>1. Fails(t) /\ branch' = branch
    BY <1>5 DEF CreateBranch
  <2>2. PICK new \in Tasks : new.type = "check" /\ tasks' \subseteq tasks \cup {new}
    BY <1>1, <2>1, FailsCheck
  <2>3. branch' \in Branches \cup {None}
    BY <2>1 DEF IInv, TypeOK
  <2>4. QED
    BY <1>1, <1>2, <1>3, <1>5, <2>1, <2>2, <2>3, CheckChanges
<1>6. QED
  BY <1>4, <1>5

\* Updating the content of the branch.
LEMMA UpdateContentStep ==
    ASSUME IInv, NEW t \in tasks, UpdateContent(t) PROVE IInv'
<1>1. t \in Checks /\ hist.dismissed = 0
  BY PastFirst DEF UpdateContent
<1>2. Remember /\ UNCHANGED <<defined, model, file, prs, status, count>>
  BY DEF UpdateContent
<1>3. count' \in CountType /\ status' \in Statuses \cup {None} /\ (status # None => status' # None)
  BY <1>2 DEF IInv, TypeOK, CountType
<1>4. \E new \in Tasks : new.type = "check" /\ tasks' \subseteq tasks \cup {new}
  <2>1. CASE Becomes(t, [t EXCEPT !.step = "find"])
    <3>1. [t EXCEPT !.step = "find"] \in Checks
      BY <1>1 DEF Checks, CheckSteps
    <3>2. [t EXCEPT !.step = "find"].type = "check"
      BY <3>1 DEF Checks
    <3>3. QED
      BY <2>1, <3>1, <3>2 DEF Becomes, Tasks
  <2>2. CASE Fails(t)
    BY <1>1, <2>2, FailsCheck
  <2>3. QED
    BY <2>1, <2>2 DEF UpdateContent
<1>5. branch' \in Branches \cup {None} /\ (branch # None => branch' # None)
  <2>1. CASE branch' = branch
    BY <2>1 DEF IInv, TypeOK
  <2>2. CASE branch # None /\ branch' = [branch EXCEPT !.file = t.config.file, !.ahead = TRUE]
    <3>1. branch \in Branches /\ t.config.file \in Contents
      BY <1>1, <2>2 DEF IInv, TypeOK, Checks, Configs, Contents
    <3>2. branch' \in Branches
      BY <2>2, <3>1 DEF Branches
    <3>3. QED
      BY <3>2, NoneAssumption
  <2>3. QED
    BY <2>1, <2>2 DEF UpdateContent
<1>6. OpenPRs # {} => branch' # None
  BY <1>5 DEF IInv, BranchInv
<1>7. QED
  BY <1>1, <1>2, <1>3, <1>4, <1>5, <1>6, CheckChanges

\* Saving the outcome.
LEMMA SaveStatusStep ==
    ASSUME IInv, NEW t \in tasks, SaveStatus(t) PROVE IInv'
<1>1. t \in Checks /\ hist.dismissed = 0
  BY PastFirst DEF SaveStatus
<1>2. status' \in Statuses
  BY <1>1 DEF SaveStatus, Statuses, Checks
<1>3. status' # None
  BY <1>2, NoneAssumption
<1>4. count' \in CountType /\ branch' \in Branches \cup {None} /\ (OpenPRs # {} => branch' # None)
  BY DEF SaveStatus, IInv, TypeOK, CountType, BranchInv
<1>5. tasks' \subseteq tasks \cup {t} /\ t \in Tasks /\ t.type = "check"
  BY DEF SaveStatus, Ends, IInv, TypeOK
<1>6. Remember /\ UNCHANGED <<defined, model, file, prs>>
  BY DEF SaveStatus
<1>7. QED
  BY <1>1, <1>2, <1>3, <1>4, <1>5, <1>6, CheckChanges

-----------------------------------------------------------------------------
(* UpdateBlueprintStatusTask.                                              *)

\* Finding the status of the pull request.
LEMMA FindStatusStep ==
    ASSUME IInv, NEW t \in tasks, FindStatus(t) PROVE IInv'
<1>1. Remember /\ UNCHANGED <<defined, model, file, branch, prs, status, count>>
  BY DEF FindStatus
<1>2. t \in Updates /\ hist.dismissed = 0
  BY TaskOfType, WhileDismissed DEF FindStatus, IInv, TypeOK, Harmless
<1>3. CASE status # None /\ status.pr = t.pr
  <2> DEFINE new == [t EXCEPT !.step = "save"]
  <2>1. new \in Updates /\ new.type = "status"
    BY <1>2 DEF Updates
  <2>2. new \in Tasks /\ Found(new)
    BY <1>3, <2>1 DEF Tasks, Found
  <2>3. tasks' \subseteq tasks \cup {new}
    BY <1>3 DEF FindStatus, Becomes
  <2> HIDE DEF new
  <2>4. QED
    BY <1>1, <1>2, <2>2, <2>3, OneTask
<1>4. CASE ~(status # None /\ status.pr = t.pr)
  BY <1>1, <1>4, NoTask DEF FindStatus, Ends
<1>5. QED
  BY <1>3, <1>4

\* Saving it.
LEMMA UpdateStatusStep ==
    ASSUME IInv, NEW t \in tasks, UpdateStatus(t) PROVE IInv'
<1>1. t \in Updates /\ hist.dismissed = 0 /\ status \in Statuses
  BY TaskOfType, WhileDismissed DEF UpdateStatus, IInv, TypeOK, Harmless, DocInv, Found
<1>2. status' \in Statuses
  <2>1. t.snap \in {"open", "closed", "merged"}
    BY <1>1 DEF Updates, PRState
  <2>2. status \in [status : BlueprintStatus, pr : 0 .. MaxPRs] /\ 0 \in 0 .. MaxPRs
    BY <1>1, BoundsAssumption DEF Statuses
  <2>3. /\ [status EXCEPT !.status = "remediation_prepared"] \in Statuses
        /\ [status EXCEPT !.status = "recheck", !.pr = 0] \in Statuses
        /\ [status EXCEPT !.status = "dismissed"] \in Statuses
    BY <2>2 DEF Statuses, BlueprintStatus
  <2>4. status' = Reported(t.snap)
    BY DEF UpdateStatus
  <2>5. QED
    BY <2>1, <2>3, <2>4 DEF Reported
<1>3. status' # None
  BY <1>2, NoneAssumption
<1>4. /\ count' \in CountType /\ branch' \in Branches \cup {None}
      /\ OpenPRs # {} => branch' # None
      /\ defined' \in Definitions /\ file' \in Contents /\ model' \in Models \cup {None}
      /\ model # None => model' # None
  BY DEF UpdateStatus, IInv, TypeOK, CountType, BranchInv
<1>5. tasks' \subseteq tasks \cup {}
  BY DEF UpdateStatus, Ends
<1>6. Remember /\ prs' = prs
  BY DEF UpdateStatus
<1>7. QED
  BY <1>1, <1>2, <1>3, <1>4, <1>5, <1>6, SamePullRequests

-----------------------------------------------------------------------------
(* Steps that change the pull requests.                                    *)

\* A step that changes them while none that was dismissed stands, or by opening
\* the dismissed one again.
LEMMA OtherPullRequests ==
    ASSUME IInv, Remember, UNCHANGED <<defined, model, status>>,
           hist.dismissed # 0 => Reopening,
           file' \in Contents, count' \in CountType, branch' \in Branches \cup {None},
           prs' \in Seq(PullRequests), Len(prs') <= MaxPRs,
           NEW more \in SUBSET Tasks, tasks' \subseteq tasks \cup more,
           \A t \in more : Found(t),
           BranchInv'
    PROVE  IInv'
<1>1. tasks' \subseteq Tasks
  BY DEF IInv, TypeOK
<1>2. hist' \in HistType
  BY RememberType DEF IInv
<1>3. TypeOK'
  BY <1>1, <1>2 DEF IInv, TypeOK, CountType, HistType
<1>4. DocInv'
  BY DEF IInv, DocInv, Found
<1>5. DismissalInv'
  <2>1. SUFFICES ASSUME hist'.dismissed # 0
                 PROVE  /\ Dismissed' /\ OpenPRs' = {} /\ Len(prs') = hist'.dismissed
                        /\ \A t \in tasks' : Harmless(t)
    BY DEF DismissalInv, Harmless
  <2>2. /\ Dismissed' /\ tasks' = {} /\ OpenPRs' = {}
        /\ hist'.dismissed = Len(prs')
    BY <2>1, Remembered
  <2>3. QED
    BY <2>2
<1>6. QED
  BY <1>3, <1>4, <1>5 DEF IInv

\* What a user's webhooks, or the one of a deleted branch, leave behind.
LEMMA ClosedPRs ==
    ASSUME IInv, NEW n \in OpenPRs, NEW pr \in PullRequests, pr.state # "open",
           prs' = [prs EXCEPT ![n] = pr]
    PROVE  /\ prs' \in Seq(PullRequests) /\ Len(prs') <= MaxPRs
           /\ OpenPRs' = {}
           /\ n \in 1 .. MaxPRs
           /\ hist.dismissed = 0
<1>1. prs \in Seq(PullRequests) /\ Len(prs) <= MaxPRs /\ MaxPRs \in Nat
  BY BoundsAssumption DEF IInv, TypeOK
<1>2. n \in 1 .. Len(prs) /\ Len(prs) \in Nat
  BY <1>1 DEF OpenPRs
<1>3. prs' \in Seq(PullRequests) /\ Len(prs') = Len(prs)
  BY <1>1, <1>2
<1>4. \A m \in 1 .. Len(prs) : m # n => prs'[m] = prs[m]
  BY <1>1, <1>2
<1>5. prs'[n] = pr
  BY <1>1, <1>2
<1>6. \A m \in OpenPRs : m = n
  BY DEF IInv, BranchInv
<1>7. OpenPRs' = {}
  BY <1>3, <1>4, <1>5, <1>6 DEF OpenPRs
<1>8. hist.dismissed = 0
  BY WhileDismissed
<1>9. QED
  BY <1>1, <1>2, <1>3, <1>7, <1>8

\* The tasks of webhooks are there for everybody.
LEMMA WebhookFound ==
    ASSUME NEW e, NEW n, NEW state
    PROVE  /\ \A t \in OnClosed(e, n, state) : Found(t)
           /\ \A t \in OnReopened(e, n) : Found(t)
           /\ \A t \in OnPush(e) : Found(t) /\ Harmless(t)
           /\ Found(Fetch(e)) /\ Harmless(Fetch(e))
BY DEF OnClosed, OnReopened, OnPush, Fetch, Found, Harmless

\* A branch that is there.
LEMMA ThereIsABranch ==
    ASSUME IInv, OpenPRs # {}
    PROVE  branch \in Branches /\ branch.file \in Contents
<1>1. branch \in Branches
  BY DEF IInv, BranchInv, TypeOK
<1>2. QED
  BY <1>1 DEF Branches

\* Closing.
LEMMA CloseStep ==
    ASSUME IInv, Close PROVE IInv'
<1>1. PICK n \in OpenPRs : /\ prs' = ClosedBy(n)
                           /\ ByUser({OnClosed(NextEvent, n, "closed")})
  BY DEF Close
<1> DEFINE more == OnClosed(NextEvent, n, "closed")
           pr == [state |-> "closed", head |-> branch.file]
<1>2. pr \in PullRequests /\ pr.state # "open"
  BY ThereIsABranch DEF PullRequests, PRState
<1>3. /\ prs' \in Seq(PullRequests) /\ Len(prs') <= MaxPRs /\ OpenPRs' = {}
      /\ n \in 1 .. MaxPRs /\ hist.dismissed = 0
  BY <1>1, <1>2, ClosedPRs DEF ClosedBy
<1>4. /\ count' \in CountType /\ NextEvent \in Events
      /\ tasks' \subseteq tasks \cup UNION {more}
  BY <1>1, DeliverType, PairIsFinite DEF ByUser, IInv, TypeOK, CountType
<1>5. more \in SUBSET Tasks /\ \A t \in more : Found(t)
  BY <1>3, <1>4, WebhookTasks, WebhookFound DEF PRState
<1>6. tasks' \subseteq tasks \cup more
  BY <1>4
<1>7. /\ Remember /\ UNCHANGED <<defined, model, status>>
      /\ file' \in Contents /\ branch' \in Branches \cup {None}
  BY DEF Close, IInv, TypeOK
<1>8. BranchInv'
  BY <1>3 DEF BranchInv
<1> HIDE DEF more
<1>9. QED
  BY <1>3, <1>4, <1>5, <1>6, <1>7, <1>8, OtherPullRequests

\* Merging.
LEMMA MergeStep ==
    ASSUME IInv, Merge PROVE IInv'
<1>1. PICK n \in OpenPRs :
         /\ prs' = [prs EXCEPT ![n].state = "merged"]
         /\ ByUser({OnClosed(NextEvent, n, "merged"), OnPush(NextEvent)})
  BY DEF Merge
<1> DEFINE closing == OnClosed(NextEvent, n, "merged")
           more == closing \cup OnPush(NextEvent)
           pr == [prs[n] EXCEPT !.state = "merged"]
<1>2. /\ pr \in PullRequests /\ pr.state # "open"
      /\ prs' = [prs EXCEPT ![n] = pr]
  <2>1. prs[n] \in PullRequests
    BY DEF IInv, TypeOK, OpenPRs
  <2>2. QED
    BY <1>1, <2>1 DEF PullRequests, PRState
<1>3. /\ prs' \in Seq(PullRequests) /\ Len(prs') <= MaxPRs /\ OpenPRs' = {}
      /\ n \in 1 .. MaxPRs /\ hist.dismissed = 0
  BY <1>2, ClosedPRs
<1>4. /\ count' \in CountType /\ NextEvent \in Events
      /\ tasks' \subseteq tasks \cup UNION {closing, OnPush(NextEvent)}
  BY <1>1, DeliverType, PairIsFinite DEF ByUser, IInv, TypeOK, CountType
<1>5. more \in SUBSET Tasks /\ \A t \in more : Found(t)
  BY <1>3, <1>4, WebhookTasks, WebhookFound DEF PRState
<1>6. tasks' \subseteq tasks \cup more
  BY <1>4
<1>7. Remember /\ UNCHANGED <<defined, model, status>>
  BY DEF Merge
<1>8. file' \in Contents /\ branch' \in Branches
  BY ThereIsABranch, <1>1 DEF Merge, Branches
<1>9. BranchInv'
  BY <1>3 DEF BranchInv
<1> HIDE DEF more
<1>10. QED
  BY <1>3, <1>4, <1>5, <1>6, <1>7, <1>8, <1>9, OtherPullRequests

\* Reopening.
LEMMA ReopenStep ==
    ASSUME IInv, Reopen PROVE IInv'
<1>1. PICK n \in 1 .. Len(prs) :
         /\ prs[n].state = "closed"
         /\ branch' = IF branch = None
                      THEN [file |-> prs[n].head, ahead |-> TRUE, after |-> n - 1]
                      ELSE branch
         /\ prs' = [prs EXCEPT ![n].state = "open"]
         /\ ByUser({OnReopened(NextEvent, n)})
  BY DEF Reopen
<1> DEFINE more == OnReopened(NextEvent, n)
<1>2. prs \in Seq(PullRequests) /\ Len(prs) <= MaxPRs /\ MaxPRs \in Nat /\ OpenPRs = {}
  BY BoundsAssumption DEF IInv, TypeOK, Reopen
<1>3. n \in 1 .. MaxPRs /\ n - 1 \in 0 .. MaxPRs /\ prs[n] \in PullRequests
  BY <1>2
<1>4. prs[n].head \in Contents
  BY <1>3 DEF PullRequests
<1>5. [prs[n] EXCEPT !.state = "open"] \in PullRequests
  BY <1>3 DEF PullRequests, PRState
<1>6. prs' \in Seq(PullRequests) /\ Len(prs') = Len(prs)
  BY <1>1, <1>2, <1>5
<1>7. /\ prs'[n].state = "open"
      /\ \A m \in 1 .. Len(prs) : m # n => prs'[m] = prs[m]
  BY <1>1, <1>2, <1>3, <1>5 DEF PullRequests
<1>8. Reopening
  BY <1>1, <1>7 DEF Reopening
<1>9. OpenPRs' = {n}
  BY <1>2, <1>6, <1>7 DEF OpenPRs
<1>10. branch' \in Branches
  <2>1. CASE branch = None
    BY <1>1, <1>3, <1>4, <2>1 DEF Branches
  <2>2. CASE branch # None
    BY <1>1, <2>2 DEF IInv, TypeOK
  <2>3. QED
    BY <2>1, <2>2
<1>11. branch' # None
  BY <1>10, NoneAssumption
<1>12. BranchInv'
  BY <1>9, <1>11 DEF BranchInv
<1>13. /\ count' \in CountType /\ NextEvent \in Events
       /\ tasks' \subseteq tasks \cup UNION {more}
  BY <1>1, DeliverType, PairIsFinite DEF ByUser, IInv, TypeOK, CountType
<1>14. more \in SUBSET Tasks /\ \A t \in more : Found(t)
  BY <1>3, <1>13, WebhookTasks, WebhookFound
<1>15. tasks' \subseteq tasks \cup more
  BY <1>13
<1>16. Remember /\ UNCHANGED <<defined, model, status>> /\ file' \in Contents
  BY DEF Reopen, IInv, TypeOK
<1> HIDE DEF more
<1>17. QED
  BY <1>2, <1>6, <1>8, <1>10, <1>12, <1>13, <1>14, <1>15, <1>16, OtherPullRequests

\* Opening a pull request.
LEMMA OpenPullRequestStep ==
    ASSUME IInv, NEW t \in tasks, OpenPullRequest(t) PROVE IInv'
<1>1. t \in Checks /\ hist.dismissed = 0
  BY PastFirst DEF OpenPullRequest
<1>2. Remember /\ UNCHANGED <<defined, model, file, branch, status, count>>
  BY DEF OpenPullRequest
<1>3. /\ count' \in CountType /\ file' \in Contents
      /\ branch' \in Branches \cup {None} /\ status' \in Statuses \cup {None}
      /\ OpenPRs # {} => branch' # None
  BY <1>2 DEF IInv, TypeOK, CountType, BranchInv
<1>4. CASE branch # None /\ OpenPRs = {} /\ branch.ahead
  <2> DEFINE pr == [state |-> "open", head |-> "missing"]
             new == Saving(t, "remediation_prepared", Len(prs) + 1)
             more == {new}
  <2>1. prs' = Append(prs, pr) /\ Saves(t, "remediation_prepared", Len(prs) + 1)
    BY <1>4 DEF OpenPullRequest
  <2>2. /\ prs \in Seq(PullRequests) /\ Len(prs) < MaxPRs
        /\ MaxPRs \in Nat /\ Len(prs) \in Nat
    BY BoundsAssumption DEF IInv, TypeOK, OpenPullRequest
  <2>3. pr \in PullRequests
    BY DEF PullRequests, PRState, Contents
  <2>4. /\ prs' \in Seq(PullRequests) /\ Len(prs') = Len(prs) + 1
        /\ \A m \in 1 .. Len(prs) : prs'[m] = prs[m]
    BY <2>1, <2>2, <2>3
  <2>5. \A m \in OpenPRs' : m = Len(prs) + 1
    BY <1>4, <2>2, <2>4 DEF OpenPRs
  <2>6. BranchInv'
    BY <1>2, <1>4, <2>5 DEF BranchInv
  <2>7. Len(prs) + 1 \in 0 .. MaxPRs /\ "remediation_prepared" \in BlueprintStatus
    BY <2>2 DEF BlueprintStatus
  <2>8. new \in Tasks /\ Found(new) /\ tasks' \subseteq tasks \cup {new}
    BY <1>1, <2>1, <2>7, SavesTask
  <2>9. more \in SUBSET Tasks /\ (\A u \in more : Found(u)) /\ tasks' \subseteq tasks \cup more
    BY <2>8
  <2> HIDE DEF more
  <2>10. QED
    BY <1>1, <1>2, <1>3, <2>2, <2>4, <2>6, <2>9, OtherPullRequests
<1>5. CASE ~(branch # None /\ OpenPRs = {} /\ branch.ahead)
  <2>1. Fails(t) /\ prs' = prs
    BY <1>5 DEF OpenPullRequest
  <2>2. PICK new \in Tasks : new.type = "check" /\ tasks' \subseteq tasks \cup {new}
    BY <1>1, <2>1, FailsCheck
  <2>3. QED
    BY <1>1, <1>2, <1>3, <2>1, <2>2, CheckChanges
<1>6. QED
  BY <1>4, <1>5

\* Deleting the branch.
LEMMA DeleteBranchStep ==
    ASSUME IInv, NEW t \in tasks, DeleteBranch(t) PROVE IInv'
<1>1. /\ Remember /\ UNCHANGED <<defined, model, file, status>> /\ branch' = None
      /\ file' \in Contents /\ branch' \in Branches \cup {None}
  BY DEF DeleteBranch, IInv, TypeOK
<1>2. CASE OpenPRs = {} /\ Ends(t) /\ UNCHANGED <<prs, count>>
  <2>1. /\ defined' \in Definitions /\ count' \in CountType
        /\ model' \in Models \cup {None} /\ status' \in Statuses \cup {None}
        /\ model # None => model' # None
        /\ status # None => status' # None
        /\ OpenPRs # {} => branch' # None
    BY <1>1, <1>2 DEF IInv, TypeOK, CountType
  <2>2. tasks' \subseteq tasks \cup {}
    BY <1>2 DEF Ends
  <2>3. QED
    BY <1>1, <1>2, <2>1, <2>2, SamePullRequests
<1>3. ASSUME NEW n \in OpenPRs, prs' = ClosedBy(n),
             Deliver(tasks \ {t}, {OnClosed(t.event, n, "closed")}, 0)
      PROVE  IInv'
  <2> DEFINE more == OnClosed(t.event, n, "closed")
             pr == [state |-> "closed", head |-> branch.file]
  <2>1. pr \in PullRequests /\ pr.state # "open"
    BY ThereIsABranch DEF PullRequests, PRState
  <2>2. /\ prs' \in Seq(PullRequests) /\ Len(prs') <= MaxPRs /\ OpenPRs' = {}
        /\ n \in 1 .. MaxPRs /\ hist.dismissed = 0
    BY <1>3, <2>1, ClosedPRs DEF ClosedBy
  <2>3. t \in Deletes
    BY TaskOfType DEF DeleteBranch, IInv, TypeOK
  <2>4. t.event \in Events
    BY <2>3 DEF Deletes
  <2>5. count' \in CountType /\ tasks' \subseteq (tasks \ {t}) \cup UNION {more}
    BY <1>3, DeliverType, PairIsFinite DEF IInv, TypeOK, CountType
  <2>6. more \in SUBSET Tasks /\ \A u \in more : Found(u)
    BY <2>2, <2>4, WebhookTasks, WebhookFound DEF PRState
  <2>7. tasks' \subseteq tasks \cup more
    BY <2>5
  <2>8. BranchInv'
    BY <2>2 DEF BranchInv
  <2> HIDE DEF more
  <2>9. QED
    BY <1>1, <2>2, <2>5, <2>6, <2>7, <2>8, OtherPullRequests
<1>4. branch = None => OpenPRs = {}
  BY DEF IInv, BranchInv
<1>5. QED
  BY <1>2, <1>3, <1>4 DEF DeleteBranch

-----------------------------------------------------------------------------
(* The other actions of users, and faults.                                 *)

\* Editing the file.
LEMMA EditFileStep ==
    ASSUME IInv, EditFile PROVE IInv'
<1> DEFINE more == OnPush(NextEvent)
<1>1. /\ count' \in CountType /\ NextEvent \in Events
      /\ tasks' \subseteq tasks \cup UNION {more}
  BY DeliverType, PairIsFinite DEF EditFile, ByUser, IInv, TypeOK, CountType
<1>2. more \in SUBSET Tasks /\ \A t \in more : Found(t)' /\ Harmless(t)
  BY <1>1, WebhookTasks DEF OnPush, Found, Harmless
<1>3. tasks' \subseteq tasks \cup more
  BY <1>1
<1>4. Remember /\ UNCHANGED <<defined, model, branch, prs, status>> /\ file' \in Contents
  BY DEF EditFile, Contents
<1>5. /\ defined' \in Definitions
      /\ model' \in Models \cup {None} /\ status' \in Statuses \cup {None}
      /\ branch' \in Branches \cup {None}
      /\ OpenPRs # {} => branch' # None
  BY <1>4 DEF IInv, TypeOK, BranchInv
<1> HIDE DEF more
<1>6. QED
  BY <1>1, <1>2, <1>3, <1>4, <1>5, SamePullRequests

\* Editing the open pull request.
LEMMA EditBranchStep ==
    ASSUME IInv, EditBranch PROVE IInv'
<1> DEFINE more == {}
<1>1. count' \in CountType /\ tasks' \subseteq tasks \cup UNION {}
  BY DeliverType, PairIsFinite DEF EditBranch, ByUser, IInv, TypeOK, CountType
<1>2. /\ more \in SUBSET Tasks /\ tasks' \subseteq tasks \cup more
      /\ \A t \in more : Found(t)' /\ Harmless(t)
  BY <1>1
<1>3. branch' \in Branches
  BY ThereIsABranch DEF EditBranch, Branches, Contents
<1>4. branch' \in Branches \cup {None} /\ branch' # None
  BY <1>3, NoneAssumption
<1>5. Remember /\ UNCHANGED <<defined, model, file, prs, status>>
  BY DEF EditBranch
<1>6. /\ defined' \in Definitions /\ file' \in Contents
      /\ model' \in Models \cup {None} /\ status' \in Statuses \cup {None}
  BY <1>5 DEF IInv, TypeOK
<1> HIDE DEF more
<1>7. QED
  BY <1>1, <1>2, <1>3, <1>4, <1>5, <1>6, SamePullRequests

\* Redefining the blueprint.
LEMMA RedefineStep ==
    ASSUME IInv, Redefine PROVE IInv'
<1> DEFINE fetch == Fetch(NextEvent)
           more == {fetch}
<1>1. /\ count' \in CountType /\ NextEvent \in Events
      /\ tasks' \subseteq tasks \cup UNION {more}
  BY DeliverType, PairIsFinite DEF Redefine, ByUser, IInv, TypeOK, CountType
<1>2. fetch \in Tasks
  BY <1>1, WebhookTasks DEF IInv, TypeOK, Tasks
<1>3. more \in SUBSET Tasks /\ \A t \in more : Found(t)' /\ Harmless(t)
  BY <1>2 DEF Fetch, Found, Harmless
<1>4. tasks' \subseteq tasks \cup more
  BY <1>1
<1>5. Remember /\ UNCHANGED <<model, file, branch, prs, status>> /\ defined' \in Definitions
  BY DEF Redefine
<1>6. /\ file' \in Contents
      /\ model' \in Models \cup {None} /\ status' \in Statuses \cup {None}
      /\ branch' \in Branches \cup {None}
      /\ OpenPRs # {} => branch' # None
  BY <1>5 DEF IInv, TypeOK, BranchInv
<1> HIDE DEF more
<1>7. QED
  BY <1>1, <1>3, <1>4, <1>5, <1>6, SamePullRequests

\* A call that fails: a check that stores the failure is past a dismissal only
\* if the look-up of the dismissal failed.
LEMMA RaiseStep ==
    ASSUME IInv, NEW t \in tasks, Raise(t) PROVE IInv'
<1>1. count' \in CountType /\ count'.faults = count.faults + 1 /\ count.faults \in Nat
  BY CountsType DEF Raise, IInv, TypeOK, CountType
<1>2. Remember /\ UNCHANGED <<defined, model, file, branch, prs, status>>
  BY DEF Raise
<1>3. /\ defined' \in Definitions /\ file' \in Contents
      /\ model' \in Models \cup {None} /\ status' \in Statuses \cup {None}
      /\ branch' \in Branches \cup {None}
      /\ OpenPRs # {} => branch' # None
  BY <1>2 DEF IInv, TypeOK, BranchInv
<1>4. CASE t.type = "check" /\ Fails(t)
  <2> DEFINE new == Saving(t, "failure", 0)
             more == {new}
  <2>1. t \in Checks /\ (t.step # "pre" => hist.dismissed = 0)
    BY <1>4, PastFirst
  <2>2. "failure" \in BlueprintStatus /\ 0 \in 0 .. MaxPRs
    BY BoundsAssumption DEF BlueprintStatus
  <2>3. new \in Tasks /\ new.step = "save" /\ new.type = "check"
    BY <2>1, <2>2, <1>4, SavesTask DEF Fails, Saving, Checks
  <2>4. tasks' = (tasks \ {t}) \cup {new}
    BY <1>4 DEF Fails, Saves, Becomes, Saving
  <2>5. t.step = "pre" => LookupFails
    BY <1>1, <1>4, <2>3, <2>4 DEF LookupFails
  <2>6. /\ more \in SUBSET Tasks /\ tasks' \subseteq tasks \cup more
        /\ \A u \in more : Found(u)'
    BY <2>3, <2>4 DEF Found
  <2> HIDE DEF new, more
  <2>7. QED
    BY <1>1, <1>2, <1>3, <2>1, <2>5, <2>6, SamePullRequests
<1>5. CASE Ends(t)
  <2>1. tasks' \subseteq tasks \cup {}
    BY <1>5 DEF Ends
  <2>2. QED
    BY <1>1, <1>2, <1>3, <2>1, SamePullRequests
<1>6. QED
  BY <1>4, <1>5 DEF Raise

\* A restart.
LEMMA RestartStep ==
    ASSUME IInv, Restart PROVE IInv'
<1>1. count' \in CountType
  BY CountsType DEF Restart, IInv, TypeOK, CountType
<1>2. Remember /\ UNCHANGED <<defined, model, file, branch, prs, status>>
  BY DEF Restart
<1>3. /\ defined' \in Definitions /\ file' \in Contents
      /\ model' \in Models \cup {None} /\ status' \in Statuses \cup {None}
      /\ branch' \in Branches \cup {None}
      /\ OpenPRs # {} => branch' # None
  BY <1>2 DEF IInv, TypeOK, BranchInv
<1>4. tasks' \subseteq tasks \cup {}
  BY DEF Restart
<1>5. QED
  BY <1>1, <1>2, <1>3, <1>4, SamePullRequests

-----------------------------------------------------------------------------
(* The theorems.                                                           *)

\* The invariant holds when the blueprint is first fetched.
LEMMA InitIInv == Init => IInv
<1> SUFFICES ASSUME Init PROVE IInv
  OBVIOUS
<1>1. 0 \in Events /\ defined \in Definitions
  BY BoundsAssumption DEF Init, Events
<1>2. Fetch(0) \in Tasks /\ Found(Fetch(0))
  BY <1>1, WebhookTasks, WebhookFound DEF Tasks
<1>3. OpenPRs = {}
  BY DEF Init, OpenPRs
<1>4. TypeOK
  BY <1>1, <1>2, BoundsAssumption DEF Init, TypeOK, Contents, Events
<1>5. DocInv /\ BranchInv /\ DismissalInv
  BY <1>2, <1>3 DEF Init, DocInv, BranchInv, DismissalInv
<1>6. QED
  BY <1>4, <1>5 DEF IInv

\* Every step preserves it.
LEMMA NextIInv == IInv /\ [Next]_vars => IInv'
<1> SUFFICES ASSUME IInv, [Next]_vars PROVE IInv'
  OBVIOUS
<1>1. CASE User
  BY <1>1, EditFileStep, EditBranchStep, CloseStep, MergeStep, ReopenStep, RedefineStep DEF User
<1>2. CASE StartRound
  BY <1>2, StartRoundStep
<1>3. CASE Restart
  BY <1>3, RestartStep
<1>4. ASSUME NEW t \in tasks, TaskStep(t) PROVE IInv'
  BY <1>4, ReadDefinitionStep, FindModelStep, SaveModelStep, EvaluateStep, SaveRoundStep,
     CheckAfterPushStep, SkipDismissedStep, LookAtFileStep, LookForBranchStep,
     CreateBranchStep, UpdateContentStep, FindPullRequestStep, OpenPullRequestStep,
     SaveStatusStep, FindStatusStep, UpdateStatusStep, DeleteBranchStep
     DEF TaskStep
<1>5. ASSUME NEW t \in tasks, Raise(t) PROVE IInv'
  BY <1>5, RaiseStep
<1>6. CASE UNCHANGED vars
  BY <1>6 DEF vars, IInv, TypeOK, DocInv, Found, BranchInv, DismissalInv, Harmless, OpenPRs,
              Dismissed
<1>7. QED
  BY <1>1, <1>2, <1>3, <1>4, <1>5, <1>6 DEF Next, Work

\* The inductive invariant holds in every reachable state.
THEOREM Invariance == Spec => []IInv
BY InitIInv, NextIInv, PTL DEF Spec

\* Every variable of the blueprint, the repository and the tasks keeps its type.
THEOREM TypeCorrect == Spec => []TypeOK
<1>1. IInv => TypeOK
  BY DEF IInv
<1>2. QED
  BY <1>1, Invariance, PTL

\* A dismissal that has settled is not overwritten by any check, and no pull
\* request is prepared for it, until a user reopens one (_pre_execute of
\* CheckFilesTask and UpdateBlueprintStatusTask), whatever users do, webhooks are
\* lost, calls fail and the app restarts.
THEOREM SettledDismissalStands == Spec => []DismissalStands
<1>1. IInv => DismissalStands
  BY DEF IInv, DismissalInv, DismissalStands
<1>2. QED
  BY <1>1, Invariance, PTL

-----------------------------------------------------------------------------
(* What is true while users act on a settled app only and nothing goes     *)
(* wrong.                                                                  *)

Complies == Compliant(model.config, file)
Checking == \E t \in tasks : t.type \in {"push", "check"}

\* Nobody is going to check the blueprint.
Quiet ==
    /\ model # None /\ ~model.recheck
    /\ status # None /\ status.status \notin Unchecked
    /\ \A t \in tasks : /\ t.type \notin {"push", "check"}
                        /\ t.type = "round" => ~t.found.recheck
                        /\ t.type = "status" => t.snap # "merged"

\* The blueprint is fetched while nothing but a round is under way.
CalmFetch(t) ==
    /\ \A u \in tasks : u = t \/ u.type = "round"
    /\ model = None \/ Quiet
    /\ t.step = "save" => t.found = model

\* A round checks with the configuration that is stored, or does not check; when it
\* resets the request for a recheck, the check is there.
CalmRound(t) ==
    /\ \A u \in tasks : u.type = "round" => u = t
    /\ t.step = "evaluate" =>
          \/ t.found.config = model.config
          \/ /\ ~t.found.recheck /\ status # None /\ status.status \notin Unchecked
             /\ tasks = {t}
    /\ (/\ t.step = "save" /\ t.found.recheck
        /\ status # None /\ status.status = "success" /\ ~Complies) => Checking

\* What a check has found out is still the case.
CalmCheck(t) ==
    /\ t.config = model.config
    /\ t.step \in {"ref", "create", "content", "find", "open"} => ~Complies
    /\ t.step = "save" =>
          /\ t.outcome \in {"success", "failure", "remediation_prepared"}
          /\ t.outcome = "success" => Complies
          /\ t.outcome = "remediation_prepared" => t.pr \in OpenPRs

\* What is reported of a pull request is still its state.
CalmUpdate(t) ==
    /\ t.pr \in 1 .. Len(prs) /\ prs[t.pr].state = t.snap
    /\ t.snap # "merged" => Quiet /\ (t.step = "save" => status.pr = t.pr)

\* A branch is deleted when it has no open pull request and gets none.
CalmDelete(t) == OpenPRs = {} /\ (Quiet \/ Complies)

CalmTask(t) ==
    /\ t.type # "fetch" => model # None
    /\ t.type = "push" => status # None
    /\ t.type = "fetch" => CalmFetch(t)
    /\ t.type = "round" => CalmRound(t)
    /\ t.type = "check" => CalmCheck(t)
    /\ t.type = "status" => CalmUpdate(t)
    /\ t.type = "delete" => CalmDelete(t)

Pending(snaps) == \E t \in tasks : t.type = "status" /\ t.pr = status.pr /\ t.snap \in snaps

\* A status that is not true is about to be corrected.
CalmStatus ==
    status # None =>
       /\ model # None
       /\ status.status = "success" /\ ~Complies => model.recheck \/ Checking
       /\ status.status = "remediation_prepared" =>
             status.pr \in OpenPRs \/ Pending({"closed", "merged"})
       /\ status.status = "dismissed" =>
             /\ status.pr \in 1 .. Len(prs)
             /\ prs[status.pr].state = "closed" \/ Pending({"open"})

CalmTasks == \A t \in tasks : CalmTask(t)
CalmInv == Calm => CalmStatus /\ CalmTasks

\* Nothing is asked for once everything is quiet, as long as only rounds come.
LEMMA StaysQuiet ==
    ASSUME Quiet, UNCHANGED <<model, status>>, NEW more,
           tasks' \subseteq tasks \cup more,
           \A u \in more : /\ u.type \notin {"push", "check"}
                           /\ u.type = "round" => ~u.found.recheck
                           /\ u.type = "status" => u.snap # "merged"
    PROVE  Quiet'
BY DEF Quiet, Unchecked

\* A push or a check goes on as a check.
LEMMA CheckMoves ==
    ASSUME CalmStatus, CalmTasks, NEW t \in tasks, t.type \in {"push", "check"},
           NEW new, new.type = "check", CalmCheck(new)',
           tasks' = (tasks \ {t}) \cup {new},
           UNCHANGED <<model, file, prs, status>>
    PROVE  CalmStatus' /\ CalmTasks'
<1>1. model # None /\ ~Quiet /\ Checking'
  BY DEF CalmTasks, CalmTask, Quiet, Checking
<1>2. \A u \in tasks : u.type # "fetch"
  BY DEF CalmTasks, CalmTask, CalmFetch
<1>3. CalmStatus'
  <2>1. \A snaps : Pending(snaps) => Pending(snaps)'
    BY DEF Pending
  <2>2. QED
    BY <1>1, <2>1 DEF CalmStatus, Complies, Compliant, OpenPRs
<1>4. ASSUME NEW u \in tasks, u # t PROVE CalmTask(u)'
  <2>1. CalmTask(u) /\ u.type # "fetch"
    BY <1>2 DEF CalmTasks
  <2>2. u.type = "round" => CalmRound(u)'
    BY <1>1, <2>1 DEF CalmTask, CalmRound
  <2>3. u.type = "check" => CalmCheck(u)'
    BY <2>1 DEF CalmTask, CalmCheck, Complies, Compliant, OpenPRs
  <2>4. u.type = "status" => CalmUpdate(u)'
    BY <1>1, <2>1 DEF CalmTask, CalmUpdate
  <2>5. u.type = "delete" => CalmDelete(u)'
    BY <1>1, <2>1 DEF CalmTask, CalmDelete, Complies, Compliant, OpenPRs
  <2>6. QED
    BY <2>1, <2>2, <2>3, <2>4, <2>5 DEF CalmTask
<1>5. CalmTask(new)'
  BY <1>1 DEF CalmTask
<1>6. QED
  BY <1>3, <1>4, <1>5 DEF CalmTasks

\* A check ends, and leaves a status that is no untrue success.
LEMMA CheckEnds ==
    ASSUME CalmTasks, NEW t \in tasks, t.type = "check", tasks' = tasks \ {t},
           UNCHANGED <<model, file, prs>>,
           status' # None, status'.status = "success" => Complies
    PROVE  CalmTasks'
<1>1. ~Quiet
  BY DEF Quiet
<1>2. ASSUME NEW u \in tasks, u # t PROVE CalmTask(u)'
  <2>1. CalmTask(u) /\ u.type # "fetch"
    BY <1>2 DEF CalmTasks, CalmTask, CalmFetch
  <2>2. u.type = "round" => CalmRound(u)'
    BY <1>2, <2>1 DEF CalmTask, CalmRound, Complies, Compliant
  <2>3. u.type = "check" => CalmCheck(u)'
    BY <2>1 DEF CalmTask, CalmCheck, Complies, Compliant, OpenPRs
  <2>4. u.type = "status" => CalmUpdate(u)'
    BY <1>1, <2>1 DEF CalmTask, CalmUpdate
  <2>5. u.type = "delete" => CalmDelete(u)'
    BY <1>1, <2>1 DEF CalmTask, CalmDelete, Complies, Compliant, OpenPRs
  <2>6. QED
    BY <2>1, <2>2, <2>3, <2>4, <2>5 DEF CalmTask
<1>3. QED
  BY <1>2 DEF CalmTasks

\* A deletion ends, or an update that the status is not about.
LEMMA OtherEnds ==
    ASSUME CalmStatus, CalmTasks, NEW t \in tasks, t.type \in {"status", "delete"},
           tasks' = tasks \ {t},
           t.type = "status" /\ status # None => t.pr # status.pr,
           UNCHANGED <<model, file, prs, status>>
    PROVE  CalmStatus' /\ CalmTasks'
<1>1. Quiet => Quiet'
  BY DEF Quiet, Unchecked
<1>2. Checking => Checking'
  BY DEF Checking
<1>3. CalmStatus'
  <2>1. \A snaps : status # None /\ Pending(snaps) => Pending(snaps)'
    BY DEF Pending
  <2>2. QED
    BY <1>2, <2>1 DEF CalmStatus, Complies, Compliant, OpenPRs
<1>4. ASSUME NEW u \in tasks, u # t PROVE CalmTask(u)'
  <2>1. CalmTask(u) /\ u.type # "fetch"
    BY <1>4 DEF CalmTasks, CalmTask, CalmFetch
  <2>2. u.type = "round" => CalmRound(u)'
    BY <1>2, <1>4, <2>1 DEF CalmTask, CalmRound, Complies, Compliant
  <2>3. u.type = "check" => CalmCheck(u)'
    BY <2>1 DEF CalmTask, CalmCheck, Complies, Compliant, OpenPRs
  <2>4. u.type = "status" => CalmUpdate(u)'
    BY <1>1, <2>1 DEF CalmTask, CalmUpdate
  <2>5. u.type = "delete" => CalmDelete(u)'
    BY <1>1, <2>1 DEF CalmTask, CalmDelete, Complies, Compliant, OpenPRs
  <2>6. QED
    BY <2>1, <2>2, <2>3, <2>4, <2>5 DEF CalmTask
<1>5. QED
  BY <1>3, <1>4 DEF CalmTasks

-----------------------------------------------------------------------------
(* The steps of the tasks.                                                 *)

\* A delivery takes no fault back, and without one all webhooks arrive.
LEMMA DeliveredFaults ==
    ASSUME count \in CountType, NEW acts \in {0, 1}, NEW remaining, NEW webhooks,
           IsFiniteSet(webhooks), Deliver(remaining, webhooks, acts)
    PROVE  count'.faults \in Nat /\ count'.faults >= count.faults
<1>1. PICK lost \in SUBSET webhooks : Counts(acts, Cardinality(lost))
  BY DEF Deliver
<1>2. Cardinality(lost) \in Nat
  BY <1>1, FS_Subset, FS_CardinalityType
<1>3. count'.faults = count.faults + Cardinality(lost) /\ count.faults \in Nat
  BY <1>1, <1>2, CountsType DEF CountType
<1>4. QED
  BY <1>2, <1>3

LEMMA DeliveredAll ==
    ASSUME count \in CountType, NEW remaining, NEW webhooks,
           IsFiniteSet(webhooks), Deliver(remaining, webhooks, 1),
           count.faults = 0, count'.faults = 0
    PROVE  tasks' = remaining \cup UNION webhooks /\ count'.events # count.events
<1>1. PICK lost \in SUBSET webhooks :
         /\ Counts(1, Cardinality(lost))
         /\ tasks' = remaining \cup UNION (webhooks \ lost)
  BY DEF Deliver
<1>2. Cardinality(lost) \in Nat /\ IsFiniteSet(lost)
  BY <1>1, FS_Subset, FS_CardinalityType
<1>3. count'.faults = count.faults + Cardinality(lost)
  BY <1>1, <1>2, CountsType
<1>4. Cardinality(lost) = 0
  BY <1>2, <1>3
<1>5. lost = {}
  BY <1>2, <1>4, FS_EmptySet
<1>6. count.events \in Nat /\ count'.events = count.events + 2 * 0 + 1
  BY <1>1, <1>4 DEF Counts, CountType, Events
<1>7. QED
  BY <1>1, <1>5, <1>6

\* Users were calm before a step if they are after it.
LEMMA CalmBefore ==
    ASSUME TypeOK, Remember, Calm', count'.faults \in Nat, count'.faults >= count.faults
    PROVE  /\ Calm
           /\ count'.events # count.events => Settled
           /\ Merging => Compliant(model.config, file')
<1>1. hist'.calm = (/\ hist.calm
                    /\ count'.events # count.events => Settled
                    /\ Merging => Compliant(model.config, file'))
  BY DEF Remember
<1>2. hist'.calm /\ count'.faults = 0 /\ count.faults \in Nat
  BY DEF Calm, TypeOK
<1>3. count.faults = 0
  BY <1>2
<1>4. QED
  BY <1>1, <1>2, <1>3, Zenon DEF Calm

LEMMA CalmStep ==
    ASSUME IInv, CalmInv, Remember, Calm', UNCHANGED count
    PROVE  CalmStatus /\ CalmTasks
<1>1. count.faults \in Nat
  BY DEF IInv, TypeOK
<1>2. Calm
  BY <1>1, CalmBefore DEF IInv
<1>3. QED
  BY <1>2 DEF CalmInv

\* Reading the definition and finding the model.
LEMMA FetchMoves ==
    ASSUME CalmStatus, CalmTasks, NEW t \in tasks, t.type = "fetch",
           NEW new, new.type = "fetch", new.step = "save" => new.found = model,
           tasks' = (tasks \ {t}) \cup {new},
           UNCHANGED <<model, file, prs, status>>
    PROVE  CalmStatus' /\ CalmTasks'
<1>1. (\A u \in tasks : u = t \/ u.type = "round") /\ (model = None \/ Quiet)
  BY DEF CalmTasks, CalmTask, CalmFetch
<1>2. Quiet => Quiet'
  BY DEF Quiet, Unchecked
<1>3. CalmStatus'
  <2>1. ~Checking /\ \A snaps : ~Pending(snaps)
    BY <1>1 DEF Checking, Pending
  <2>2. QED
    BY <2>1 DEF CalmStatus, Complies, Compliant, OpenPRs
<1>4. ASSUME NEW u \in tasks, u # t PROVE CalmTask(u)'
  <2>1. CalmTask(u) /\ u.type = "round" /\ ~Checking
    BY <1>1, <1>4 DEF CalmTasks, Checking
  <2>2. CalmRound(u)'
    BY <1>4, <2>1 DEF CalmTask, CalmRound, Complies, Compliant
  <2>3. QED
    BY <2>1, <2>2 DEF CalmTask
<1>5. CalmTask(new)'
  BY <1>1, <1>2 DEF CalmTask, CalmFetch
<1>6. QED
  BY <1>3, <1>4, <1>5 DEF CalmTasks

LEMMA CalmReadDefinition ==
    ASSUME IInv, CalmInv, Calm', NEW t \in tasks, ReadDefinition(t)
    PROVE  CalmStatus' /\ CalmTasks'
<1>1. CalmStatus /\ CalmTasks
  BY CalmStep DEF ReadDefinition
<1> DEFINE new == [t EXCEPT !.step = "find", !.read = defined]
<1>2. t \in Fetches
  BY TaskOfType DEF IInv, TypeOK, ReadDefinition
<1>3. new.type = "fetch" /\ new.step = "find"
  BY <1>2 DEF Fetches
<1>4. tasks' = (tasks \ {t}) \cup {new} /\ UNCHANGED <<model, file, prs, status>> /\ t.type = "fetch"
  BY DEF ReadDefinition, Becomes
<1> HIDE DEF new
<1>5. QED
  BY <1>1, <1>3, <1>4, FetchMoves

LEMMA CalmFindModel ==
    ASSUME IInv, CalmInv, Calm', NEW t \in tasks, FindModel(t)
    PROVE  CalmStatus' /\ CalmTasks'
<1>1. CalmStatus /\ CalmTasks
  BY CalmStep DEF FindModel
<1> DEFINE new == [t EXCEPT !.step = "save", !.found = model]
<1>2. t \in Fetches
  BY TaskOfType DEF IInv, TypeOK, FindModel
<1>3. new.type = "fetch" /\ new.found = model
  BY <1>2 DEF Fetches
<1>4. tasks' = (tasks \ {t}) \cup {new} /\ UNCHANGED <<model, file, prs, status>> /\ t.type = "fetch"
  BY DEF FindModel, Becomes
<1> HIDE DEF new
<1>5. QED
  BY <1>1, <1>3, <1>4, FetchMoves

\* Saving what was fetched asks for a recheck, or changes nothing that matters.
LEMMA CalmSaveModel ==
    ASSUME IInv, CalmInv, Calm', NEW t \in tasks, SaveModel(t)
    PROVE  CalmStatus' /\ CalmTasks'
<1>1. CalmStatus /\ CalmTasks
  BY CalmStep DEF SaveModel
<1>2. /\ \A u \in tasks : u = t \/ u.type = "round"
      /\ model = None \/ Quiet
      /\ t.found = model
  BY <1>1 DEF CalmTasks, CalmTask, CalmFetch, SaveModel
<1>3. tasks' = tasks \ {t} /\ UNCHANGED <<file, prs, status>>
  BY DEF SaveModel, Ends
<1>4. CASE model = None
  <2>1. status = None /\ tasks' = {}
    BY <1>1, <1>2, <1>3, <1>4 DEF CalmStatus, CalmTasks, CalmTask
  <2>2. QED
    BY <1>3, <2>1 DEF CalmStatus, CalmTasks
<1>5. CASE model # None
  <2>1. Quiet /\ model \in Models
    BY <1>2, <1>5 DEF IInv, TypeOK
  <2>2. model' = Updated(model, t.read) /\ t.read \in Definitions
    <3>1. t \in Fetches
      BY TaskOfType DEF IInv, TypeOK, SaveModel
    <3>2. QED
      BY <1>2, <1>5, <3>1 DEF SaveModel, Fetches
  <2>3. /\ model' \in Models
        /\ model'.recheck \/ model'.config = model.config
    <3>1. /\ [model EXCEPT !.label = t.read.label, !.recheck = TRUE] \in Models
          /\ [model EXCEPT !.label = t.read.label, !.recheck = TRUE].recheck
          /\ [model EXCEPT !.config = t.read.config, !.recheck = TRUE] \in Models
          /\ [model EXCEPT !.config = t.read.config, !.recheck = TRUE].recheck
          /\ [model EXCEPT !.recheck = FALSE] \in Models
          /\ [model EXCEPT !.recheck = FALSE].config = model.config
      BY <2>1, <2>2 DEF Models, Definitions
    <3>2. QED
      BY <2>2, <3>1 DEF Updated
  <2>4. model' # None
    BY <2>3, NoneAssumption
  <2>5. CalmStatus'
    <3>1. ~Checking /\ \A snaps : ~Pending(snaps)
      BY <1>2 DEF Checking, Pending, SaveModel
    <3>2. /\ status.status = "success" => Complies
          /\ status.status = "remediation_prepared" => status.pr \in OpenPRs
          /\ status.status = "dismissed" => status.pr \in 1 .. Len(prs) /\ prs[status.pr].state = "closed"
      BY <1>1, <2>1, <3>1 DEF CalmStatus, Quiet
    <3>3. OpenPRs' = OpenPRs
      BY <1>3 DEF OpenPRs
    <3>4. status.status = "success" => model'.recheck \/ Complies'
      BY <1>3, <2>3, <3>2 DEF Complies, Compliant
    <3>5. QED
      BY <1>3, <2>4, <3>2, <3>3, <3>4 DEF CalmStatus
  <2>6. ASSUME NEW u \in tasks, u # t PROVE CalmTask(u)'
    <3>1. CalmTask(u) /\ u.type = "round" /\ ~u.found.recheck
      BY <1>1, <1>2, <2>1, <2>6 DEF CalmTasks, Quiet
    <3>2. tasks' = {u}
      BY <1>2, <1>3, <2>6, <3>1 DEF CalmTask, CalmRound
    <3>3. status # None /\ status.status \notin Unchecked
      BY <2>1 DEF Quiet
    <3>4. CalmRound(u)'
      BY <1>3, <3>1, <3>2, <3>3 DEF CalmRound, Unchecked
    <3>5. QED
      BY <2>4, <3>1, <3>4 DEF CalmTask
  <2>7. QED
    BY <1>3, <2>5, <2>6 DEF CalmTasks
<1>6. QED
  BY <1>4, <1>5

\* A round begins.
LEMMA CalmStartRound ==
    ASSUME IInv, CalmInv, Calm', StartRound
    PROVE  CalmStatus' /\ CalmTasks'
<1>1. CalmStatus /\ CalmTasks
  BY CalmStep DEF StartRound
<1>2. PICK new :
         /\ tasks' = tasks \cup {new} /\ UNCHANGED <<model, file, prs, status>> /\ model # None
         /\ new.type = "round" /\ new.step = "evaluate" /\ new.found = model
  <2> DEFINE round == [type |-> "round", event |-> 0, step |-> "evaluate", found |-> model]
  <2>1. round.type = "round" /\ round.step = "evaluate" /\ round.found = model
    OBVIOUS
  <2>2. tasks' = tasks \cup {round} /\ UNCHANGED <<model, file, prs, status>> /\ model # None
    BY DEF StartRound
  <2> HIDE DEF round
  <2>3. QED
    BY <2>1, <2>2
<1>3. \A u \in tasks : u.type # "round"
  <2>1. \A u \in tasks : u.type = "round" => u \in Rounds
    BY TaskOfType DEF IInv, TypeOK
  <2>2. QED
    BY <2>1 DEF StartRound, Rounds
<1>4. Quiet => Quiet'
  <2>1. ASSUME Quiet PROVE Quiet'
    <3> DEFINE more == {new}
    <3>1. \A u \in more : u.type = "round" /\ ~u.found.recheck
      BY <1>2, <2>1 DEF Quiet
    <3>2. tasks' \subseteq tasks \cup more
      BY <1>2
    <3> HIDE DEF more
    <3>3. QED
      BY <1>2, <2>1, <3>1, <3>2, StaysQuiet
  <2>2. QED
    BY <2>1
<1>5. CalmStatus'
  <2>1. (Checking => Checking') /\ \A snaps : Pending(snaps) => Pending(snaps)'
    BY <1>2 DEF Checking, Pending
  <2>2. QED
    BY <1>1, <1>2, <2>1 DEF CalmStatus, Complies, Compliant, OpenPRs
<1>6. ASSUME NEW u \in tasks PROVE CalmTask(u)'
  <2>1. CalmTask(u) /\ u.type # "round"
    BY <1>1, <1>3 DEF CalmTasks
  <2>2. u.type = "fetch" => CalmFetch(u)'
    BY <1>2, <1>4, <2>1 DEF CalmTask, CalmFetch
  <2>3. u.type = "check" => CalmCheck(u)'
    BY <1>2, <2>1 DEF CalmTask, CalmCheck, Complies, Compliant, OpenPRs
  <2>4. u.type = "status" => CalmUpdate(u)'
    BY <1>2, <1>4, <2>1 DEF CalmTask, CalmUpdate
  <2>5. u.type = "delete" => CalmDelete(u)'
    BY <1>2, <1>4, <2>1 DEF CalmTask, CalmDelete, Complies, Compliant, OpenPRs
  <2>6. QED
    BY <1>2, <2>1, <2>2, <2>3, <2>4, <2>5 DEF CalmTask
<1>7. CalmRound(new)'
  <2>1. \A u \in tasks' : u.type = "round" => u = new
    BY <1>2, <1>3
  <2>2. new.found.config = model'.config /\ new.step # "save"
    BY <1>2
  <2>3. QED
    BY <1>2, <2>1, <2>2 DEF CalmRound
<1>8. CalmTask(new)'
  BY <1>2, <1>7 DEF CalmTask
<1>9. QED
  BY <1>2, <1>5, <1>6, <1>8 DEF CalmTasks

\* A round checks the blueprint, or finds that it need not.
LEMMA CalmEvaluate ==
    ASSUME IInv, CalmInv, Calm', NEW t \in tasks, Evaluate(t)
    PROVE  CalmStatus' /\ CalmTasks'
<1>1. CalmStatus /\ CalmTasks
  BY CalmStep DEF Evaluate
<1> DEFINE new == [t EXCEPT !.step = "save"]
           checks == t.found.recheck \/ status = None \/ status.status \in Unchecked
           check == Check(0, t.found.config)
<1>2. t \in Rounds /\ t.type = "round" /\ t.step = "evaluate"
  BY TaskOfType DEF IInv, TypeOK, Evaluate
<1>3. /\ new.type = "round" /\ new.step = "save" /\ new.found = t.found
      /\ check.type = "check" /\ check.step = "pre" /\ check.config = t.found.config
  BY <1>2 DEF Rounds, Check
<1>4. /\ tasks' = (tasks \ {t}) \cup {new} \cup (IF checks THEN {check} ELSE {})
      /\ UNCHANGED <<model, file, prs, status>>
  BY DEF Evaluate
<1>5. CalmTask(t) /\ model # None /\ \A u \in tasks : u.type = "round" => u = t
  BY <1>1, <1>2 DEF CalmTasks, CalmTask, CalmRound
<1> HIDE DEF new, check, checks
<1>6. (Checking => Checking') /\ \A snaps : Pending(snaps) => Pending(snaps)'
  BY <1>2, <1>4 DEF Checking, Pending
<1>7. CalmStatus'
  BY <1>1, <1>4, <1>6 DEF CalmStatus, Complies, Compliant, OpenPRs
<1>8. CASE checks
  <2>1. t.found.config = model.config /\ ~Quiet
    BY <1>2, <1>5, <1>8 DEF CalmTask, CalmRound, Quiet, checks
  <2>2. Checking'
    BY <1>3, <1>4, <1>8 DEF Checking
  <2>3. ASSUME NEW u \in tasks, u # t PROVE CalmTask(u)'
    <3>1. CalmTask(u) /\ u.type # "fetch" /\ u.type # "round"
      BY <1>1, <1>5, <2>1, <2>3 DEF CalmTasks, CalmTask, CalmFetch
    <3>2. u.type = "check" => CalmCheck(u)'
      BY <1>4, <3>1 DEF CalmTask, CalmCheck, Complies, Compliant, OpenPRs
    <3>3. u.type = "status" => CalmUpdate(u)'
      BY <1>4, <2>1, <3>1 DEF CalmTask, CalmUpdate
    <3>4. u.type = "delete" => CalmDelete(u)'
      BY <1>4, <2>1, <3>1 DEF CalmTask, CalmDelete, Complies, Compliant, OpenPRs
    <3>5. QED
      BY <1>4, <3>1, <3>2, <3>3, <3>4 DEF CalmTask
  <2>4. CalmTask(new)'
    BY <1>3, <1>4, <1>5, <2>2 DEF CalmTask, CalmRound, checks
  <2>5. CalmTask(check)'
    BY <1>3, <1>4, <1>5, <2>1 DEF CalmTask, CalmCheck
  <2>6. QED
    BY <1>4, <1>7, <2>3, <2>4, <2>5 DEF CalmTasks
<1>9. CASE ~checks
  <2>1. tasks' = (tasks \ {t}) \cup {new} /\ ~t.found.recheck
    BY <1>4, <1>9 DEF checks
  <2>2. Quiet => Quiet'
    <3> DEFINE more == {new}
    <3>1. \A u \in more : u.type = "round" /\ ~u.found.recheck
      BY <1>3, <2>1
    <3>2. tasks' \subseteq tasks \cup more
      BY <2>1
    <3> HIDE DEF more
    <3>3. QED
      BY <1>4, <3>1, <3>2, StaysQuiet
  <2>3. ASSUME NEW u \in tasks, u # t PROVE CalmTask(u)'
    <3>1. CalmTask(u) /\ u.type # "round"
      BY <1>1, <1>5, <2>3 DEF CalmTasks
    <3>2. u.type = "fetch" => CalmFetch(u)'
      BY <1>3, <1>4, <2>1, <2>2, <3>1 DEF CalmTask, CalmFetch
    <3>3. u.type = "check" => CalmCheck(u)'
      BY <1>4, <3>1 DEF CalmTask, CalmCheck, Complies, Compliant, OpenPRs
    <3>4. u.type = "status" => CalmUpdate(u)'
      BY <1>4, <2>2, <3>1 DEF CalmTask, CalmUpdate
    <3>5. u.type = "delete" => CalmDelete(u)'
      BY <1>4, <2>2, <3>1 DEF CalmTask, CalmDelete, Complies, Compliant, OpenPRs
    <3>6. QED
      BY <1>4, <3>1, <3>2, <3>3, <3>4, <3>5 DEF CalmTask
  <2>4. CalmTask(new)'
    BY <1>3, <1>4, <1>5, <2>1 DEF CalmTask, CalmRound
  <2>5. QED
    BY <2>1, <1>7, <2>3, <2>4 DEF CalmTasks
<1>10. QED
  BY <1>8, <1>9

\* A round that has scheduled the check takes the request back.
LEMMA CalmSaveRound ==
    ASSUME IInv, CalmInv, Calm', NEW t \in tasks, SaveRound(t)
    PROVE  CalmStatus' /\ CalmTasks'
<1>1. CalmStatus /\ CalmTasks
  BY CalmStep DEF SaveRound
<1>2. /\ tasks' = tasks \ {t} /\ UNCHANGED <<file, prs, status>> /\ t.type = "round" /\ t.step = "save"
      /\ model' = IF t.found.recheck THEN [model EXCEPT !.recheck = FALSE] ELSE model
  BY DEF SaveRound, Ends
<1>3. CalmTask(t) /\ model # None /\ \A u \in tasks : u.type = "round" => u = t
  BY <1>1, <1>2 DEF CalmTasks, CalmTask, CalmRound
<1>4. model \in Models /\ [model EXCEPT !.recheck = FALSE] \in Models
  BY <1>3 DEF IInv, TypeOK, Models
<1>5. /\ model' \in Models /\ model'.config = model.config
      /\ Quiet => model' = model
  BY <1>2, <1>4 DEF Quiet, Models
<1>6. model' # None
  BY <1>5, NoneAssumption
<1>7. Quiet => Quiet'
  BY <1>2, <1>5 DEF Quiet, Unchecked
<1>8. (Checking => Checking') /\ \A snaps : Pending(snaps) => Pending(snaps)'
  BY <1>2 DEF Checking, Pending
<1>9. Complies' = Complies /\ OpenPRs' = OpenPRs
  BY <1>2, <1>5 DEF Complies, Compliant, OpenPRs
<1>10. CalmStatus'
  <2>1. CASE t.found.recheck
    <3>1. status # None /\ status.status = "success" /\ ~Complies => Checking
      BY <1>2, <1>3, <2>1 DEF CalmTask, CalmRound
    <3>2. QED
      BY <1>1, <1>2, <1>6, <1>8, <1>9, <3>1 DEF CalmStatus
  <2>2. CASE ~t.found.recheck
    <3>1. model' = model
      BY <1>2, <2>2
    <3>2. QED
      BY <1>1, <1>2, <1>8, <1>9, <3>1 DEF CalmStatus
  <2>3. QED
    BY <2>1, <2>2
<1>11. ASSUME NEW u \in tasks, u # t PROVE CalmTask(u)'
  <2>1. CalmTask(u) /\ u.type # "round"
    BY <1>1, <1>3, <1>11 DEF CalmTasks
  <2>2. u.type = "fetch" => CalmFetch(u)'
    BY <1>2, <1>3, <1>5, <1>7, <2>1 DEF CalmTask, CalmFetch
  <2>3. u.type = "check" => CalmCheck(u)'
    BY <1>5, <1>9, <2>1 DEF CalmTask, CalmCheck
  <2>4. u.type = "status" => CalmUpdate(u)'
    BY <1>2, <1>7, <2>1 DEF CalmTask, CalmUpdate
  <2>5. u.type = "delete" => CalmDelete(u)'
    BY <1>7, <1>9, <2>1 DEF CalmTask, CalmDelete
  <2>6. QED
    BY <1>2, <1>6, <2>1, <2>2, <2>3, <2>4, <2>5 DEF CalmTask
<1>12. QED
  BY <1>2, <1>10, <1>11 DEF CalmTasks

\* A push schedules a check.
LEMMA CalmCheckAfterPush ==
    ASSUME IInv, CalmInv, Calm', NEW t \in tasks, CheckAfterPush(t)
    PROVE  CalmStatus' /\ CalmTasks'
<1>1. CalmStatus /\ CalmTasks
  BY CalmStep DEF CheckAfterPush
<1>2. status # None /\ model # None
  BY <1>1 DEF CalmTasks, CalmTask, CheckAfterPush
<1>3. PICK new : /\ tasks' = (tasks \ {t}) \cup {new}
                 /\ new.type = "check" /\ new.step = "pre" /\ new.config = model.config
  <2>1. LET new == Check(t.event, model.config)
        IN  new.type = "check" /\ new.step = "pre" /\ new.config = model.config
    BY DEF Check
  <2>2. QED
    BY <1>2, <2>1 DEF CheckAfterPush, Becomes
<1>4. t.type = "push" /\ UNCHANGED <<model, file, prs, status>>
  BY DEF CheckAfterPush
<1>5. CalmCheck(new)'
  BY <1>3, <1>4 DEF CalmCheck
<1>6. QED
  BY <1>1, <1>3, <1>4, <1>5, CheckMoves

\* A check goes on: past the look at the file only if the file does not comply.
LEMMA CalmGoes ==
    ASSUME CalmStatus, CalmTasks, NEW t \in tasks, t \in Checks,
           NEW new \in Checks, new.config = t.config, new.step # "save",
           new.step \in {"pre", "look"} \/ ~Complies,
           Becomes(t, new), UNCHANGED <<model, file, prs, status>>
    PROVE  CalmStatus' /\ CalmTasks'
<1>1. t.type = "check" /\ new.type = "check"
  BY DEF Checks
<1>2. t.config = model.config
  BY <1>1 DEF CalmTasks, CalmTask, CalmCheck
<1>3. CalmCheck(new)'
  BY <1>2 DEF CalmCheck, Complies, Compliant
<1>4. QED
  BY <1>1, <1>3, CheckMoves DEF Becomes

\* A check has an outcome that is true.
LEMMA CalmSaves ==
    ASSUME CalmStatus, CalmTasks, NEW t \in tasks, t \in Checks,
           NEW outcome \in {"success", "failure", "remediation_prepared"}, NEW pr,
           outcome = "success" => Complies,
           outcome = "remediation_prepared" => pr \in OpenPRs,
           Saves(t, outcome, pr), UNCHANGED <<model, file, prs, status>>
    PROVE  CalmStatus' /\ CalmTasks'
<1> DEFINE new == Saving(t, outcome, pr)
<1>1. /\ t.type = "check" /\ new.type = "check" /\ new.config = t.config /\ new.step = "save"
      /\ new.outcome = outcome /\ new.pr = pr
  BY DEF Checks, Saving
<1>2. tasks' = (tasks \ {t}) \cup {new}
  BY DEF Saves, Becomes, Saving
<1> HIDE DEF new
<1>3. t.config = model.config
  BY <1>1 DEF CalmTasks, CalmTask, CalmCheck
<1>4. CalmCheck(new)'
  BY <1>1, <1>3 DEF CalmCheck, Complies, Compliant, OpenPRs
<1>5. QED
  BY <1>1, <1>2, <1>4, CheckMoves

LEMMA CalmFails ==
    ASSUME CalmStatus, CalmTasks, NEW t \in tasks, t \in Checks,
           Fails(t), UNCHANGED <<model, file, prs, status>>
    PROVE  CalmStatus' /\ CalmTasks'
BY CalmSaves DEF Fails

\* A check between the look at the file and the save knows that it does not comply.
LEMMA CalmNotCompliant ==
    ASSUME CalmTasks, NEW t \in tasks, t.type = "check",
           t.step \in {"ref", "create", "content", "find", "open"}
    PROVE  ~Complies
BY DEF CalmTasks, CalmTask, CalmCheck

\* A dismissed blueprint is not checked.
LEMMA CalmSkipDismissed ==
    ASSUME IInv, CalmInv, Calm', NEW t \in tasks, SkipDismissed(t)
    PROVE  CalmStatus' /\ CalmTasks'
<1>1. CalmStatus /\ CalmTasks /\ t \in Checks
  BY CalmStep, PastFirst DEF SkipDismissed
<1>2. UNCHANGED <<model, file, prs, status>> /\ t.type = "check"
  BY DEF SkipDismissed
<1>3. CASE Dismissed
  <2>1. tasks' = tasks \ {t} /\ status # None /\ status.status = "dismissed"
    BY <1>3 DEF SkipDismissed, Ends, Dismissed
  <2>2. \A snaps : Pending(snaps) => Pending(snaps)'
    BY <1>2, <2>1 DEF Pending
  <2>3. CalmStatus'
    BY <1>1, <1>2, <2>1, <2>2 DEF CalmStatus
  <2>4. QED
    BY <1>1, <1>2, <2>1, <2>3, CheckEnds
<1>4. CASE ~Dismissed
  <2> DEFINE new == [t EXCEPT !.step = "look"]
  <2>1. new \in Checks /\ new.config = t.config /\ new.step = "look" /\ Becomes(t, new)
    BY <1>1, <1>4 DEF Checks, CheckSteps, SkipDismissed
  <2> HIDE DEF new
  <2>2. QED
    BY <1>1, <1>2, <2>1, CalmGoes
<1>5. QED
  BY <1>3, <1>4

\* The file complies, or it does not: no call fails.
LEMMA CalmLookAtFile ==
    ASSUME IInv, CalmInv, Calm', NEW t \in tasks, LookAtFile(t)
    PROVE  CalmStatus' /\ CalmTasks'
<1>1. UNCHANGED <<model, file, prs, status>> /\ t.type = "check" /\ Remember
  BY DEF LookAtFile
<1>2. UNCHANGED count /\ ~Counts(0, 1)
  <2>1. ASSUME Counts(0, 1) PROVE FALSE
    <3>1. count'.faults = count.faults + 1 /\ count.faults \in Nat
      BY <2>1, CountsType DEF IInv, TypeOK, CountType
    <3>2. QED
      BY <3>1 DEF Calm
  <2>2. QED
    BY <2>1 DEF LookAtFile
<1>3. CalmStatus /\ CalmTasks /\ t \in Checks
  BY <1>1, <1>2, CalmStep, PastFirst
<1>4. t.config = model.config
  BY <1>1, <1>3 DEF CalmTasks, CalmTask, CalmCheck
<1>5. CASE Complies /\ Saves(t, "success", 0)
  BY <1>1, <1>3, <1>5, CalmSaves
<1>6. CASE ~Complies /\ Becomes(t, [t EXCEPT !.step = "ref"])
  <2> DEFINE new == [t EXCEPT !.step = "ref"]
  <2>1. new \in Checks /\ new.config = t.config /\ new.step = "ref"
    BY <1>3 DEF Checks, CheckSteps
  <2>2. Becomes(t, new)
    BY <1>6
  <2> HIDE DEF new
  <2>3. QED
    BY <1>1, <1>3, <1>6, <2>1, <2>2, CalmGoes
<1>7. QED
  BY <1>2, <1>4, <1>5, <1>6 DEF LookAtFile, Complies

LEMMA CalmLookForBranch ==
    ASSUME IInv, CalmInv, Calm', NEW t \in tasks, LookForBranch(t)
    PROVE  CalmStatus' /\ CalmTasks'
<1>1. CalmStatus /\ CalmTasks /\ t \in Checks
  BY CalmStep, PastFirst DEF LookForBranch
<1>2. UNCHANGED <<model, file, prs, status>> /\ ~Complies
  BY <1>1, CalmNotCompliant DEF LookForBranch
<1> DEFINE new == [t EXCEPT !.step = IF branch = None THEN "create" ELSE "content"]
<1>3. new \in Checks /\ new.config = t.config /\ new.step # "save" /\ Becomes(t, new)
  BY <1>1 DEF Checks, CheckSteps, LookForBranch
<1> HIDE DEF new
<1>4. QED
  BY <1>1, <1>2, <1>3, CalmGoes

LEMMA CalmCreateBranch ==
    ASSUME IInv, CalmInv, Calm', NEW t \in tasks, CreateBranch(t)
    PROVE  CalmStatus' /\ CalmTasks'
<1>1. CalmStatus /\ CalmTasks /\ t \in Checks
  BY CalmStep, PastFirst DEF CreateBranch
<1>2. UNCHANGED <<model, file, prs, status>> /\ ~Complies
  BY <1>1, CalmNotCompliant DEF CreateBranch
<1>3. CASE Becomes(t, [t EXCEPT !.step = "content", !.created = TRUE])
  <2> DEFINE new == [t EXCEPT !.step = "content", !.created = TRUE]
  <2>1. new \in Checks /\ new.config = t.config /\ new.step # "save" /\ Becomes(t, new)
    BY <1>1, <1>3 DEF Checks, CheckSteps
  <2> HIDE DEF new
  <2>2. QED
    BY <1>1, <1>2, <2>1, CalmGoes
<1>4. CASE Fails(t)
  BY <1>1, <1>2, <1>4, CalmFails
<1>5. QED
  BY <1>3, <1>4 DEF CreateBranch

LEMMA CalmUpdateContent ==
    ASSUME IInv, CalmInv, Calm', NEW t \in tasks, UpdateContent(t)
    PROVE  CalmStatus' /\ CalmTasks'
<1>1. CalmStatus /\ CalmTasks /\ t \in Checks
  BY CalmStep, PastFirst DEF UpdateContent
<1>2. UNCHANGED <<model, file, prs, status>> /\ ~Complies
  BY <1>1, CalmNotCompliant DEF UpdateContent
<1>3. CASE Becomes(t, [t EXCEPT !.step = "find"])
  <2> DEFINE new == [t EXCEPT !.step = "find"]
  <2>1. new \in Checks /\ new.config = t.config /\ new.step # "save" /\ Becomes(t, new)
    BY <1>1, <1>3 DEF Checks, CheckSteps
  <2> HIDE DEF new
  <2>2. QED
    BY <1>1, <1>2, <2>1, CalmGoes
<1>4. CASE Fails(t)
  BY <1>1, <1>2, <1>4, CalmFails
<1>5. QED
  BY <1>3, <1>4 DEF UpdateContent

LEMMA CalmFindPullRequest ==
    ASSUME IInv, CalmInv, Calm', NEW t \in tasks, FindPullRequest(t)
    PROVE  CalmStatus' /\ CalmTasks'
<1>1. CalmStatus /\ CalmTasks /\ t \in Checks
  BY CalmStep, PastFirst DEF FindPullRequest
<1>2. UNCHANGED <<model, file, prs, status>> /\ ~Complies
  BY <1>1, CalmNotCompliant DEF FindPullRequest
<1>3. ASSUME NEW n \in OpenPRs, Saves(t, "remediation_prepared", n)
      PROVE  CalmStatus' /\ CalmTasks'
  BY <1>1, <1>2, <1>3, CalmSaves
<1>4. CASE Becomes(t, [t EXCEPT !.step = "open"])
  <2> DEFINE new == [t EXCEPT !.step = "open"]
  <2>1. new \in Checks /\ new.config = t.config /\ new.step # "save" /\ Becomes(t, new)
    BY <1>1, <1>4 DEF Checks, CheckSteps
  <2> HIDE DEF new
  <2>2. QED
    BY <1>1, <1>2, <2>1, CalmGoes
<1>5. QED
  BY <1>3, <1>4 DEF FindPullRequest

\* Opening a pull request: none is open, and none is about to be reported.
LEMMA CalmOpenPullRequest ==
    ASSUME IInv, CalmInv, Calm', NEW t \in tasks, OpenPullRequest(t)
    PROVE  CalmStatus' /\ CalmTasks'
<1>1. CalmStatus /\ CalmTasks /\ t \in Checks
  BY CalmStep, PastFirst DEF OpenPullRequest
<1>2. UNCHANGED <<model, file, status>> /\ ~Complies /\ t.type = "check"
  BY <1>1, CalmNotCompliant DEF OpenPullRequest
<1>3. CASE Fails(t) /\ UNCHANGED prs
  BY <1>1, <1>2, <1>3, CalmFails
<1>4. CASE ~(Fails(t) /\ UNCHANGED prs)
  <2>1. PICK n, new :
          /\ n = Len(prs) + 1 /\ new = Saving(t, "remediation_prepared", n)
          /\ OpenPRs = {}
          /\ prs' = Append(prs, [state |-> "open", head |-> "missing"])
          /\ tasks' = (tasks \ {t}) \cup {new}
    BY <1>4 DEF OpenPullRequest, Saves, Becomes, Saving
  <2>2. /\ new.type = "check" /\ new.config = t.config /\ new.step = "save"
        /\ new.outcome = "remediation_prepared" /\ new.pr = n
    BY <1>1, <2>1 DEF Checks, Saving
  <2>3. prs \in Seq(PullRequests) /\ Len(prs) \in Nat
    BY DEF IInv, TypeOK
  <2>4. /\ Len(prs') = n /\ prs'[n].state = "open" /\ n \in 1 .. n
        /\ \A m \in 1 .. Len(prs) : m \in 1 .. Len(prs') /\ prs'[m] = prs[m]
    BY <2>1, <2>3
  <2>5. n \in OpenPRs'
    BY <2>4 DEF OpenPRs
  <2>6. ~Quiet /\ Checking' /\ model # None
    BY <1>1, <1>2, <2>1, <2>2 DEF Quiet, Checking, CalmTasks, CalmTask
  <2>7. CalmStatus'
    <3>1. \A snaps : Pending(snaps) => Pending(snaps)'
      BY <1>2, <2>1 DEF Pending
    <3>2. QED
      BY <1>1, <1>2, <2>1, <2>4, <2>6, <3>1 DEF CalmStatus
  <2>8. ASSUME NEW u \in tasks, u # t PROVE CalmTask(u)'
    <3>1. CalmTask(u) /\ u.type # "fetch"
      BY <1>1, <1>2, <2>8 DEF CalmTasks, CalmTask, CalmFetch
    <3>2. u.type = "round" => CalmRound(u)'
      BY <1>2, <2>1, <2>2, <2>6, <2>8, <3>1 DEF CalmTask, CalmRound
    <3>3. u.type = "check" => CalmCheck(u)'
      BY <1>2, <2>1, <3>1 DEF CalmTask, CalmCheck, Complies, Compliant
    <3>4. u.type = "status" => CalmUpdate(u)'
      BY <2>4, <2>6, <3>1 DEF CalmTask, CalmUpdate
    <3>5. u.type # "delete"
      BY <1>2, <2>6, <3>1 DEF CalmTask, CalmDelete
    <3>6. QED
      BY <1>2, <3>1, <3>2, <3>3, <3>4, <3>5 DEF CalmTask
  <2>9. CalmTask(new)'
    <3>1. t.config = model.config
      BY <1>1, <1>2 DEF CalmTasks, CalmTask, CalmCheck
    <3>2. new.pr \in OpenPRs'
      BY <2>2, <2>5
    <3>3. CalmCheck(new)'
      BY <1>2, <2>2, <2>5, <3>1, <3>2 DEF CalmCheck
    <3>4. QED
      BY <1>2, <2>2, <2>6, <3>3 DEF CalmTask
  <2>10. QED
    BY <2>1, <2>7, <2>8, <2>9 DEF CalmTasks
<1>5. QED
  BY <1>3, <1>4

\* The outcome is stored.
LEMMA CalmSaveStatus ==
    ASSUME IInv, CalmInv, Calm', NEW t \in tasks, SaveStatus(t)
    PROVE  CalmStatus' /\ CalmTasks'
<1>1. CalmStatus /\ CalmTasks /\ t \in Checks
  BY CalmStep, PastFirst DEF SaveStatus
<1>2. /\ t.type = "check" /\ t.step = "save" /\ tasks' = tasks \ {t} /\ UNCHANGED <<model, file, prs>>
      /\ status' = [status |-> t.outcome, pr |-> t.pr]
  BY DEF SaveStatus, Ends
<1>3. status' \in Statuses
  BY <1>1, <1>2 DEF Statuses, Checks
<1>4. status' # None
  BY <1>3, NoneAssumption
<1>5. CalmCheck(t) /\ model # None
  BY <1>1, <1>2 DEF CalmTasks, CalmTask
<1>6. CalmStatus'
  BY <1>2, <1>4, <1>5 DEF CalmStatus, CalmCheck, Complies, Compliant, OpenPRs
<1>7. status'.status = "success" => Complies
  BY <1>2, <1>5 DEF CalmCheck
<1>8. QED
  BY <1>1, <1>2, <1>4, <1>6, <1>7, CheckEnds

\* An update finds the status that it is about.
LEMMA CalmFindStatus ==
    ASSUME IInv, CalmInv, Calm', NEW t \in tasks, FindStatus(t)
    PROVE  CalmStatus' /\ CalmTasks'
<1>1. CalmStatus /\ CalmTasks
  BY CalmStep DEF FindStatus
<1>2. UNCHANGED <<model, file, prs, status>> /\ t.type = "status" /\ t \in Updates
  BY TaskOfType DEF FindStatus, IInv, TypeOK
<1>3. CASE ~(status # None /\ status.pr = t.pr)
  BY <1>1, <1>2, <1>3, OtherEnds DEF FindStatus, Ends
<1>4. CASE status # None /\ status.pr = t.pr
  <2> DEFINE new == [t EXCEPT !.step = "save"]
  <2>1. new.type = "status" /\ new.pr = t.pr /\ new.snap = t.snap
    BY <1>2 DEF Updates
  <2>2. tasks' = (tasks \ {t}) \cup {new}
    BY <1>4 DEF FindStatus, Becomes
  <2> HIDE DEF new
  <2>3. CalmTask(t) /\ model # None
    BY <1>1, <1>2 DEF CalmTasks, CalmTask
  <2>4. Quiet => Quiet'
    BY <1>2, <2>1, <2>2 DEF Quiet, Unchecked
  <2>5. (Checking => Checking') /\ \A snaps : Pending(snaps) => Pending(snaps)'
    BY <1>2, <2>1, <2>2 DEF Checking, Pending
  <2>6. CalmStatus'
    BY <1>1, <1>2, <2>5 DEF CalmStatus, Complies, Compliant, OpenPRs
  <2>7. ASSUME NEW u \in tasks, u # t PROVE CalmTask(u)'
    <3>1. CalmTask(u) /\ u.type # "fetch"
      BY <1>1, <1>2, <2>7 DEF CalmTasks, CalmTask, CalmFetch
    <3>2. u.type = "round" => CalmRound(u)'
      BY <1>2, <2>1, <2>2, <2>5, <2>7, <3>1 DEF CalmTask, CalmRound, Complies, Compliant
    <3>3. u.type = "check" => CalmCheck(u)'
      BY <1>2, <3>1 DEF CalmTask, CalmCheck, Complies, Compliant, OpenPRs
    <3>4. u.type = "status" => CalmUpdate(u)'
      BY <1>2, <2>4, <3>1 DEF CalmTask, CalmUpdate
    <3>5. u.type = "delete" => CalmDelete(u)'
      BY <1>2, <2>4, <3>1 DEF CalmTask, CalmDelete, Complies, Compliant, OpenPRs
    <3>6. QED
      BY <1>2, <3>1, <3>2, <3>3, <3>4, <3>5 DEF CalmTask
  <2>8. CalmTask(new)'
    BY <1>2, <1>4, <2>1, <2>3, <2>4 DEF CalmTask, CalmUpdate
  <2>9. QED
    BY <2>2, <2>6, <2>7, <2>8 DEF CalmTasks
<1>5. QED
  BY <1>3, <1>4

\* An update stores what became of the pull request.
LEMMA CalmUpdateStatus ==
    ASSUME IInv, CalmInv, Calm', NEW t \in tasks, UpdateStatus(t)
    PROVE  CalmStatus' /\ CalmTasks'
<1>1. CalmStatus /\ CalmTasks
  BY CalmStep DEF UpdateStatus
<1>2. /\ UNCHANGED <<model, file, prs>> /\ t.type = "status" /\ t.step = "save" /\ t \in Updates
      /\ tasks' = tasks \ {t} /\ status' = Reported(t.snap)
  BY TaskOfType DEF UpdateStatus, Ends, IInv, TypeOK
<1>3. status \in Statuses
  BY <1>2 DEF IInv, TypeOK, DocInv, Found
<1>4. CalmUpdate(t) /\ model # None
  BY <1>1, <1>2 DEF CalmTasks, CalmTask
<1>5. /\ status'.status = CASE t.snap = "open" -> "remediation_prepared"
                            [] t.snap = "merged" -> "recheck"
                            [] t.snap = "closed" -> "dismissed"
      /\ t.snap # "merged" => status'.pr = status.pr
      /\ status' \in Statuses
  <2>1. t.snap \in {"open", "closed", "merged"} /\ 0 \in 0 .. MaxPRs
    BY <1>2, BoundsAssumption DEF Updates, PRState
  <2>2. /\ [status EXCEPT !.status = "remediation_prepared"] \in Statuses
        /\ [status EXCEPT !.status = "recheck", !.pr = 0] \in Statuses
        /\ [status EXCEPT !.status = "dismissed"] \in Statuses
        /\ [status EXCEPT !.status = "remediation_prepared"].status = "remediation_prepared"
        /\ [status EXCEPT !.status = "recheck", !.pr = 0].status = "recheck"
        /\ [status EXCEPT !.status = "dismissed"].status = "dismissed"
        /\ [status EXCEPT !.status = "remediation_prepared"].pr = status.pr
        /\ [status EXCEPT !.status = "dismissed"].pr = status.pr
    BY <1>3, <2>1 DEF Statuses, BlueprintStatus
  <2>3. QED
    BY <1>2, <2>1, <2>2 DEF Reported
<1>6. status' # None
  BY <1>5, NoneAssumption
<1>7. t.snap \in {"open", "closed", "merged"}
  BY <1>2 DEF Updates, PRState
<1>8. CalmStatus'
  <2>1. CASE t.snap = "open"
    <3>1. status'.status = "remediation_prepared" /\ status'.pr \in OpenPRs'
      BY <1>2, <1>4, <1>5, <2>1 DEF CalmUpdate, OpenPRs
    <3>2. QED
      BY <1>2, <1>4, <1>6, <3>1 DEF CalmStatus
  <2>2. CASE t.snap = "closed"
    <3>1. /\ status'.status = "dismissed" /\ status'.pr \in 1 .. Len(prs')
          /\ prs'[status'.pr].state = "closed"
      BY <1>2, <1>4, <1>5, <2>2 DEF CalmUpdate
    <3>2. QED
      BY <1>2, <1>4, <1>6, <3>1 DEF CalmStatus
  <2>3. CASE t.snap = "merged"
    BY <1>2, <1>4, <1>5, <1>6, <2>3 DEF CalmStatus
  <2>4. QED
    BY <1>7, <2>1, <2>2, <2>3
<1>9. Quiet => Quiet' /\ status'.pr = status.pr
  <2>1. Quiet => t.snap # "merged"
    BY <1>2 DEF Quiet
  <2>2. t.snap # "merged" => status'.status \notin Unchecked
    BY <1>5, <1>7 DEF Unchecked
  <2>3. QED
    BY <1>2, <1>5, <1>6, <2>1, <2>2 DEF Quiet, Unchecked
<1>10. ASSUME NEW u \in tasks, u # t PROVE CalmTask(u)'
  <2>1. CalmTask(u) /\ u.type # "fetch"
    BY <1>1, <1>2, <1>10 DEF CalmTasks, CalmTask, CalmFetch
  <2>2. u.type = "round" => CalmRound(u)'
    <3>1. status'.status # "success"
      BY <1>5, <1>7
    <3>2. QED
      BY <1>2, <1>10, <2>1, <3>1 DEF CalmTask, CalmRound
  <2>3. u.type = "check" => CalmCheck(u)'
    BY <1>2, <2>1 DEF CalmTask, CalmCheck, Complies, Compliant, OpenPRs
  <2>4. u.type = "status" => CalmUpdate(u)'
    BY <1>2, <1>9, <2>1 DEF CalmTask, CalmUpdate
  <2>5. u.type = "delete" => CalmDelete(u)'
    BY <1>2, <1>9, <2>1 DEF CalmTask, CalmDelete, Complies, Compliant, OpenPRs
  <2>6. QED
    BY <1>2, <1>6, <2>1, <2>2, <2>3, <2>4, <2>5 DEF CalmTask
<1>11. QED
  BY <1>2, <1>8, <1>10 DEF CalmTasks

\* The branch of a pull request that is no longer open is deleted.
LEMMA CalmDeleteBranch ==
    ASSUME IInv, CalmInv, Calm', NEW t \in tasks, DeleteBranch(t)
    PROVE  CalmStatus' /\ CalmTasks'
<1>1. count'.faults \in Nat /\ count'.faults >= count.faults
  <2>1. count \in CountType /\ count.faults \in Nat
    BY DEF IInv, TypeOK, CountType
  <2>2. ASSUME NEW n, Deliver(tasks \ {t}, {OnClosed(t.event, n, "closed")}, 0)
        PROVE  count'.faults \in Nat /\ count'.faults >= count.faults
    BY <2>1, <2>2, DeliveredFaults, PairIsFinite
  <2>3. UNCHANGED count \/ \E n : Deliver(tasks \ {t}, {OnClosed(t.event, n, "closed")}, 0)
    BY DEF DeleteBranch
  <2>4. CASE UNCHANGED count
    BY <2>1, <2>4
  <2>5. QED
    BY <2>2, <2>3, <2>4
<1>2. Calm
  BY <1>1, CalmBefore DEF DeleteBranch, IInv
<1>3. CalmStatus /\ CalmTasks
  BY <1>2 DEF CalmInv
<1>4. t.type = "delete" /\ OpenPRs = {}
  BY <1>3 DEF DeleteBranch, CalmTasks, CalmTask, CalmDelete
<1>5. tasks' = tasks \ {t} /\ UNCHANGED <<model, file, prs, status>>
  BY <1>4 DEF DeleteBranch, Ends
<1>6. QED
  BY <1>3, <1>4, <1>5, OtherEnds

-----------------------------------------------------------------------------
(* The steps of users.                                                     *)

\* A calm user finds the app settled, and the status true.
LEMMA CalmUser ==
    ASSUME IInv, CalmInv, Calm', Remember, NEW webhooks, IsFiniteSet(webhooks), ByUser(webhooks)
    PROVE  /\ tasks = {} /\ tasks' = UNION webhooks
           /\ Quiet
           /\ status.status = "success" => Complies
           /\ status.status = "remediation_prepared" => status.pr \in OpenPRs
           /\ status.status = "dismissed" => status.pr \in 1 .. Len(prs) /\ prs[status.pr].state = "closed"
           /\ Merging => Compliant(model.config, file')
<1>1. count \in CountType /\ Deliver(tasks, webhooks, 1)
  BY DEF IInv, TypeOK, CountType, ByUser
<1>2. count'.faults \in Nat /\ count'.faults >= count.faults
  BY <1>1, DeliveredFaults
<1>3. Calm /\ (Merging => Compliant(model.config, file'))
  BY <1>2, CalmBefore DEF IInv
<1>4. count'.faults = 0 /\ count.faults = 0
  BY <1>3 DEF Calm
<1>5. tasks' = tasks \cup UNION webhooks /\ count'.events # count.events
  BY <1>1, <1>4, DeliveredAll
<1>6. Settled
  BY <1>2, <1>5, CalmBefore DEF IInv
<1>7. tasks = {} /\ Quiet
  BY <1>6 DEF Settled, Quiet, Unchecked
<1>8. CalmStatus
  BY <1>3 DEF CalmInv
<1>9. ~Checking /\ \A snaps : ~Pending(snaps)
  BY <1>7 DEF Checking, Pending
<1>10. QED
  BY <1>3, <1>5, <1>7, <1>8, <1>9 DEF CalmStatus, Quiet

\* A user edits the file, which pushes, or the branch of the pull request.
LEMMA UserEdits ==
    ASSUME Quiet, UNCHANGED <<model, prs, status>>, NEW e,
           \/ tasks' = {} /\ UNCHANGED file
           \/ tasks' = OnPush(e),
           status.status = "success" => Complies,
           status.status = "remediation_prepared" => status.pr \in OpenPRs,
           status.status = "dismissed" => status.pr \in 1 .. Len(prs) /\ prs[status.pr].state = "closed"
    PROVE  CalmStatus' /\ CalmTasks'
<1>1. model # None /\ status # None /\ ~model.recheck
  BY DEF Quiet
<1>2. \A u \in tasks' : u.type = "push"
  BY DEF OnPush
<1>3. CalmTasks'
  BY <1>1, <1>2 DEF CalmTasks, CalmTask
<1>4. tasks' = OnPush(e) => Checking'
  BY DEF OnPush, Checking
<1>5. CalmStatus'
  BY <1>1, <1>4 DEF CalmStatus, Complies, Compliant, OpenPRs
<1>6. QED
  BY <1>3, <1>5

LEMMA CalmEditFile ==
    ASSUME IInv, CalmInv, Calm', EditFile
    PROVE  CalmStatus' /\ CalmTasks'
<1>1. Remember /\ ByUser({OnPush(NextEvent)}) /\ UNCHANGED <<model, prs, status>>
  BY DEF EditFile
<1>2. UNION {OnPush(NextEvent)} = OnPush(NextEvent) /\ IsFiniteSet({OnPush(NextEvent)})
  BY PairIsFinite
<1>3. QED
  BY <1>1, <1>2, CalmUser, UserEdits

LEMMA CalmEditBranch ==
    ASSUME IInv, CalmInv, Calm', EditBranch
    PROVE  CalmStatus' /\ CalmTasks'
<1>1. Remember /\ ByUser({}) /\ UNCHANGED <<model, file, prs, status>>
  BY DEF EditBranch
<1>2. UNION {} = {} /\ IsFiniteSet({})
  BY PairIsFinite
<1>3. QED
  BY <1>1, <1>2, CalmUser, UserEdits

\* A new definition is fetched while everything is quiet.
LEMMA CalmRedefine ==
    ASSUME IInv, CalmInv, Calm', Redefine
    PROVE  CalmStatus' /\ CalmTasks'
<1>1. Remember /\ ByUser({{Fetch(NextEvent)}}) /\ UNCHANGED <<model, file, prs, status>>
  BY DEF Redefine
<1>2. UNION {{Fetch(NextEvent)}} = {Fetch(NextEvent)} /\ IsFiniteSet({{Fetch(NextEvent)}})
  BY PairIsFinite
<1>3. PICK fetch : /\ tasks' = {fetch}
                   /\ fetch.type = "fetch" /\ fetch.step = "read"
  <2>1. Fetch(NextEvent).type = "fetch" /\ Fetch(NextEvent).step = "read"
    BY DEF Fetch
  <2>2. QED
    BY <1>1, <1>2, <2>1, CalmUser
<1>4. /\ Quiet /\ tasks = {}
      /\ status.status = "success" => Complies
      /\ status.status = "remediation_prepared" => status.pr \in OpenPRs
      /\ status.status = "dismissed" => status.pr \in 1 .. Len(prs) /\ prs[status.pr].state = "closed"
  BY <1>1, <1>2, CalmUser
<1>5. Quiet'
  BY <1>1, <1>3, <1>4 DEF Quiet, Unchecked
<1>6. CalmTasks'
  BY <1>3, <1>5 DEF CalmTasks, CalmTask, CalmFetch
<1>7. CalmStatus'
  BY <1>1, <1>4 DEF CalmStatus, Quiet, Complies, Compliant, OpenPRs
<1>8. QED
  BY <1>6, <1>7

\* The tasks of the webhooks.
LEMMA ClosedTasks ==
    ASSUME NEW e, NEW n, NEW state
    PROVE  \E delete, update :
              /\ OnClosed(e, n, state) = {delete, update}
              /\ delete.type = "delete"
              /\ update.type = "status" /\ update.step = "find"
              /\ update.pr = n /\ update.snap = state
<1> DEFINE delete == [type |-> "delete", event |-> e, pr |-> n]
           update == [type |-> "status", event |-> e, step |-> "find", pr |-> n, snap |-> state]
<1>1. /\ delete.type = "delete"
      /\ update.type = "status" /\ update.step = "find" /\ update.pr = n /\ update.snap = state
  OBVIOUS
<1>2. OnClosed(e, n, state) = {delete, update}
  BY DEF OnClosed
<1> HIDE DEF delete, update
<1>3. QED
  BY <1>1, <1>2

LEMMA ReopenedTasks ==
    ASSUME NEW e, NEW n
    PROVE  \E update : /\ OnReopened(e, n) = {update}
                       /\ update.type = "status" /\ update.step = "find"
                       /\ update.pr = n /\ update.snap = "open"
<1> DEFINE update == [type |-> "status", event |-> e, step |-> "find", pr |-> n, snap |-> "open"]
<1>1. /\ update.type = "status" /\ update.step = "find" /\ update.pr = n /\ update.snap = "open"
      /\ OnReopened(e, n) = {update}
  BY DEF OnReopened
<1> HIDE DEF update
<1>2. QED
  BY <1>1

LEMMA PushTasks ==
    ASSUME NEW e
    PROVE  \E push : OnPush(e) = {push} /\ push.type = "push"
<1> DEFINE push == [type |-> "push", event |-> e]
<1>1. push.type = "push" /\ OnPush(e) = {push}
  BY DEF OnPush
<1> HIDE DEF push
<1>2. QED
  BY <1>1

\* A pull request is closed, merged or reopened.
LEMMA CalmClose ==
    ASSUME IInv, CalmInv, Calm', Close
    PROVE  CalmStatus' /\ CalmTasks'
<1>1. PICK n \in OpenPRs : prs' = ClosedBy(n) /\ ByUser({OnClosed(NextEvent, n, "closed")})
  BY DEF Close
<1>2. Remember /\ UNCHANGED <<model, file, status>>
  BY DEF Close
<1>3. /\ UNION {OnClosed(NextEvent, n, "closed")} = OnClosed(NextEvent, n, "closed")
      /\ IsFiniteSet({OnClosed(NextEvent, n, "closed")})
  BY PairIsFinite
<1>4. /\ Quiet /\ tasks' = OnClosed(NextEvent, n, "closed")
      /\ status.status = "success" => Complies
      /\ status.status = "remediation_prepared" => status.pr \in OpenPRs
      /\ status.status = "dismissed" => status.pr \in 1 .. Len(prs) /\ prs[status.pr].state = "closed"
  BY <1>1, <1>2, <1>3, CalmUser
<1>5. PICK delete, update :
        /\ tasks' = {delete, update}
        /\ delete.type = "delete"
        /\ update.type = "status" /\ update.step = "find" /\ update.pr = n /\ update.snap = "closed"
  <2>1. PICK delete, update : /\ OnClosed(NextEvent, n, "closed") = {delete, update}
                              /\ delete.type = "delete"
                              /\ update.type = "status" /\ update.step = "find"
                              /\ update.pr = n /\ update.snap = "closed"
    BY ClosedTasks
  <2>2. QED
    BY <1>4, <2>1
<1>6. /\ Len(prs') = Len(prs) /\ n \in 1 .. Len(prs')
      /\ prs'[n].state = "closed" /\ OpenPRs' = {}
      /\ \A m \in 1 .. Len(prs) : m # n => prs'[m] = prs[m]
  <2> DEFINE pr == [state |-> "closed", head |-> branch.file]
  <2>1. pr \in PullRequests /\ pr.state # "open" /\ prs' = [prs EXCEPT ![n] = pr]
    BY <1>1, ThereIsABranch DEF PullRequests, PRState, ClosedBy
  <2>2. prs \in Seq(PullRequests) /\ n \in 1 .. Len(prs)
    BY DEF IInv, TypeOK, OpenPRs
  <2>3. OpenPRs' = {}
    BY <2>1, ClosedPRs
  <2>4. pr.state = "closed"
    OBVIOUS
  <2> HIDE DEF pr
  <2>5. QED
    BY <2>1, <2>2, <2>3, <2>4
<1>7. Quiet'
  BY <1>2, <1>4, <1>5 DEF Quiet, Unchecked
<1>8. CalmTask(delete)'
  BY <1>5, <1>6, <1>7 DEF CalmTask, CalmDelete, Quiet
<1>9. CalmTask(update)'
  BY <1>5, <1>6, <1>7 DEF CalmTask, CalmUpdate, Quiet
<1>10. CalmStatus'
  <2>1. status.pr = n => Pending({"closed", "merged"})'
    BY <1>2, <1>5 DEF Pending
  <2>2. status.status = "remediation_prepared" => status.pr = n
    BY <1>4 DEF IInv, BranchInv
  <2>3. status.status = "dismissed" =>
           status.pr \in 1 .. Len(prs') /\ prs'[status.pr].state = "closed"
    BY <1>4, <1>6
  <2>4. Complies' = Complies
    BY <1>2 DEF Complies, Compliant
  <2>5. QED
    BY <1>2, <1>4, <1>7, <2>1, <2>2, <2>3, <2>4 DEF CalmStatus, Quiet
<1>11. QED
  BY <1>5, <1>8, <1>9, <1>10 DEF CalmTasks

LEMMA CalmMerge ==
    ASSUME IInv, CalmInv, Calm', Merge
    PROVE  CalmStatus' /\ CalmTasks'
<1>1. PICK n \in OpenPRs :
        /\ prs' = [prs EXCEPT ![n].state = "merged"]
        /\ ByUser({OnClosed(NextEvent, n, "merged"), OnPush(NextEvent)})
  BY DEF Merge
<1>2. Remember /\ UNCHANGED <<model, status>>
  BY DEF Merge
<1> DEFINE webhooks == {OnClosed(NextEvent, n, "merged"), OnPush(NextEvent)}
<1>3. /\ UNION webhooks = OnClosed(NextEvent, n, "merged") \cup OnPush(NextEvent)
      /\ IsFiniteSet(webhooks)
  BY PairIsFinite
<1>4. /\ Quiet /\ tasks' = OnClosed(NextEvent, n, "merged") \cup OnPush(NextEvent)
      /\ status.status = "remediation_prepared" => status.pr \in OpenPRs
      /\ status.status = "dismissed" => status.pr \in 1 .. Len(prs) /\ prs[status.pr].state = "closed"
      /\ Merging => Compliant(model.config, file')
  <2>1. ByUser(webhooks)
    BY <1>1
  <2> HIDE DEF webhooks
  <2>2. QED
    BY <1>2, <1>3, <2>1, CalmUser
<1> HIDE DEF webhooks
<1>5. PICK delete, update, push :
        /\ tasks' = {delete, update, push}
        /\ delete.type = "delete" /\ push.type = "push"
        /\ update.type = "status" /\ update.pr = n /\ update.snap = "merged"
  <2>1. PICK delete, update : /\ OnClosed(NextEvent, n, "merged") = {delete, update}
                              /\ delete.type = "delete"
                              /\ update.type = "status" /\ update.pr = n /\ update.snap = "merged"
    BY ClosedTasks
  <2>2. PICK push : OnPush(NextEvent) = {push} /\ push.type = "push"
    BY PushTasks
  <2>3. tasks' = {delete, update, push}
    BY <1>4, <2>1, <2>2
  <2>4. QED
    BY <2>1, <2>2, <2>3
<1>6. /\ Len(prs') = Len(prs) /\ n \in 1 .. Len(prs') /\ prs[n].state = "open"
      /\ prs'[n].state = "merged" /\ OpenPRs' = {}
      /\ \A m \in 1 .. Len(prs) : m # n => prs'[m] = prs[m]
  <2> DEFINE pr == [prs[n] EXCEPT !.state = "merged"]
  <2>1. prs \in Seq(PullRequests) /\ n \in 1 .. Len(prs) /\ prs[n].state = "open"
    BY DEF IInv, TypeOK, OpenPRs
  <2>2. prs[n] \in PullRequests
    BY <2>1
  <2>3. pr \in PullRequests /\ pr.state = "merged" /\ prs' = [prs EXCEPT ![n] = pr]
    BY <1>1, <2>2 DEF PullRequests, PRState
  <2> HIDE DEF pr
  <2>4. OpenPRs' = {}
    BY <2>3, ClosedPRs
  <2>5. QED
    BY <2>1, <2>3, <2>4
<1>7. Merging
  BY <1>6 DEF Merging
<1>8. Complies'
  BY <1>2, <1>4, <1>7 DEF Complies, Compliant
<1>9. /\ CalmTask(delete)' /\ CalmTask(update)' /\ CalmTask(push)'
  BY <1>2, <1>4, <1>5, <1>6, <1>8 DEF CalmTask, CalmDelete, CalmUpdate, Quiet
<1>10. CalmStatus'
  <2>1. status.pr = n => Pending({"closed", "merged"})'
    BY <1>2, <1>5 DEF Pending
  <2>2. status.status = "remediation_prepared" => status.pr = n
    BY <1>4 DEF IInv, BranchInv
  <2>3. status.status = "dismissed" =>
           status.pr \in 1 .. Len(prs') /\ prs'[status.pr].state = "closed"
    BY <1>4, <1>6
  <2>4. QED
    BY <1>2, <1>4, <1>8, <2>1, <2>2, <2>3 DEF CalmStatus, Quiet
<1>11. QED
  BY <1>5, <1>9, <1>10 DEF CalmTasks

LEMMA CalmReopen ==
    ASSUME IInv, CalmInv, Calm', Reopen
    PROVE  CalmStatus' /\ CalmTasks'
<1>1. PICK n \in 1 .. Len(prs) :
        /\ prs[n].state = "closed"
        /\ prs' = [prs EXCEPT ![n].state = "open"]
        /\ ByUser({OnReopened(NextEvent, n)})
  BY DEF Reopen
<1>2. Remember /\ UNCHANGED <<model, file, status>> /\ OpenPRs = {}
  BY DEF Reopen
<1>3. UNION {OnReopened(NextEvent, n)} = OnReopened(NextEvent, n) /\ IsFiniteSet({OnReopened(NextEvent, n)})
  BY PairIsFinite
<1>4. /\ Quiet /\ tasks' = OnReopened(NextEvent, n)
      /\ status.status = "success" => Complies
      /\ status.status = "remediation_prepared" => status.pr \in OpenPRs
      /\ status.status = "dismissed" => status.pr \in 1 .. Len(prs) /\ prs[status.pr].state = "closed"
  BY <1>1, <1>2, <1>3, CalmUser
<1>5. PICK update :
        /\ tasks' = {update}
        /\ update.type = "status" /\ update.step = "find" /\ update.pr = n /\ update.snap = "open"
  <2>1. PICK update : /\ OnReopened(NextEvent, n) = {update}
                      /\ update.type = "status" /\ update.step = "find"
                      /\ update.pr = n /\ update.snap = "open"
    BY ReopenedTasks
  <2>2. QED
    BY <1>4, <2>1
<1>6. /\ Len(prs') = Len(prs) /\ n \in 1 .. Len(prs') /\ prs'[n].state = "open"
      /\ \A m \in 1 .. Len(prs) : m # n => prs'[m] = prs[m]
  <2>1. prs \in Seq(PullRequests) /\ prs[n] \in PullRequests
    BY DEF IInv, TypeOK
  <2>2. QED
    BY <1>1, <2>1 DEF PullRequests
<1>7. Quiet'
  BY <1>2, <1>4, <1>5 DEF Quiet, Unchecked
<1>8. CalmTask(update)'
  BY <1>5, <1>6, <1>7 DEF CalmTask, CalmUpdate, Quiet
<1>9. CalmStatus'
  <2>1. status.pr = n => Pending({"open"})'
    BY <1>2, <1>5 DEF Pending
  <2>2. status.status # "remediation_prepared"
    BY <1>2, <1>4
  <2>3. status.status = "dismissed" /\ status.pr # n =>
           status.pr \in 1 .. Len(prs') /\ prs'[status.pr].state = "closed"
    BY <1>4, <1>6
  <2>4. Complies' = Complies
    BY <1>2 DEF Complies, Compliant
  <2>5. QED
    BY <1>2, <1>4, <1>6, <1>7, <2>1, <2>2, <2>3, <2>4 DEF CalmStatus, Quiet
<1>10. QED
  BY <1>5, <1>8, <1>9 DEF CalmTasks

\* A fault ends the calm.
LEMMA NoFault ==
    ASSUME IInv, Counts(0, 1) PROVE ~Calm'
<1>1. count'.faults = count.faults + 1 /\ count.faults \in Nat
  BY CountsType DEF IInv, TypeOK, CountType
<1>2. QED
  BY <1>1 DEF Calm

-----------------------------------------------------------------------------
LEMMA InitCalmInv == Init => CalmInv
<1> SUFFICES ASSUME Init PROVE CalmStatus /\ CalmTasks
  BY DEF CalmInv
<1>1. Fetch(0).type = "fetch" /\ Fetch(0).step = "read"
  BY DEF Fetch
<1>2. PICK fetch : tasks = {fetch} /\ fetch.type = "fetch" /\ fetch.step = "read"
  BY <1>1 DEF Init
<1>3. QED
  BY <1>2 DEF Init, CalmStatus, CalmTasks, CalmTask, CalmFetch

LEMMA NextCalmInv == IInv /\ CalmInv /\ [Next]_vars => CalmInv'
<1> SUFFICES ASSUME IInv, CalmInv, [Next]_vars, Calm' PROVE CalmStatus' /\ CalmTasks'
  BY DEF CalmInv
<1>1. CASE User
  BY <1>1, CalmEditFile, CalmEditBranch, CalmClose, CalmMerge, CalmReopen, CalmRedefine DEF User
<1>2. CASE StartRound
  BY <1>2, CalmStartRound
<1>3. CASE Restart
  BY <1>3, NoFault DEF Restart
<1>4. ASSUME NEW t \in tasks, TaskStep(t) PROVE CalmStatus' /\ CalmTasks'
  BY <1>4, CalmReadDefinition, CalmFindModel, CalmSaveModel, CalmEvaluate, CalmSaveRound,
     CalmCheckAfterPush, CalmSkipDismissed, CalmLookAtFile, CalmLookForBranch,
     CalmCreateBranch, CalmUpdateContent, CalmFindPullRequest, CalmOpenPullRequest,
     CalmSaveStatus, CalmFindStatus, CalmUpdateStatus, CalmDeleteBranch
     DEF TaskStep
<1>5. ASSUME NEW t \in tasks, Raise(t) PROVE CalmStatus' /\ CalmTasks'
  BY <1>5, NoFault DEF Raise
<1>6. CASE UNCHANGED vars
  <2>1. Calm
    BY <1>6 DEF vars, Calm
  <2>2. CalmStatus /\ CalmTasks
    BY <2>1 DEF CalmInv
  <2>3. QED
    BY <1>6, <2>2 DEF vars, CalmStatus, CalmTasks, CalmTask, CalmFetch, CalmRound, CalmCheck, CalmUpdate,
                      CalmDelete, Complies, Compliant, Checking, Quiet, Unchecked, Pending, OpenPRs
<1>7. QED
  BY <1>1, <1>2, <1>3, <1>4, <1>5, <1>6 DEF Next, Work

\* Once calm users have let the app finish, the stored status tells the truth
\* about the repository and the pull request, whatever the order of the
\* concurrent tasks that the webhooks, the rounds and the fetches started, for
\* any number of users' actions, pull requests and definitions.
THEOREM CalmStatusIsTrue == Spec => []StatusIsTrue
<1>1. CalmInv => StatusIsTrue
  <2> SUFFICES ASSUME CalmInv, Calm, Settled
               PROVE  /\ status.status = "success" => Compliant(model.config, file)
                      /\ status.status = "remediation_prepared" => status.pr \in OpenPRs
                      /\ status.status = "dismissed" =>
                            status.pr \in 1 .. Len(prs) /\ prs[status.pr].state = "closed"
    BY DEF StatusIsTrue
  <2>1. ~Checking /\ \A snaps : ~Pending(snaps)
    BY DEF Settled, Checking, Pending
  <2>2. QED
    BY <2>1 DEF CalmInv, CalmStatus, Settled, Complies
<1>2. Spec => []CalmInv
  BY Invariance, InitCalmInv, NextCalmInv, PTL DEF Spec
<1>3. QED
  BY <1>1, <1>2, PTL
=============================================================================
