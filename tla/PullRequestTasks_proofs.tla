----------------------- MODULE PullRequestTasks_proofs -----------------------
(***************************************************************************)
(* The inductive invariant of PullRequestTasks, and the proofs of its type *)
(* invariant, its safety invariants and its refinement of MergeThenApply,  *)
(* for every value of the bounds and of the other constants.               *)
(***************************************************************************)
EXTENDS PullRequestTasks, TLAPS

\* Some validation has seen a commit that is valid, or that may be auto-merged.
ValidSeen == \E h \in hist.checked : kind[h] \notin {"invalid", "broken"}
EligibleSeen == \E h \in hist.checked : kind[h] \in {"clean", "noop"}

\* Somebody who may decide has agreed to an automatic merge.
Agreed == AuthorRole = "lead" \/ hist.approved

\* The merge commit was applied, or there was nothing in it to apply.
Accounted == gh.merged \in hist.full \/ kind[gh.merged] = "invalid"

\* What is true of the answers in the record of the pull request, in a copy of
\* it that some task has read, and in the answers a task is about to store: a
\* positive answer was true of some commit or some review.
AnswersInv(d) ==
    /\ d.valid = "none" <=> d.supports = "none"
    /\ d.valid = "yes" => ValidSeen
    /\ d.valid = "yes" /\ d.supports = "yes" => EligibleSeen
    /\ d.author = "yes" => AuthorRole = "lead"
    /\ d.approved = "yes" => hist.approved

DocInv(d) ==
    /\ AnswersInv(d)
    /\ d.status = "merged" \/ d.apply # "not_applied" => gh.status = "merged"

TaskInv(t) ==
    /\ AnswersInv(t.args)
    /\ t.args.apply \notin {"none", "not_applied"} => gh.status = "merged"
    /\ t.found # NoDoc => DocInv(t.found) /\ doc # NoDoc
    /\ t.snap.status = "merged" => gh.status = "merged" /\ t.snap.head = gh.merged
    /\ t.type = "apply" /\ t.step = "act" => t.snap.status = "merged" /\ ValidSeen
                                             /\ doc # NoDoc
    /\ t.type \in {"apply", "done"} /\ t.step = "save" =>
         /\ doc # NoDoc
         /\ t.args.apply \in {"partially_applied", "completed"}
    /\ t.type = "apply" /\ t.args.apply = "completed" => Accounted
    /\ t.type \in {"update", "review", "team", "validate"} => t.args.apply = "none"
    /\ t.type = "announce" => EligibleSeen /\ Agreed
    /\ t.type = "merge" /\ t.step = "act" => EligibleSeen /\ Agreed

GitHubInv ==
    /\ gh.status = "merged" <=> gh.merged # 0
    /\ gh.merged # 0 => gh.head = gh.merged
    /\ gh.head <= branch
    /\ gh.approved => hist.approved
    /\ \A h \in hist.checked : h <= branch
    /\ kind[branch] \in Kind

RecordInv ==
    doc # NoDoc => /\ DocInv(doc)
                   /\ doc.apply = "completed" => Accounted \/ hist.done \/ hist.imported

EffectsInv ==
    /\ live \subseteq {gh.merged}
    /\ live # {} => ValidSeen
    /\ hist.mergedBy = "bot" \/ announced > 0 => EligibleSeen /\ Agreed

IInv ==
    /\ TypeOK
    /\ GitHubInv
    /\ RecordInv
    /\ EffectsInv
    /\ \A t \in tasks : TaskInv(t)

-----------------------------------------------------------------------------
(* Types of the operators the tasks are built from.                        *)

\* A task as it is scheduled is a task.
LEMMA NewTaskType ==
    ASSUME count.events \in Nat, NEW type \in TaskTypes, NEW step \in Steps,
           NEW by \in Role \cup {"webhook"}, NEW snap \in Snapshots
    PROVE  NewTask(type, step, by, snap) \in Task
BY DEF NewTask, Task, NoArgs, Args, Answer

\* Storing a snapshot and answers in a document gives a document.
LEMMA AssignType ==
    ASSUME NEW d \in Doc, NEW snap \in Snapshots, NEW args \in Args
    PROVE  Assign(d, snap, args) \in Doc
BY DEF Assign, Given, Doc, Snapshots, Args, Answer, ApplyStatus

\* A record that is created is a document.
LEMMA NewDocType ==
    ASSUME NEW snap \in Snapshots
    PROVE  NewDoc(snap) \in Doc
BY DEF NewDoc, Doc, Snapshots, Answer, ApplyStatus

\* The result of a validation is a set of answers.
LEMMA VerdictType ==
    ASSUME NEW k PROVE Verdict(k) \in Args
BY DEF Verdict, Args, NoArgs, Answer, YesNo

\* What a webhook or a task sees of the pull request is a snapshot.
LEMMA SnapshotType ==
    ASSUME TypeOK PROVE Snapshot(gh) \in Snapshots
BY DEF TypeOK, Snapshot, Snapshots, Heads

\* The tasks that a step adds, and a delivery that may be lost.
LEMMA DeliverType ==
    ASSUME TypeOK, NEW remaining \in SUBSET Task, NEW new \in SUBSET Task,
           Deliver(remaining, new)
    PROVE  /\ tasks' \subseteq Task
           /\ tasks' \subseteq remaining \cup new
           /\ count' \in [events : Nat, lost : Nat, restarts : Nat, failures : Nat]
<1>1. tasks' \subseteq remaining \cup new
  BY DEF Deliver
<1>2. count \in [events : Nat, lost : Nat, restarts : Nat, failures : Nat]
  BY DEF TypeOK
<1>3. count' \in [events : Nat, lost : Nat, restarts : Nat, failures : Nat]
  <2>1. CASE count' = [count EXCEPT !.events = @ + 1]
    BY <1>2, <2>1
  <2>2. CASE count' = [count EXCEPT !.events = @ + 1, !.lost = @ + 1]
    <3>1. count' = [events |-> count.events + 1, lost |-> count.lost + 1,
                    restarts |-> count.restarts, failures |-> count.failures]
      BY <1>2, <2>2
    <3>2. QED
      BY <1>2, <3>1
  <2>3. QED
    BY <2>1, <2>2 DEF Deliver
<1>4. QED
  BY <1>1, <1>3

PullRequest == [status : Status, draft : BOOLEAN, head : Heads, merged : 0 .. MaxHead,
                approved : BOOLEAN]

\* The tasks that webhooks schedule are tasks.
LEMMA EventTasksType ==
    ASSUME TypeOK, NEW g \in PullRequest
    PROVE  /\ Snapshot(g) \in Snapshots
           /\ OnOpened(g) \in SUBSET Task
           /\ OnReady(g) \in SUBSET Task
           /\ OnSynchronized(g) \in SUBSET Task
           /\ OnClosed(g) \in SUBSET Task
           /\ Update(g) \in Task
<1>1. count.events \in Nat
  BY DEF TypeOK
<1>2. Snapshot(g) \in Snapshots /\ NoSnapshot \in Snapshots
  BY BoundsAssumption DEF Snapshot, Snapshots, NoSnapshot, PullRequest, Heads, Status
<1>3. Update(g) \in Task /\ Team \in Task /\ Validate(g) \in Task /\ Apply(g) \in Task
  BY <1>1, <1>2, NewTaskType DEF Update, Team, Validate, Apply, TaskTypes, Steps
<1>4. QED
  BY <1>2, <1>3 DEF OnOpened, OnReady, OnSynchronized, OnClosed

\* The two ways a task goes on: with a new step and what it has learnt, or not at all.
LEMMA BecomesType ==
    ASSUME TypeOK, NEW t \in tasks, NEW new \in Task, Becomes(t, new)
    PROVE  tasks' \subseteq Task
BY DEF Becomes, TypeOK

\* A task that ends leaves tasks behind.
LEMMA EndsType ==
    ASSUME TypeOK, NEW t \in tasks, Ends(t)
    PROVE  tasks' \subseteq Task
BY DEF Ends, TypeOK

\* The type of the initial states.
LEMMA InitType == Init => TypeOK
<1> SUFFICES ASSUME Init PROVE TypeOK
  OBVIOUS
<1>1. gh \in PullRequest /\ branch \in Heads /\ kind \in [Heads -> Kinds \cup {"none"}]
  BY BoundsAssumption DEF Init, PullRequest, Status, Heads
<1>2. count = [events |-> 0, lost |-> 0, restarts |-> 0, failures |-> 0]
  BY DEF Init
<1>3. OnOpened(gh) \subseteq Task
  <2>1. Snapshot(gh) \in Snapshots /\ NoSnapshot \in Snapshots
    BY <1>1, BoundsAssumption DEF Snapshot, Snapshots, NoSnapshot, PullRequest, Heads, Status
  <2>2. Update(gh) \in Task /\ Team \in Task /\ Validate(gh) \in Task
    BY <1>2, <2>1, NewTaskType DEF Update, Team, Validate, TaskTypes, Steps
  <2>3. QED
    BY <2>2 DEF OnOpened
<1>4. tasks \subseteq Task
  <2>1. ASSUME NEW x \in OnOpened(gh) PROVE [x EXCEPT !.event = 0] \in Task
    BY <1>3 DEF Task
  <2>2. QED
    BY <2>1 DEF Init
<1>5. /\ hist \in [checked : SUBSET Heads, approved : BOOLEAN,
                   mergedBy : {"none", "user", "bot"}, full : SUBSET Heads,
                   done : BOOLEAN, imported : BOOLEAN, quiet : BOOLEAN, failed : BOOLEAN]
      /\ doc \in Doc \cup {NoDoc} /\ live \subseteq Heads /\ announced \in Nat
  BY DEF Init
<1>6. count \in [events : Nat, lost : Nat, restarts : Nat, failures : Nat]
  BY <1>2
<1>7. QED
  BY <1>1, <1>4, <1>5, <1>6 DEF TypeOK, PullRequest

(* Every action preserves the type invariant. *)

\* Actions of users keep the types.
LEMMA UserType == TypeOK /\ User => TypeOK'
<1> SUFFICES ASSUME TypeOK, User PROVE TypeOK'
  OBVIOUS
<1> USE DEF PullRequest
<1>0. gh \in PullRequest /\ count.events \in Nat /\ tasks \in SUBSET Task /\ NoSnapshot \in Snapshots
  BY BoundsAssumption DEF TypeOK, NoSnapshot, Snapshots, Status
<1>1. CASE Push
  <2>1. branch' \in Heads /\ kind' \in [Heads -> Kinds \cup {"none"}]
    BY <1>1, BoundsAssumption DEF Push, TypeOK, Heads
  <2>2. gh' \in PullRequest
    BY <1>1, <2>1 DEF Push, TypeOK
  <2>3. CASE gh.status = "open"
    BY <1>0, <1>1, <2>1, <2>2, <2>3, EventTasksType, DeliverType DEF Push, TypeOK
  <2>4. CASE gh.status # "open"
    <3>1. count' \in [events : Nat, lost : Nat, restarts : Nat, failures : Nat]
      BY <1>1, <2>4 DEF Push, TypeOK
    <3>2. QED
      BY <1>1, <2>1, <2>2, <2>4, <3>1 DEF Push, TypeOK
  <2>5. QED
    BY <2>3, <2>4
<1>2. CASE Close
  <2>1. gh' \in PullRequest
    BY <1>2 DEF Close, TypeOK, Status
  <2>2. QED
    BY <1>0, <1>2, <2>1, EventTasksType, DeliverType DEF Close, TypeOK
<1>3. CASE Reopen
  <2>1. gh' \in PullRequest
    BY <1>3 DEF Reopen, TypeOK, Status
  <2>2. QED
    BY <1>0, <1>3, <2>1, EventTasksType, DeliverType DEF Reopen, TypeOK
<1>4. CASE ToggleDraft
  <2>1. gh' \in PullRequest
    BY <1>4 DEF ToggleDraft, TypeOK
  <2>2. {Update(gh')} \in SUBSET Task /\ OnReady(gh') \in SUBSET Task
    BY <2>1, EventTasksType
  <2>3. QED
    BY <1>0, <1>4, <2>1, <2>2, DeliverType DEF ToggleDraft, TypeOK
<1>5. CASE Review
  <2>1. gh' \in PullRequest
    BY <1>5 DEF Review, TypeOK
  <2>2. {NewTask("review", "start", "webhook", Snapshot(gh'))} \in SUBSET Task
    BY <1>0, <2>1, EventTasksType, NewTaskType DEF TaskTypes, Steps
  <2>3. hist' \in [checked : SUBSET Heads, approved : BOOLEAN,
                 mergedBy : {"none", "user", "bot"}, full : SUBSET Heads,
                 done : BOOLEAN, imported : BOOLEAN, quiet : BOOLEAN, failed : BOOLEAN]
    BY <1>5 DEF Review, TypeOK
  <2>4. QED
    BY <1>0, <1>5, <2>1, <2>2, <2>3, DeliverType DEF Review, TypeOK
<1>6. CASE MergeByUser
  <2>1. gh' \in PullRequest /\ Merged \in PullRequest
    <3>1. gh.head \in 0 .. MaxHead
      BY <1>0, BoundsAssumption DEF Heads
    <3>2. QED
      BY <1>0, <1>6, <3>1 DEF MergeByUser, Merged, Status
  <2>2. OnClosed(Merged) \in SUBSET Task
    BY <2>1, EventTasksType
  <2>3. hist' \in [checked : SUBSET Heads, approved : BOOLEAN,
                 mergedBy : {"none", "user", "bot"}, full : SUBSET Heads,
                 done : BOOLEAN, imported : BOOLEAN, quiet : BOOLEAN, failed : BOOLEAN]
    BY <1>6 DEF MergeByUser, TypeOK
  <2>4. QED
    BY <1>0, <1>6, <2>1, <2>2, <2>3, DeliverType DEF MergeByUser, TypeOK
<1>7. CASE Request
  <2>1. PICK c \in Commands, by \in Roles : Deliver(tasks, {TaskOf(c, by)})
    BY <1>7 DEF Request
  <2>2. by \in Role \cup {"webhook"} /\ c \in Command
    BY ChoicesAssumption
  <2>3. TaskOf(c, by) \in Task
    BY <1>0, <2>2, NewTaskType DEF TaskOf, Team, TaskTypes, Steps, Command
  <2>4. QED
    BY <1>0, <1>7, <2>1, <2>3, DeliverType DEF Request, TypeOK
<1>8. QED
  BY <1>1, <1>2, <1>3, <1>4, <1>5, <1>6, <1>7 DEF User

\* What a task stores is a document.
LEMMA SavedType ==
    ASSUME IInv, NEW t \in tasks
    PROVE  Returned(t) \in Doc /\ Saved(t) \in Doc
<1>1. t \in Task /\ doc \in Doc \cup {NoDoc} /\ TaskInv(t)
  BY DEF IInv, TypeOK
<1>2. Returned(t) \in Doc
  BY <1>1, AssignType, NewDocType DEF Returned, Task
<1>3. t.found # NoDoc => Assign(doc, t.snap, t.args) \in Doc
  BY <1>1, AssignType DEF TaskInv, Task
<1>4. QED
  BY <1>2, <1>3 DEF Saved

\* Saving the apply status writes to a document that exists.
LEMMA SavedApplyType ==
    ASSUME IInv, NEW t \in tasks, SaveApplyStatus(t)
    PROVE  doc \in Doc /\ t.args.apply \in ApplyStatus /\ doc' \in Doc
<1>1. doc \in Doc /\ t.args.apply \in ApplyStatus
  BY DEF IInv, TypeOK, SaveApplyStatus, TaskInv, ApplyStatus
<1>2. QED
  BY <1>1 DEF SaveApplyStatus, Doc

\* What a task becomes by each of its steps is a task again.  A document that a
\* task has read exists, and an apply task has the snapshot of a merge: that
\* needs the whole invariant.
LEMMA TaskStepType ==
    ASSUME IInv, NEW t \in tasks, TaskStep(t)
    PROVE  TypeOK'
<1> DEFINE Hist == [checked : SUBSET Heads, approved : BOOLEAN,
                    mergedBy : {"none", "user", "bot"}, full : SUBSET Heads,
                    done : BOOLEAN, imported : BOOLEAN, quiet : BOOLEAN, failed : BOOLEAN]
<1>0. /\ t \in Task /\ Snapshot(gh) \in Snapshots /\ doc \in Doc \cup {NoDoc}
      /\ hist \in Hist /\ gh \in PullRequest /\ count.events \in Nat
      /\ TypeOK /\ TaskInv(t) /\ GitHubInv
  BY SnapshotType DEF TypeOK, PullRequest, IInv
<1>1. CASE FetchPullRequest(t)
  <2>1. [t EXCEPT !.step = IF t.type = "validate" THEN "config" ELSE "find",
                  !.snap = Snapshot(gh),
                  !.args.apply = IF t.type = "import" /\ gh.status = "merged"
                                 THEN "completed" ELSE "none"] \in Task
    BY <1>0 DEF Task, Args, Steps, ApplyStatus
  <2>2. QED
    BY <1>0, <1>1, <2>1, BecomesType DEF FetchPullRequest, TypeOK
<1>2. CASE FetchAuthor(t)
  <2>1. [t EXCEPT !.step = "find", !.snap = Snapshot(gh),
                  !.args.author = YesNo(AuthorRole = "lead")] \in Task
    BY <1>0 DEF Task, Args, Steps, Answer, YesNo
  <2>2. tasks' \subseteq Task
    BY <1>0, <1>2, <2>1, BecomesType, EndsType DEF FetchAuthor
  <2>3. QED
    BY <1>0, <1>2, <2>2 DEF FetchAuthor, TypeOK
<1>3. CASE ReadReviews(t)
  <2>1. [t EXCEPT !.step = "find", !.args.approved = YesNo(gh.approved)] \in Task
    BY <1>0 DEF Task, Args, Steps, Answer, YesNo
  <2>2. QED
    BY <1>0, <1>3, <2>1, BecomesType DEF ReadReviews, TypeOK
<1>4. CASE ReadConfig(t)
  <2>1. [t EXCEPT !.step = "find", !.args = Verdict(kind[branch])] \in Task
    BY <1>0, VerdictType DEF Task, Steps
  <2>2. hist' \in Hist
    BY <1>0, <1>4 DEF ReadConfig, TypeOK
  <2>3. QED
    BY <1>0, <1>4, <2>1, <2>2, BecomesType DEF ReadConfig, TypeOK
<1>5. CASE Find(t)
  <2>1. [t EXCEPT !.step = "save", !.found = doc] \in Task
    BY <1>0 DEF Task, Steps
  <2>2. QED
    BY <1>0, <1>5, <2>1, BecomesType DEF Find, TypeOK
<1>6. CASE Save(t)
  <2>1. doc' \in Doc \cup {NoDoc}
    BY <1>6, SavedType DEF Save
  <2>3. [NewTask("announce", "start", "webhook", NoSnapshot) EXCEPT !.event = t.event] \in Task
    <3>1. NewTask("announce", "start", "webhook", NoSnapshot) \in Task
      <4>1. NoSnapshot \in Snapshots
        BY BoundsAssumption DEF NoSnapshot, Snapshots, Status
      <4>2. QED
        BY <1>0, <4>1, NewTaskType DEF TaskTypes, Steps
    <3>2. QED
      BY <1>0, <3>1 DEF Task
  <2>4. tasks' \subseteq Task
    BY <1>0, <1>6, <2>3 DEF Save, TypeOK
  <2>5. hist' \in Hist
    BY <1>0, <1>6 DEF Save
  <2>6. QED
    BY <1>0, <1>6, <2>1, <2>4, <2>5 DEF Save, TypeOK
<1>7. CASE LookForComment(t)
  <2>1. [t EXCEPT !.step = "act"] \in Task
    BY <1>0 DEF Task, Steps
  <2>2. tasks' \subseteq Task
    BY <1>0, <1>7, <2>1, BecomesType, EndsType DEF LookForComment
  <2>3. QED
    BY <1>0, <1>7, <2>2 DEF LookForComment, TypeOK
<1>8. CASE AddComment(t)
  <2>1. tasks' \subseteq Task /\ announced' \in Nat
    BY <1>0, <1>8, EndsType DEF AddComment, TypeOK
  <2>2. QED
    BY <1>0, <1>8, <2>1 DEF AddComment, TypeOK
<1>9. CASE CheckMerge(t)
  <2>1. [t EXCEPT !.step = "act"] \in Task
    BY <1>0 DEF Task, Steps
  <2>2. tasks' \subseteq Task
    BY <1>0, <1>9, <2>1, BecomesType, EndsType DEF CheckMerge
  <2>3. QED
    BY <1>0, <1>9, <2>2 DEF CheckMerge, TypeOK
<1>10. CASE MergeByTask(t)
  <2>1. Merged \in PullRequest /\ OnClosed(Merged) \in SUBSET Task
    <3>1. Merged \in PullRequest
      <4>1. gh.head \in 0 .. MaxHead
        BY <1>0, BoundsAssumption DEF PullRequest, Heads
      <4>2. QED
        BY <1>0, <4>1 DEF Merged, PullRequest, Status
    <3>2. QED
      BY <1>0, <3>1, EventTasksType
  <2>2. hist' \in Hist /\ gh' \in PullRequest
    BY <1>0, <1>10, <2>1 DEF MergeByTask
  <2>3. /\ tasks' \subseteq Task
        /\ count' \in [events : Nat, lost : Nat, restarts : Nat, failures : Nat]
    <3>1. CASE Mergeable
      <4>1. tasks \ {t} \in SUBSET Task
        BY <1>0 DEF TypeOK
      <4>2. QED
        BY <1>0, <1>10, <2>1, <3>1, <4>1, DeliverType DEF MergeByTask
    <3>2. CASE ~Mergeable
      BY <1>0, <1>10, <3>2, EndsType DEF MergeByTask, TypeOK
    <3>3. QED
      BY <3>1, <3>2
  <2>4. QED
    BY <1>0, <1>10, <2>2, <2>3 DEF MergeByTask, TypeOK, PullRequest
<1>11. CASE CheckApply(t)
  <2>1. [t EXCEPT !.step = "act", !.found = doc] \in Task
    BY <1>0 DEF Task, Steps
  <2>2. tasks' \subseteq Task
    BY <1>0, <1>11, <2>1, BecomesType, EndsType DEF CheckApply, MayApply
  <2>3. QED
    BY <1>0, <1>11, <2>2 DEF CheckApply, MayApply, TypeOK
<1>12. CASE ApplyChanges(t)
  <2>1. PICK o \in Outcomes(kind[t.snap.head]) :
          /\ live' = live \cup IF o.writes THEN {t.snap.head} ELSE {}
          /\ hist' = [hist EXCEPT !.full = @ \cup IF o.success /\ o.writes
                                                  THEN {t.snap.head} ELSE {}]
          /\ Becomes(t, [t EXCEPT !.step = "save",
                                  !.args.apply = IF o.success /\ t.found.manual # "yes"
                                                 THEN "completed" ELSE "partially_applied"])
    BY <1>12 DEF ApplyChanges, StatusAfter
  <2>2. [t EXCEPT !.step = "save",
                  !.args.apply = IF o.success /\ t.found.manual # "yes"
                                 THEN "completed" ELSE "partially_applied"] \in Task
    BY <1>0 DEF Task, Args, Steps, ApplyStatus
  <2>3. t.snap.head \in Heads
    <3>1. t.snap.head = gh.merged /\ gh.merged # 0
      BY <1>0, <1>12 DEF TaskInv, GitHubInv, ApplyChanges, StatusAfter
    <3>2. QED
      BY <1>0, <3>1, BoundsAssumption DEF PullRequest, Heads
  <2>4. live' \subseteq Heads /\ hist' \in Hist
    BY <1>0, <2>1, <2>3 DEF TypeOK
  <2>5. QED
    BY <1>0, <1>12, <2>1, <2>2, <2>4, BecomesType DEF ApplyChanges, StatusAfter, TypeOK
<1>13. CASE CheckDone(t)
  <2>1. [t EXCEPT !.step = "save", !.found = doc, !.args.apply = "completed"] \in Task
    BY <1>0 DEF Task, Args, Steps, ApplyStatus
  <2>2. tasks' \subseteq Task
    BY <1>0, <1>13, <2>1, BecomesType, EndsType DEF CheckDone, MayComplete
  <2>3. QED
    BY <1>0, <1>13, <2>2 DEF CheckDone, MayComplete, TypeOK
<1>14. CASE SaveApplyStatus(t)
  <2>1. hist' \in Hist
    BY <1>0, <1>14 DEF SaveApplyStatus
  <2>2. doc' \in Doc
    BY <1>14, SavedApplyType
  <2>3. tasks' \subseteq Task
    BY <1>0, <1>14, EndsType DEF SaveApplyStatus
  <2>4. QED
    BY <1>0, <1>14, <2>1, <2>2, <2>3 DEF SaveApplyStatus, TypeOK
<1>15. QED
  BY <1>1, <1>2, <1>3, <1>4, <1>5, <1>6, <1>7, <1>8, <1>9, <1>10, <1>11, <1>12, <1>13, <1>14
     DEF TaskStep

-----------------------------------------------------------------------------
(* What no step takes back.                                                *)

\* A merge is final, what was seen, applied or approved stays so, a commit does
\* not change, and a document is never deleted.
Grows ==
    /\ gh.status = "merged" => gh'.status = "merged" /\ gh'.merged = gh.merged
    /\ hist.checked \subseteq hist'.checked
    /\ hist.full \subseteq hist'.full
    /\ hist.approved => hist'.approved
    /\ (hist.done => hist'.done) /\ (hist.imported => hist'.imported)
    /\ \A h \in Heads : h <= branch => kind'[h] = kind[h]
    /\ doc # NoDoc => doc' # NoDoc

\* Actions of users take nothing of this back,
LEMMA UserGrows == IInv /\ User => Grows
<1> SUFFICES ASSUME IInv, User PROVE Grows
  OBVIOUS
<1> USE DEF Grows
<1>0. /\ gh \in PullRequest /\ branch \in Heads /\ kind \in [Heads -> Kinds \cup {"none"}]
      /\ hist \in [checked : SUBSET Heads, approved : BOOLEAN,
                   mergedBy : {"none", "user", "bot"}, full : SUBSET Heads,
                   done : BOOLEAN, imported : BOOLEAN, quiet : BOOLEAN, failed : BOOLEAN]
  BY DEF IInv, TypeOK, PullRequest
<1>1. CASE Push
  <2>1. \A h \in Heads : h <= branch => kind'[h] = kind[h]
    BY <1>0, <1>1, BoundsAssumption DEF Push, Heads
  <2>2. QED
    BY <1>0, <1>1, <2>1 DEF Push
<1>2. CASE Close
  BY <1>0, <1>2 DEF Close
<1>3. CASE Reopen
  BY <1>0, <1>3 DEF Reopen
<1>4. CASE ToggleDraft
  BY <1>0, <1>4 DEF ToggleDraft
<1>5. CASE Review
  BY <1>0, <1>5 DEF Review
<1>6. CASE MergeByUser
  BY <1>0, <1>6 DEF MergeByUser, Merged, Mergeable
<1>7. CASE Request
  BY <1>0, <1>7 DEF Request
<1>8. QED
  BY <1>1, <1>2, <1>3, <1>4, <1>5, <1>6, <1>7 DEF User

\* nor do the steps of tasks,
LEMMA TaskStepGrows ==
    ASSUME IInv, NEW t \in tasks, TaskStep(t)
    PROVE  Grows
<1> USE DEF Grows
<1>0. /\ gh \in PullRequest /\ branch \in Heads /\ kind \in [Heads -> Kinds \cup {"none"}]
      /\ hist \in [checked : SUBSET Heads, approved : BOOLEAN,
                   mergedBy : {"none", "user", "bot"}, full : SUBSET Heads,
                   done : BOOLEAN, imported : BOOLEAN, quiet : BOOLEAN, failed : BOOLEAN]
      /\ doc \in Doc \cup {NoDoc}
      /\ t \in Task
      /\ TypeOK'
  BY TaskStepType DEF IInv, TypeOK, PullRequest
<1>1. CASE FetchPullRequest(t)
  BY <1>0, <1>1 DEF FetchPullRequest
<1>2. CASE FetchAuthor(t)
  BY <1>0, <1>2 DEF FetchAuthor
<1>3. CASE ReadReviews(t)
  BY <1>0, <1>3 DEF ReadReviews
<1>4. CASE ReadConfig(t)
  BY <1>0, <1>4 DEF ReadConfig
<1>5. CASE Find(t)
  BY <1>0, <1>5 DEF Find
<1>6. CASE Save(t)
  BY <1>0, <1>6, SavedType, NoDocAssumption DEF Save
<1>7. CASE LookForComment(t)
  BY <1>0, <1>7 DEF LookForComment
<1>8. CASE AddComment(t)
  BY <1>0, <1>8 DEF AddComment
<1>9. CASE CheckMerge(t)
  BY <1>0, <1>9 DEF CheckMerge
<1>10. CASE MergeByTask(t)
  BY <1>0, <1>10 DEF MergeByTask, Merged, Mergeable
<1>11. CASE CheckApply(t)
  BY <1>0, <1>11 DEF CheckApply, MayApply
<1>12. CASE ApplyChanges(t)
  BY <1>0, <1>12 DEF ApplyChanges, StatusAfter
<1>13. CASE CheckDone(t)
  BY <1>0, <1>13 DEF CheckDone, MayComplete
<1>14. CASE SaveApplyStatus(t)
  BY <1>0, <1>14, SavedApplyType, NoDocAssumption DEF SaveApplyStatus
<1>15. QED
  BY <1>1, <1>2, <1>3, <1>4, <1>5, <1>6, <1>7, <1>8, <1>9, <1>10, <1>11, <1>12, <1>13, <1>14 DEF TaskStep

\* nor any other step.
LEMMA StepGrows == IInv /\ Next => Grows
<1> SUFFICES ASSUME IInv, Next PROVE Grows
  OBVIOUS
<1>1. CASE User
  BY <1>1, UserGrows
<1>2. CASE Work
  BY <1>2, TaskStepGrows DEF Work
<1>3. CASE Restart
  BY <1>3 DEF Restart, Grows
<1>4. CASE \E t \in tasks : Raise(t)
  <2>1. /\ hist \in [checked : SUBSET Heads, approved : BOOLEAN,
                   mergedBy : {"none", "user", "bot"}, full : SUBSET Heads,
                   done : BOOLEAN, imported : BOOLEAN, quiet : BOOLEAN, failed : BOOLEAN]
    BY DEF IInv, TypeOK
  <2>2. QED
    BY <1>4, <2>1 DEF Raise, Grows
<1>5. QED
  BY <1>1, <1>2, <1>3, <1>4 DEF Next

\* Hence the evidence that answers, documents and tasks refer to remains.
Kept ==
    /\ ValidSeen => ValidSeen'
    /\ EligibleSeen => EligibleSeen'
    /\ hist.approved => hist'.approved
    /\ (hist.done => hist'.done) /\ (hist.imported => hist'.imported)
    /\ Agreed => Agreed'
    /\ gh.status = "merged" => /\ gh'.status = "merged"
                               /\ gh'.merged = gh.merged
                               /\ Accounted => Accounted'
    /\ doc # NoDoc => doc' # NoDoc

\* The facts that answers refer to are among those that last.
LEMMA GrowsKeeps == IInv /\ Grows => Kept
<1> SUFFICES ASSUME IInv, Grows PROVE Kept
  OBVIOUS
<1>0. /\ gh \in PullRequest /\ hist.checked \subseteq Heads /\ branch \in Heads
      /\ \A h \in hist.checked : h <= branch
      /\ gh.status = "merged" => gh.merged \in Heads /\ gh.merged <= branch
  <2>1. gh \in PullRequest /\ hist.checked \subseteq Heads /\ branch \in Heads
    BY DEF IInv, TypeOK, PullRequest
  <2>2. \A h \in hist.checked : h <= branch
    BY DEF IInv, GitHubInv
  <2>3. gh.status = "merged" => gh.merged \in Heads /\ gh.merged <= branch
    BY <2>1 DEF IInv, GitHubInv, PullRequest
  <2>4. QED
    BY <2>1, <2>2, <2>3
<1>1. \A h \in hist.checked : h \in hist'.checked /\ kind'[h] = kind[h]
  BY <1>0 DEF Grows
<1>2. (ValidSeen => ValidSeen') /\ (EligibleSeen => EligibleSeen')
  BY <1>1 DEF ValidSeen, EligibleSeen
<1>3. gh.status = "merged" => /\ gh'.status = "merged" /\ gh'.merged = gh.merged
                              /\ kind'[gh.merged] = kind[gh.merged]
  BY <1>0 DEF Grows
<1>4. gh.status = "merged" /\ Accounted => Accounted'
  BY <1>3 DEF Grows, Accounted
<1>5. QED
  BY <1>2, <1>3, <1>4 DEF Grows, Kept, Agreed

\* What a task relies on remains true, whoever takes the step.
LEMMA TaskKept ==
    ASSUME Kept, NEW t, TaskInv(t)
    PROVE  TaskInv(t)'
BY DEF Kept, TaskInv, DocInv, AnswersInv, Agreed

\* A task that has just been scheduled relies on its snapshot only.
Fresh(t) ==
    /\ t.found = NoDoc
    /\ t.args = NoArgs
    /\ t.type # "announce"
    /\ t.step \notin {"act", "save"}

\* The snapshot of a pull request g that is merged names its merge commit.
Current(snap, g) ==
    snap.status = "merged" => g.status = "merged" /\ snap.head = g.merged

\* A task that has found out nothing yet satisfies the invariant of tasks.
LEMMA FreshInv ==
    ASSUME NEW t, Fresh(t), Current(t.snap, gh')
    PROVE  TaskInv(t)'
BY DEF Fresh, Current, TaskInv, AnswersInv, NoArgs

\* The tasks of a webhook are such tasks.
LEMMA EventTasksFresh ==
    ASSUME NEW g, g.status = "merged" => g.head = g.merged,
           NEW x \in OnOpened(g) \cup OnReady(g) \cup OnSynchronized(g) \cup OnClosed(g)
                     \cup {Update(g)}
    PROVE  Fresh(x) /\ Current(x.snap, g)
<1>1. x \in {Update(g), Team, Validate(g), Apply(g)}
  BY DEF OnOpened, OnReady, OnSynchronized, OnClosed
<1>2. Fresh(x)
  BY <1>1 DEF Update, Team, Validate, Apply, NewTask, Fresh
<1>3. x.snap = Snapshot(g) \/ x.snap = NoSnapshot
  BY <1>1 DEF Update, Team, Validate, Apply, NewTask
<1>4. QED
  BY <1>2, <1>3 DEF Current, Snapshot, NoSnapshot

-----------------------------------------------------------------------------
(* The parts of the invariant that a step leaves alone.                    *)

\* A delivery, lost or not, preserves the invariant of tasks;
LEMMA DeliverInv ==
    ASSUME IInv, Kept, NEW remaining \in SUBSET tasks, NEW new,
           \A x \in new : Fresh(x) /\ Current(x.snap, gh'), Deliver(remaining, new)
    PROVE  \A x \in tasks' : TaskInv(x)'
<1> SUFFICES ASSUME NEW x \in tasks' PROVE TaskInv(x)'
  OBVIOUS
<1>1. x \in tasks \/ x \in new
  BY DEF Deliver
<1>2. CASE x \in tasks
  BY <1>2, TaskKept DEF IInv
<1>3. CASE x \in new
  BY <1>3, FreshInv
<1>4. QED
  BY <1>1, <1>2, <1>3

\* so does a task that goes on,
LEMMA BecomesInv ==
    ASSUME IInv, Kept, NEW t \in tasks, NEW new, TaskInv(new)', Becomes(t, new)
    PROVE  \A x \in tasks' : TaskInv(x)'
BY TaskKept DEF IInv, Becomes

\* and one that ends.
LEMMA EndsInv ==
    ASSUME IInv, Kept, NEW t \in tasks, Ends(t)
    PROVE  \A x \in tasks' : TaskInv(x)'
BY TaskKept DEF IInv, Ends

\* A step that does not write the document preserves the invariant of the record,
LEMMA RecordKept ==
    ASSUME IInv, Kept, doc' = doc
    PROVE  RecordInv'
<1>1. RecordInv
  BY DEF IInv
<1>2. doc # NoDoc => DocInv(doc)'
  BY <1>1 DEF RecordInv, Kept, DocInv, AnswersInv
<1>3. doc # NoDoc /\ doc.apply = "completed" => gh.status = "merged"
  BY <1>1 DEF RecordInv, DocInv
<1>4. QED
  BY <1>1, <1>2, <1>3 DEF RecordInv, Kept

\* one that does not write, announce or merge the invariant of effects,
LEMMA EffectsKept ==
    ASSUME IInv, Kept, live' = live, announced' = announced,
           hist'.mergedBy = "bot" => hist.mergedBy = "bot"
    PROVE  EffectsInv'
<1>1. live \subseteq Heads /\ gh \in PullRequest /\ EffectsInv /\ GitHubInv
  BY DEF IInv, TypeOK, PullRequest
<1>2. live # {} => gh.status = "merged"
  <2>1. ASSUME NEW h \in live PROVE gh.status = "merged"
    <3>1. h \in Heads /\ h = gh.merged
      BY <1>1 DEF EffectsInv
    <3>2. gh.merged # 0
      BY <3>1, BoundsAssumption DEF Heads
    <3>3. QED
      BY <1>1, <3>2 DEF GitHubInv
  <2>2. QED
    BY <2>1
<1>3. live' \subseteq {gh'.merged}
  BY <1>1, <1>2 DEF EffectsInv, Kept
<1>4. QED
  BY <1>1, <1>3 DEF EffectsInv, Kept

\* and one that is not a user's or a merge the invariant of the pull request.
LEMMA GitHubKept ==
    ASSUME IInv, gh' = gh, branch' = branch, kind' = kind, hist'.checked = hist.checked,
           hist.approved => hist'.approved
    PROVE  GitHubInv'
BY DEF IInv, GitHubInv

-----------------------------------------------------------------------------
(* Every action preserves the invariant.                                   *)

\* A merged pull request keeps the head that was merged.
LEMMA HeadIsMerged ==
    ASSUME GitHubInv
    PROVE  gh.status = "merged" => gh.head = gh.merged
BY DEF GitHubInv

\* Actions of users preserve the inductive invariant.
LEMMA UserInv == IInv /\ User => IInv'
<1> SUFFICES ASSUME IInv, User PROVE IInv'
  OBVIOUS
<1>0. /\ TypeOK /\ TypeOK' /\ GitHubInv /\ Kept
      /\ gh \in PullRequest /\ branch \in Heads /\ hist.checked \subseteq Heads
      /\ MaxHead \in Nat
  BY UserType, UserGrows, GrowsKeeps, BoundsAssumption DEF IInv, TypeOK, PullRequest
<1>1. GitHubInv'
  <2>1. CASE Push
    <3>1. kind'[branch'] \in Kind
      BY <1>0, <2>1, ChoicesAssumption, BoundsAssumption DEF Push, TypeOK, Heads
    <3>2. QED
      BY <1>0, <2>1, <3>1 DEF Push, GitHubInv, PullRequest, Heads
  <2>2. CASE Close
    BY <1>0, <2>2 DEF Close, GitHubInv, PullRequest
  <2>3. CASE Reopen
    BY <1>0, <2>3 DEF Reopen, GitHubInv, PullRequest, Heads
  <2>4. CASE ToggleDraft
    BY <1>0, <2>4 DEF ToggleDraft, GitHubInv, PullRequest
  <2>5. CASE Review
    BY <1>0, <2>5 DEF Review, GitHubInv, PullRequest, TypeOK
  <2>6. CASE MergeByUser
    <3>1. gh.head \in Nat /\ gh.head # 0
      BY <1>0 DEF PullRequest, Heads
    <3>2. /\ gh'.status = "merged" /\ gh'.merged = gh.head /\ gh'.head = gh.head
          /\ gh'.approved = gh.approved
      BY <1>0, <2>6 DEF MergeByUser, Merged, PullRequest
    <3>3. hist'.checked = hist.checked /\ hist'.approved = hist.approved /\ branch' = branch
      BY <1>0, <2>6 DEF MergeByUser, TypeOK
    <3>4. kind' = kind
      BY <2>6 DEF MergeByUser
    <3>5. QED
      BY <1>0, <3>1, <3>2, <3>3, <3>4 DEF GitHubInv
  <2>7. CASE Request
    BY <1>0, <2>7, GitHubKept DEF Request
  <2>8. QED
    BY <2>1, <2>2, <2>3, <2>4, <2>5, <2>6, <2>7 DEF User
<1>2. \A x \in tasks' : TaskInv(x)'
  <2> DEFINE New(g) == OnOpened(g) \cup OnReady(g) \cup OnSynchronized(g) \cup OnClosed(g)
                      \cup {Update(g)}
  <2>0. \A x \in New(gh') : Fresh(x) /\ Current(x.snap, gh')
    <3>1. gh'.status = "merged" => gh'.head = gh'.merged
      BY <1>1 DEF GitHubInv
    <3>2. QED
      BY <3>1, EventTasksFresh
  <2> HIDE DEF New
  <2>1. ASSUME NEW new \in SUBSET New(gh'), Deliver(tasks, new)
        PROVE  \A x \in tasks' : TaskInv(x)'
    BY <1>0, <2>0, <2>1, DeliverInv
  <2>2. CASE Push
    <3>1. CASE gh.status = "open"
      BY <2>1, <2>2, <3>1 DEF Push, New
    <3>2. CASE gh.status # "open"
      BY <1>0, <2>2, <3>2, TaskKept DEF Push, IInv
    <3>3. QED
      BY <3>1, <3>2
  <2>3. CASE Close
    BY <2>1, <2>3 DEF Close, New
  <2>4. CASE Reopen
    BY <2>1, <2>4 DEF Reopen, New
  <2>5. CASE ToggleDraft
    BY <2>1, <2>5 DEF ToggleDraft, New
  <2>6. CASE Review
    <3>1. Fresh(NewTask("review", "start", "webhook", Snapshot(gh')))
      BY DEF Fresh, NewTask
    <3>2. NewTask("review", "start", "webhook", Snapshot(gh')).snap = Snapshot(gh')
      BY DEF NewTask
    <3>3. Current(Snapshot(gh'), gh')
      BY <1>1 DEF GitHubInv, Current, Snapshot
    <3>4. QED
      BY <1>0, <2>6, <3>1, <3>2, <3>3, DeliverInv DEF Review
  <2>7. CASE MergeByUser
    BY <2>1, <2>7 DEF MergeByUser, New
  <2>8. CASE Request
    <3>1. PICK c \in Commands, by \in Roles : Deliver(tasks, {TaskOf(c, by)})
      BY <2>8 DEF Request
    <3>2. TaskOf(c, by).snap = NoSnapshot /\ Fresh(TaskOf(c, by))
      BY ChoicesAssumption DEF TaskOf, Team, NewTask, Fresh, Command
    <3>3. QED
      BY <1>0, <3>1, <3>2, DeliverInv DEF NoSnapshot, Current
  <2>9. QED
    BY <2>2, <2>3, <2>4, <2>5, <2>6, <2>7, <2>8 DEF User
<1>3. doc' = doc /\ live' = live /\ announced' = announced
  BY DEF User, Push, Close, Reopen, ToggleDraft, Review, MergeByUser, Request
<1>4. hist'.mergedBy = "bot" => hist.mergedBy = "bot"
  BY <1>0 DEF User, Push, Close, Reopen, ToggleDraft, Review, MergeByUser, Request, TypeOK
<1>5. QED
  BY <1>0, <1>1, <1>2, <1>3, <1>4, RecordKept, EffectsKept DEF IInv

\* A step of a task that touches neither GitHub nor the record nor the live
\* organization keeps the invariant if the tasks keep theirs.
LEMMA LocalStep ==
    ASSUME IInv, Kept, TypeOK', \A x \in tasks' : TaskInv(x)',
           UNCHANGED <<gh, branch, kind, doc, live, announced, hist>>
    PROVE  IInv'
BY GitHubKept, RecordKept, EffectsKept DEF IInv

\* What update_or_create_pull_request returns and stores keeps to the evidence:
\* the answers of one validation are stored together.
LEMMA AssignInv ==
    ASSUME NEW t, TaskInv(t), NEW d, DocInv(d)
    PROVE  DocInv(Assign(d, t.snap, t.args))
<1>1. AnswersInv(Assign(d, t.snap, t.args))
  BY DEF Assign, Given, DocInv, AnswersInv, TaskInv
<1>2. QED
  BY <1>1 DEF Assign, Given, DocInv, TaskInv

\* What a task returns or saves is as justified as what it found.
LEMMA StoredInv ==
    ASSUME IInv, NEW t \in tasks
    PROVE  DocInv(Returned(t)) /\ DocInv(Saved(t))
<1>1. TaskInv(t) /\ RecordInv
  BY DEF IInv
<1>2. DocInv(NewDoc(t.snap))
  BY <1>1 DEF NewDoc, DocInv, AnswersInv, TaskInv
<1>3. DocInv(Returned(t))
  BY <1>1, <1>2, AssignInv DEF Returned, TaskInv
<1>4. t.found # NoDoc => DocInv(Assign(doc, t.snap, t.args))
  BY <1>1, AssignInv DEF RecordInv, TaskInv
<1>5. QED
  BY <1>3, <1>4 DEF Saved

\* The steps that only fetch and read.
LEMMA FetchInv ==
    ASSUME IInv, NEW t \in tasks, TypeOK', Kept,
           \/ FetchPullRequest(t) \/ FetchAuthor(t) \/ ReadReviews(t) \/ Find(t)
    PROVE  IInv'
<1>0. t \in Task /\ TaskInv(t) /\ GitHubInv /\ gh \in PullRequest /\ RecordInv
  BY DEF IInv, TypeOK, PullRequest
<1>1. CASE FetchPullRequest(t)
  <2> DEFINE n == [t EXCEPT !.step = IF t.type = "validate" THEN "config" ELSE "find",
                            !.snap = Snapshot(gh),
                            !.args.apply = IF t.type = "import" /\ gh.status = "merged"
                                           THEN "completed" ELSE "none"]
  <2>1. /\ n.type = t.type /\ n.step \in {"config", "find"} /\ n.snap = Snapshot(gh)
        /\ n.found = t.found
        /\ n.args.valid = t.args.valid /\ n.args.supports = t.args.supports
        /\ n.args.author = t.args.author /\ n.args.approved = t.args.approved
        /\ n.args.apply = IF t.type = "import" /\ gh.status = "merged"
                          THEN "completed" ELSE "none"
    BY <1>0 DEF Task, Args
  <2>2. n.snap.status = "merged" => gh.status = "merged" /\ n.snap.head = gh.merged
    BY <1>0, <2>1, HeadIsMerged DEF Snapshot
  <2>3. Becomes(t, n) /\ UNCHANGED <<gh, branch, kind, doc, live, announced, hist>>
    BY <1>1 DEF FetchPullRequest
  <2> HIDE DEF n
  <2>4. TaskInv(n)
    BY <1>0, <1>1, <2>1, <2>2 DEF TaskInv, AnswersInv, FetchPullRequest
  <2>5. QED
    BY <2>3, <2>4, TaskKept, BecomesInv, LocalStep
<1>2. CASE FetchAuthor(t)
  <2> DEFINE n == [t EXCEPT !.step = "find", !.snap = Snapshot(gh),
                            !.args.author = YesNo(AuthorRole = "lead")]
  <2>1. /\ n.type = t.type /\ n.step = "find" /\ n.snap = Snapshot(gh)
        /\ n.found = t.found
        /\ n.args.valid = t.args.valid /\ n.args.supports = t.args.supports
        /\ n.args.author = "yes" => AuthorRole = "lead"
        /\ n.args.approved = t.args.approved /\ n.args.apply = t.args.apply
    BY <1>0 DEF Task, Args, YesNo
  <2>2. n.snap.status = "merged" => gh.status = "merged" /\ n.snap.head = gh.merged
    BY <1>0, <2>1, HeadIsMerged DEF Snapshot
  <2>3. Becomes(t, n) \/ Ends(t)
    BY <1>2 DEF FetchAuthor
  <2>4. UNCHANGED <<gh, branch, kind, doc, live, announced, hist>>
    BY <1>2 DEF FetchAuthor
  <2> HIDE DEF n
  <2>5. TaskInv(n)
    BY <1>0, <1>2, <2>1, <2>2 DEF TaskInv, AnswersInv, FetchAuthor
  <2>6. QED
    BY <2>3, <2>4, <2>5, TaskKept, BecomesInv, EndsInv, LocalStep
<1>3. CASE ReadReviews(t)
  <2> DEFINE n == [t EXCEPT !.step = "find", !.args.approved = YesNo(gh.approved)]
  <2>1. /\ n.type = t.type /\ n.step = "find" /\ n.snap = t.snap
        /\ n.found = t.found
        /\ n.args.valid = t.args.valid /\ n.args.supports = t.args.supports
        /\ n.args.author = t.args.author /\ n.args.apply = t.args.apply
        /\ n.args.approved = "yes" => gh.approved
    BY <1>0 DEF Task, Args, YesNo
  <2>2. Becomes(t, n) /\ UNCHANGED <<gh, branch, kind, doc, live, announced, hist>>
    BY <1>3 DEF ReadReviews
  <2> HIDE DEF n
  <2>3. TaskInv(n)
    BY <1>0, <1>3, <2>1 DEF TaskInv, AnswersInv, ReadReviews, GitHubInv
  <2>4. QED
    BY <2>2, <2>3, TaskKept, BecomesInv, LocalStep
<1>4. CASE Find(t)
  <2> DEFINE n == [t EXCEPT !.step = "save", !.found = doc]
  <2>1. /\ n.type = t.type /\ n.step = "save" /\ n.snap = t.snap
        /\ n.found = doc /\ n.args = t.args
    BY <1>0 DEF Task
  <2>2. Becomes(t, n) /\ UNCHANGED <<gh, branch, kind, doc, live, announced, hist>>
    BY <1>4 DEF Find
  <2> HIDE DEF n
  <2>3. TaskInv(n)
    BY <1>0, <1>4, <2>1 DEF TaskInv, Find, Writers, RecordInv
  <2>4. QED
    BY <2>2, <2>3, TaskKept, BecomesInv, LocalStep
<1>5. QED
  BY <1>1, <1>2, <1>3, <1>4

\* The answers of a validation, one by one.
LEMMA VerdictFields ==
    ASSUME NEW k
    PROVE  /\ Verdict(k).valid = IF k \in {"invalid", "broken"} THEN "no" ELSE "yes"
           /\ Verdict(k).supports = IF k \in {"manual", "deletes"} THEN "no" ELSE "yes"
           /\ Verdict(k).author = "none" /\ Verdict(k).approved = "none"
           /\ Verdict(k).apply = "none"
BY DEF Verdict, NoArgs, YesNo

\* The validation: what it sees is evidence for what it reports.
LEMMA ReadConfigInv ==
    ASSUME IInv, NEW t \in tasks, TypeOK', Kept, ReadConfig(t)
    PROVE  IInv'
<1>0. /\ t \in Task /\ TaskInv(t) /\ GitHubInv /\ branch \in Heads
      /\ hist \in [checked : SUBSET Heads, approved : BOOLEAN,
                   mergedBy : {"none", "user", "bot"}, full : SUBSET Heads,
                   done : BOOLEAN, imported : BOOLEAN, quiet : BOOLEAN, failed : BOOLEAN]
      /\ kind[branch] \in Kind
  BY DEF IInv, TypeOK, GitHubInv
<1> PICK n : n = [t EXCEPT !.step = "find", !.args = Verdict(kind[branch])]
  OBVIOUS
<1>1. /\ n.type = t.type /\ n.step = "find" /\ n.snap = t.snap
      /\ n.found = t.found /\ n.args = Verdict(kind[branch])
  BY <1>0 DEF Task
<1>2. /\ Becomes(t, n) /\ UNCHANGED <<gh, branch, kind, doc, live, announced>>
      /\ hist' = [hist EXCEPT !.checked = @ \cup {branch}]
  BY DEF ReadConfig
<1>3. /\ hist'.checked = hist.checked \cup {branch} /\ hist'.approved = hist.approved
      /\ hist'.mergedBy = hist.mergedBy
  BY <1>0, <1>2
<1>4. GitHubInv'
  BY <1>0, <1>2, <1>3 DEF GitHubInv, Heads
<1>5. AnswersInv(n.args)'
  <2>1. kind[branch] = "invalid" \/ kind[branch] = "broken" \/ ValidSeen'
    BY <1>2, <1>3 DEF ValidSeen
  <2>2. kind[branch] \in {"clean", "noop"} => EligibleSeen'
    BY <1>2, <1>3 DEF EligibleSeen
  <2>3. /\ n.args.valid = IF kind[branch] \in {"invalid", "broken"} THEN "no" ELSE "yes"
        /\ n.args.supports = IF kind[branch] \in {"manual", "deletes"} THEN "no" ELSE "yes"
        /\ n.args.author = "none" /\ n.args.approved = "none"
    BY <1>1, VerdictFields
  <2>4. n.args.valid = "yes" /\ n.args.supports = "yes" => EligibleSeen'
    BY <1>0, <2>2, <2>3 DEF Kind
  <2>5. QED
    BY <2>1, <2>3, <2>4 DEF AnswersInv
<1>6. n.args.apply = "none"
  BY <1>1, VerdictFields
<1>7. TaskInv(n)'
  BY <1>0, <1>1, <1>5, <1>6, TaskKept DEF TaskInv, ReadConfig
<1>8. QED
  BY <1>2, <1>3, <1>4, <1>7, BecomesInv, RecordKept, EffectsKept DEF IInv

\* The save of update_or_create_pull_request, which may schedule the announcement.
LEMMA SaveInv ==
    ASSUME IInv, NEW t \in tasks, TypeOK', Kept, Save(t)
    PROVE  IInv'
<1>0. /\ t \in Task /\ TaskInv(t) /\ RecordInv
      /\ hist \in [checked : SUBSET Heads, approved : BOOLEAN,
                   mergedBy : {"none", "user", "bot"}, full : SUBSET Heads,
                   done : BOOLEAN, imported : BOOLEAN, quiet : BOOLEAN, failed : BOOLEAN]
  BY DEF IInv, TypeOK
<1>1. /\ UNCHANGED <<gh, branch, kind, live, announced>> /\ doc' = Saved(t)
      /\ hist'.checked = hist.checked /\ hist'.approved = hist.approved
      /\ hist'.mergedBy = hist.mergedBy
      /\ t.type = "import" /\ t.args.apply = "completed" => hist'.imported
  BY <1>0 DEF Save
<1>2. DocInv(doc)'
  <2>1. DocInv(Saved(t))
    BY StoredInv
  <2>2. QED
    BY <1>1, <2>1 DEF DocInv, AnswersInv, Kept
<1>3. Saved(t).apply = "completed" =>
        \/ t.type = "import" /\ t.args.apply = "completed"
        \/ doc # NoDoc /\ doc.apply = "completed"
  <2>1. t.args.apply = "none" \/ t.type = "import"
    BY <1>0 DEF TaskInv, Save, Writers
  <2>2. NewDoc(t.snap).apply = "not_applied"
    BY DEF NewDoc
  <2>3. t.found # NoDoc => doc # NoDoc
    BY <1>0 DEF TaskInv
  <2>4. QED
    BY <2>1, <2>2, <2>3 DEF Saved, Returned, Assign, Given
<1>4. RecordInv'
  <2>1. doc # NoDoc /\ doc.apply = "completed" =>
          gh.status = "merged" /\ (Accounted \/ hist.done \/ hist.imported)
    BY <1>0 DEF RecordInv, DocInv
  <2>2. doc'.apply = "completed" => (Accounted \/ hist.done \/ hist.imported)'
    BY <1>1, <1>3, <2>1 DEF Kept
  <2>3. QED
    BY <1>2, <2>2 DEF RecordInv
<1>5. \A x \in tasks' : TaskInv(x)'
  <2> PICK n : n = [NewTask("announce", "start", "webhook", NoSnapshot) EXCEPT !.event = t.event]
    OBVIOUS
  <2>1. /\ n.type = "announce" /\ n.step = "start" /\ n.snap = NoSnapshot
        /\ n.found = NoDoc /\ n.args = NoArgs
    BY DEF NewTask
  <2>2. tasks' = (tasks \ {t}) \cup IF Announces(t) THEN {n} ELSE {}
    BY DEF Save
  <2>3. Announces(t) => EligibleSeen /\ Agreed
    BY StoredInv DEF Announces, CanBeAutomerged, DocInv, AnswersInv, Agreed
  <2>4. EligibleSeen /\ Agreed => TaskInv(n)'
    BY <2>1 DEF TaskInv, AnswersInv, NoArgs, NoSnapshot, Kept
  <2>5. QED
    BY <2>2, <2>3, <2>4, TaskKept DEF IInv
<1>6. QED
  BY <1>1, <1>4, <1>5, GitHubKept, EffectsKept DEF IInv

\* The comment on eligibility is posted on the evidence of the task's record.
LEMMA AnnounceInv ==
    ASSUME IInv, NEW t \in tasks, TypeOK', Kept, LookForComment(t) \/ AddComment(t)
    PROVE  IInv'
<1>0. t \in Task /\ TaskInv(t) /\ EffectsInv
  BY DEF IInv, TypeOK
<1>1. CASE LookForComment(t)
  <2>1. PICK n : n = [t EXCEPT !.step = "act"]
    OBVIOUS
  <2>2. n.type = t.type /\ n.snap = t.snap /\ n.found = t.found /\ n.args = t.args
    BY <1>0, <2>1 DEF Task
  <2>3. TaskInv(n)
    BY <1>0, <1>1, <2>2 DEF TaskInv, LookForComment
  <2>4. Becomes(t, n) \/ Ends(t)
    BY <1>1, <2>1 DEF LookForComment
  <2>5. QED
    BY <1>1, <2>3, <2>4, TaskKept, BecomesInv, EndsInv, LocalStep DEF LookForComment
<1>2. CASE AddComment(t)
  <2>1. EligibleSeen' /\ Agreed'
    BY <1>0, <1>2 DEF TaskInv, AddComment, Kept
  <2>2. EffectsInv'
    BY <1>0, <1>2, <2>1 DEF EffectsInv, AddComment, Kept
  <2>3. QED
    BY <1>2, <2>2, EndsInv, GitHubKept, RecordKept DEF AddComment, IInv
<1>3. QED
  BY <1>1, <1>2

\* The merge by the bot: its evidence is in the record, and the head it merges
\* becomes the merge commit.
LEMMA MergeInv ==
    ASSUME IInv, NEW t \in tasks, TypeOK', Kept, CheckMerge(t) \/ MergeByTask(t)
    PROVE  IInv'
<1>0. /\ t \in Task /\ TaskInv(t) /\ EffectsInv /\ GitHubInv /\ RecordInv
      /\ gh \in PullRequest /\ live \subseteq Heads
      /\ hist \in [checked : SUBSET Heads, approved : BOOLEAN,
                   mergedBy : {"none", "user", "bot"}, full : SUBSET Heads,
                   done : BOOLEAN, imported : BOOLEAN, quiet : BOOLEAN, failed : BOOLEAN]
  BY DEF IInv, TypeOK, PullRequest
<1>1. CASE CheckMerge(t)
  <2> DEFINE Ok == doc # NoDoc /\ CanBeAutomerged(doc) /\ MayMerge(t.by)
  <2>1. PICK n : n = [t EXCEPT !.step = "act"]
    OBVIOUS
  <2>2. n.type = t.type /\ n.snap = t.snap /\ n.found = t.found /\ n.args = t.args
    BY <1>0, <2>1 DEF Task
  <2>3. Ok => EligibleSeen /\ Agreed
    BY <1>0 DEF RecordInv, DocInv, AnswersInv, CanBeAutomerged, Agreed
  <2>4. Ok => TaskInv(n)
    BY <1>0, <1>1, <2>2, <2>3 DEF TaskInv, CheckMerge
  <2>5. Ok => Becomes(t, n)
    BY <1>1, <2>1 DEF CheckMerge
  <2>6. ~Ok => Ends(t)
    BY <1>1 DEF CheckMerge
  <2> HIDE DEF Ok
  <2>7. QED
    BY <1>1, <2>4, <2>5, <2>6, TaskKept, BecomesInv, EndsInv, LocalStep DEF CheckMerge
<1>2. CASE MergeByTask(t) /\ ~Mergeable
  BY <1>2, EndsInv, LocalStep DEF MergeByTask
<1>3. CASE MergeByTask(t) /\ Mergeable
  <2>1. /\ gh'.status = "merged" /\ gh'.merged = gh.head /\ gh'.head = gh.head
        /\ gh'.approved = gh.approved
    BY <1>0, <1>3 DEF MergeByTask, Merged, PullRequest
  <2>2. /\ hist'.checked = hist.checked /\ hist'.approved = hist.approved
        /\ UNCHANGED <<branch, kind, doc, live, announced>>
    BY <1>0, <1>3 DEF MergeByTask
  <2>3. gh.head # 0
    BY <1>0 DEF PullRequest, Heads
  <2>4. GitHubInv'
    BY <1>0, <2>1, <2>2, <2>3 DEF GitHubInv
  <2>5. live = {}
    <3>1. gh.merged = 0
      BY <1>0, <1>3 DEF GitHubInv, Mergeable
    <3>2. QED
      BY <1>0, <3>1 DEF EffectsInv, Heads
  <2>6. EffectsInv'
    BY <1>0, <1>3, <2>2, <2>5 DEF EffectsInv, TaskInv, MergeByTask, Kept
  <2>7. \A x \in OnClosed(Merged) : Fresh(x) /\ Current(x.snap, gh')
    <3>1. gh' = Merged
      BY <1>3 DEF MergeByTask
    <3>2. QED
      BY <2>1, <3>1, EventTasksFresh
  <2>8. \A x \in tasks' : TaskInv(x)'
    BY <1>3, <2>7, DeliverInv DEF MergeByTask
  <2>9. QED
    BY <2>2, <2>4, <2>6, <2>8, RecordKept DEF IInv
<1>4. QED
  BY <1>1, <1>2, <1>3

\* The apply task: it acts on the merge commit only, and says "completed" only if
\* there was nothing to apply or all of it was.
LEMMA ApplyInv ==
    ASSUME IInv, NEW t \in tasks, TypeOK', Kept, CheckApply(t) \/ ApplyChanges(t)
    PROVE  IInv'
<1>0. /\ t \in Task /\ TaskInv(t) /\ EffectsInv /\ GitHubInv /\ RecordInv
      /\ hist \in [checked : SUBSET Heads, approved : BOOLEAN,
                   mergedBy : {"none", "user", "bot"}, full : SUBSET Heads,
                   done : BOOLEAN, imported : BOOLEAN, quiet : BOOLEAN, failed : BOOLEAN]
  BY DEF IInv, TypeOK
<1>1. CASE CheckApply(t)
  <2> DEFINE Ok == /\ doc # NoDoc
                   /\ t.snap.status = "merged"
                   /\ doc.apply # "completed"
                   /\ doc.valid = "yes"
                   /\ t.by = "webhook" \/ IsAdmin(t.by)
  <2>1. PICK n : n = [t EXCEPT !.step = "act", !.found = doc]
    OBVIOUS
  <2>2. /\ n.type = t.type /\ n.snap = t.snap /\ n.found = doc /\ n.args = t.args
        /\ n.step = "act"
    BY <1>0, <2>1 DEF Task
  <2>3. Ok => TaskInv(n)
    BY <1>0, <1>1, <2>2 DEF TaskInv, RecordInv, DocInv, AnswersInv, CheckApply, MayApply
  <2>4. Ok => Becomes(t, n)
    BY <1>1, <2>1 DEF CheckApply, MayApply
  <2>5. ~Ok => Ends(t)
    BY <1>1 DEF CheckApply, MayApply
  <2> HIDE DEF Ok
  <2>6. QED
    BY <1>1, <2>3, <2>4, <2>5, TaskKept, BecomesInv, EndsInv, LocalStep DEF CheckApply, MayApply
<1>2. CASE ApplyChanges(t)
  <2>1. PICK o \in Outcomes(kind[t.snap.head]) :
          /\ live' = live \cup IF o.writes THEN {t.snap.head} ELSE {}
          /\ hist' = [hist EXCEPT !.full = @ \cup IF o.success /\ o.writes
                                                  THEN {t.snap.head} ELSE {}]
          /\ Becomes(t, [t EXCEPT !.step = "save",
                                  !.args.apply = IF o.success /\ t.found.manual # "yes"
                                                 THEN "completed" ELSE "partially_applied"])
    BY <1>2 DEF ApplyChanges, StatusAfter
  <2>2. PICK n : n = [t EXCEPT !.step = "save",
                               !.args.apply = IF o.success /\ t.found.manual # "yes"
                                              THEN "completed" ELSE "partially_applied"]
    OBVIOUS
  <2>3. /\ n.type = t.type /\ n.step = "save" /\ n.snap = t.snap /\ n.found = t.found
        /\ n.args.valid = t.args.valid /\ n.args.supports = t.args.supports
        /\ n.args.author = t.args.author /\ n.args.approved = t.args.approved
        /\ n.args.apply \in {"partially_applied", "completed"}
        /\ n.args.apply = "completed" => o.success
    BY <1>0, <2>2 DEF Task, Args
  <2>4. /\ UNCHANGED <<gh, branch, kind, doc, announced>>
        /\ hist'.full = hist.full \cup IF o.success /\ o.writes THEN {t.snap.head} ELSE {}
        /\ hist'.checked = hist.checked /\ hist'.approved = hist.approved
        /\ hist'.mergedBy = hist.mergedBy
    BY <1>0, <1>2, <2>1 DEF ApplyChanges, StatusAfter
  <2>5. t.snap.head = gh.merged /\ gh.status = "merged" /\ ValidSeen /\ doc # NoDoc
        /\ t.type = "apply"
    BY <1>0, <1>2 DEF TaskInv, ApplyChanges, StatusAfter
  <2>6. o.success /\ kind[t.snap.head] # "invalid" => o.writes
    <3>1. CASE kind[t.snap.head] = "broken"
      BY <2>1, <3>1 DEF Outcomes
    <3>2. CASE kind[t.snap.head] \notin {"invalid", "broken"}
      BY <2>1, <3>2 DEF Outcomes
    <3>3. QED
      BY <3>1, <3>2
  <2>7. n.args.apply = "completed" => Accounted'
    BY <2>3, <2>4, <2>5, <2>6 DEF Accounted
  <2>8. TaskInv(n)'
    BY <1>0, <2>3, <2>4, <2>5, <2>7 DEF TaskInv, AnswersInv, DocInv, Kept
  <2>9. \A x \in tasks' : TaskInv(x)'
    BY <2>1, <2>2, <2>8, BecomesInv
  <2>10. EffectsInv'
    BY <1>0, <2>1, <2>4, <2>5 DEF EffectsInv, Kept
  <2>11. QED
    BY <2>4, <2>9, <2>10, GitHubKept, RecordKept DEF IInv
<1>3. QED
  BY <1>1, <1>2

\* The commands that only change the record.
LEMMA RecordStepInv ==
    ASSUME IInv, NEW t \in tasks, TypeOK', Kept, CheckDone(t) \/ SaveApplyStatus(t)
    PROVE  IInv'
<1>0. /\ t \in Task /\ TaskInv(t) /\ RecordInv
      /\ hist \in [checked : SUBSET Heads, approved : BOOLEAN,
                   mergedBy : {"none", "user", "bot"}, full : SUBSET Heads,
                   done : BOOLEAN, imported : BOOLEAN, quiet : BOOLEAN, failed : BOOLEAN]
  BY DEF IInv, TypeOK
<1>1. CASE CheckDone(t)
  <2> DEFINE Ok == /\ doc # NoDoc
                   /\ doc.status = "merged"
                   /\ doc.apply # "completed"
                   /\ IsAdmin(t.by)
  <2>1. PICK n : n = [t EXCEPT !.step = "save", !.found = doc, !.args.apply = "completed"]
    OBVIOUS
  <2>2. /\ n.type = t.type /\ n.snap = t.snap /\ n.found = doc /\ n.step = "save"
        /\ n.args.valid = t.args.valid /\ n.args.supports = t.args.supports
        /\ n.args.author = t.args.author /\ n.args.approved = t.args.approved
        /\ n.args.apply = "completed"
    BY <1>0, <2>1 DEF Task, Args
  <2>3. Ok => TaskInv(n)
    BY <1>0, <1>1, <2>2 DEF TaskInv, RecordInv, DocInv, AnswersInv, CheckDone, MayComplete
  <2>4. Ok => Becomes(t, n)
    BY <1>1, <2>1 DEF CheckDone, MayComplete
  <2>5. ~Ok => Ends(t)
    BY <1>1 DEF CheckDone, MayComplete
  <2> HIDE DEF Ok
  <2>6. QED
    BY <1>1, <2>3, <2>4, <2>5, TaskKept, BecomesInv, EndsInv, LocalStep DEF CheckDone, MayComplete
<1>2. CASE SaveApplyStatus(t)
  <2>1. /\ doc \in Doc /\ doc # NoDoc /\ doc' = [doc EXCEPT !.apply = t.args.apply]
        /\ t.type \in {"apply", "done"}
        /\ UNCHANGED <<gh, branch, kind, live, announced>>
    BY <1>2, SavedApplyType, NoDocAssumption DEF SaveApplyStatus
  <2>2. /\ doc'.status = doc.status /\ doc'.valid = doc.valid /\ doc'.supports = doc.supports
        /\ doc'.author = doc.author /\ doc'.approved = doc.approved
        /\ doc'.apply = t.args.apply
    BY <2>1 DEF Doc
  <2>3. /\ hist'.checked = hist.checked /\ hist'.approved = hist.approved
        /\ hist'.mergedBy = hist.mergedBy /\ hist'.full = hist.full
        /\ t.type = "done" => hist'.done
    BY <1>0, <1>2 DEF SaveApplyStatus
  <2>4. /\ t.args.apply \in {"partially_applied", "completed"} /\ gh.status = "merged"
        /\ t.type = "apply" /\ t.args.apply = "completed" => Accounted
    BY <1>0, <1>2, <2>1 DEF TaskInv, SaveApplyStatus
  <2>5. DocInv(doc)'
    BY <1>0, <2>1, <2>2, <2>4 DEF RecordInv, DocInv, AnswersInv, Kept
  <2>6. doc'.apply = "completed" => (Accounted \/ hist.done \/ hist.imported)'
    BY <2>1, <2>2, <2>3, <2>4 DEF Kept
  <2>7. RecordInv'
    BY <2>5, <2>6 DEF RecordInv
  <2>8. QED
    BY <1>2, <2>1, <2>3, <2>7, EndsInv, GitHubKept, EffectsKept DEF SaveApplyStatus, IInv
<1>3. QED
  BY <1>1, <1>2

\* Steps of tasks preserve the inductive invariant.
LEMMA TaskStepInv ==
    ASSUME IInv, NEW t \in tasks, TaskStep(t)
    PROVE  IInv'
<1>1. TypeOK' /\ Kept
  BY TaskStepType, TaskStepGrows, GrowsKeeps
<1>2. QED
  BY <1>1, FetchInv, ReadConfigInv, SaveInv, AnnounceInv, MergeInv, ApplyInv, RecordStepInv
     DEF TaskStep

\* A task that dies and a restart only take tasks away.
LEMMA FaultInv ==
    ASSUME IInv, Restart \/ \E t \in tasks : Raise(t)
    PROVE  IInv'
<1>0. /\ TypeOK
      /\ count \in [events : Nat, lost : Nat, restarts : Nat, failures : Nat]
      /\ hist \in [checked : SUBSET Heads, approved : BOOLEAN,
                   mergedBy : {"none", "user", "bot"}, full : SUBSET Heads,
                   done : BOOLEAN, imported : BOOLEAN, quiet : BOOLEAN, failed : BOOLEAN]
  BY DEF IInv, TypeOK
<1>1. Kept
  BY StepGrows, GrowsKeeps DEF Next
<1>2. /\ tasks' \subseteq tasks /\ UNCHANGED <<gh, branch, kind, doc, live, announced>>
      /\ hist'.checked = hist.checked /\ hist'.approved = hist.approved
      /\ hist'.mergedBy = hist.mergedBy
  BY <1>0 DEF Restart, Raise, Ends
<1>3. count' \in [events : Nat, lost : Nat, restarts : Nat, failures : Nat]
  BY <1>0 DEF Restart, Raise
<1>4. hist' \in [checked : SUBSET Heads, approved : BOOLEAN,
                   mergedBy : {"none", "user", "bot"}, full : SUBSET Heads,
                   done : BOOLEAN, imported : BOOLEAN, quiet : BOOLEAN, failed : BOOLEAN]
  BY <1>0 DEF Restart, Raise
<1>5. TypeOK'
  BY <1>0, <1>2, <1>3, <1>4 DEF TypeOK
<1>6. \A x \in tasks' : TaskInv(x)'
  BY <1>1, <1>2, TaskKept DEF IInv
<1>7. QED
  BY <1>1, <1>2, <1>5, <1>6, GitHubKept, RecordKept, EffectsKept DEF IInv

\* The inductive invariant holds initially.
LEMMA InitInv == Init => IInv
<1> SUFFICES ASSUME Init PROVE IInv
  OBVIOUS
<1>1. TypeOK
  BY InitType
<1>2. PICK draft \in BOOLEAN, k \in Kinds :
          /\ gh = [status |-> "open", draft |-> draft, head |-> 1, merged |-> 0,
                   approved |-> FALSE]
          /\ kind = [h \in Heads |-> IF h = 1 THEN k ELSE "none"]
  BY DEF Init
<1>3. hist.checked = {} /\ hist.mergedBy = "none" /\ ~hist.approved
  BY DEF Init
<1>4. GitHubInv
  BY <1>2, <1>3, BoundsAssumption, ChoicesAssumption DEF Init, GitHubInv, Heads
<1>5. RecordInv /\ EffectsInv
  BY <1>3 DEF Init, RecordInv, EffectsInv
<1>6. ASSUME NEW x \in tasks PROVE TaskInv(x)
  <2>1. PICK y \in {Update(gh), Team, Validate(gh)} : x = [y EXCEPT !.event = 0]
    BY DEF Init, OnOpened
  <2>2. /\ x.found = NoDoc /\ x.args = NoArgs /\ x.type \notin {"announce", "apply"}
        /\ x.step \notin {"act", "save"} /\ x.snap.status = "open"
    BY <1>2, <2>1 DEF Update, Team, Validate, NewTask, Snapshot, NoSnapshot
  <2>3. QED
    BY <2>2 DEF TaskInv, AnswersInv, NoArgs
<1>7. QED
  BY <1>1, <1>4, <1>5, <1>6 DEF IInv

\* A step that changes nothing preserves it.
LEMMA StutterInv == IInv /\ UNCHANGED vars => IInv'
<1> SUFFICES ASSUME IInv, UNCHANGED vars PROVE IInv'
  OBVIOUS
<1> USE DEF vars
<1>1. TypeOK' /\ GitHubInv' /\ Kept
  BY DEF IInv, TypeOK, GitHubInv, Kept, ValidSeen, EligibleSeen, Agreed, Accounted
<1>2. \A x \in tasks' : TaskInv(x)'
  BY <1>1, TaskKept DEF IInv
<1>3. QED
  BY <1>1, <1>2, RecordKept, EffectsKept DEF IInv

\* The inductive invariant holds in every state of every behaviour, whatever
\* users, tasks, lost deliveries, exceptions and restarts do.
THEOREM Invariance == Spec => []IInv
<1>1. IInv /\ [Next]_vars => IInv'
  BY UserInv, TaskStepInv, FaultInv, StutterInv DEF Next, Work
<1>2. QED
  BY InitInv, <1>1, PTL DEF Spec

-----------------------------------------------------------------------------
(* The theorems.                                                           *)

\* Every state of the model has the declared types.
THEOREM TypeCorrect == Spec => []TypeOK
<1>1. IInv => TypeOK
  BY DEF IInv
<1>2. QED
  BY Invariance, <1>1, PTL

\* No record says that changes were applied before the pull request is merged,
\* whatever stale copies and snapshots the tasks store.
THEOREM AppliedImpliesMerged == Spec => []CompletedOnlyIfMerged
<1>1. IInv => CompletedOnlyIfMerged
  BY DEF IInv, RecordInv, DocInv, CompletedOnlyIfMerged
<1>2. QED
  BY Invariance, <1>1, PTL

\* Only the merge commit is ever written to the live organization.
THEOREM OnlyMergeCommitIsWritten == Spec => []LiveOnlyFromMergeCommit
<1>1. IInv => LiveOnlyFromMergeCommit
  BY DEF IInv, EffectsInv, LiveOnlyFromMergeCommit
<1>2. QED
  BY Invariance, <1>1, PTL

\* The bot never merges, or offers to, without having validated an eligible commit
\* and without an eligible author or an approval.
THEOREM BotActsOnEvidence == Spec => []BotNeedsEvidence
<1>1. IInv => BotNeedsEvidence
  BY DEF IInv, EffectsInv, BotNeedsEvidence, EligibleSeen, Agreed
<1>2. QED
  BY Invariance, <1>1, PTL

\* Nothing is applied unless some validation of the pull request succeeded.
THEOREM LiveWasValidated == Spec => []LiveNeedsValidation
<1>1. IInv => LiveNeedsValidation
  BY DEF IInv, EffectsInv, LiveNeedsValidation, ValidSeen
<1>2. QED
  BY Invariance, <1>1, PTL

\* A completed record is explained by a full apply of the merge commit, by an
\* admin, by an import, or by a merge commit with nothing to apply.
THEOREM CompletedIsExplained == Spec => []CompletedIsAccountedFor
<1>1. IInv => CompletedIsAccountedFor
  BY DEF IInv, RecordInv, CompletedIsAccountedFor, Accounted
<1>2. QED
  BY Invariance, <1>1, PTL

-----------------------------------------------------------------------------
(* The refinement of MergeThenApply.                                       *)

Recorded == doc # NoDoc /\ doc.apply # "not_applied"

\* Every step merges, writes the merged commit, changes what the record says
\* of a merged pull request, or does none of this.
LEMMA StepRefines ==
    IInv /\ IInv' /\ [Next]_vars => [Promise!Next]_<<gh.merged, live, Recorded>>
<1> SUFFICES ASSUME IInv, IInv', [Next]_vars
             PROVE  [Promise!Next]_<<gh.merged, live, Recorded>>
  OBVIOUS
<1>0. /\ Recorded \in BOOLEAN /\ Recorded' \in BOOLEAN
      /\ gh \in PullRequest /\ GitHubInv /\ EffectsInv /\ EffectsInv'
      /\ (Recorded => gh.status = "merged") /\ (Recorded' => gh'.status = "merged")
  BY DEF IInv, TypeOK, PullRequest, Recorded, RecordInv, DocInv
<1>1. ASSUME gh' = gh, live' = live
      PROVE  [Promise!Next]_<<gh.merged, live, Recorded>>
  BY <1>0, <1>1 DEF Promise!Next, Promise!Record, Recorded, GitHubInv
<1>2. ASSUME gh.status = "open", gh' = Merged, doc' = doc, live' = live
      PROVE  [Promise!Next]_<<gh.merged, live, Recorded>>
  BY <1>0, <1>2 DEF Promise!Next, Promise!Merge, Recorded, GitHubInv, Merged, PullRequest
<1>3. ASSUME gh'.merged = gh.merged, doc' = doc, live' = live
      PROVE  [Promise!Next]_<<gh.merged, live, Recorded>>
  BY <1>3 DEF Recorded
<1>4. CASE User
  <2>1. doc' = doc /\ live' = live
    BY <1>4 DEF User, Push, Close, Reopen, ToggleDraft, Review, MergeByUser, Request
  <2>2. CASE MergeByUser
    BY <1>2, <2>1, <2>2 DEF MergeByUser, Mergeable
  <2>3. CASE Push \/ Close \/ Reopen \/ ToggleDraft \/ Review \/ Request
    <3>1. gh'.merged = gh.merged
      BY <1>0, <2>3 DEF Push, Close, Reopen, ToggleDraft, Review, Request, PullRequest
    <3>2. QED
      BY <1>3, <2>1, <3>1
  <2>4. QED
    BY <1>4, <2>2, <2>3 DEF User
<1>5. ASSUME NEW t \in tasks, TaskStep(t)
      PROVE  [Promise!Next]_<<gh.merged, live, Recorded>>
  <2>1. CASE ApplyChanges(t)
    <3>1. t.snap.head = gh.merged /\ gh.status = "merged"
      BY <2>1 DEF IInv, TaskInv, ApplyChanges, StatusAfter
    <3>2. live' = live \/ live' = live \cup {gh.merged}
      BY <2>1, <3>1 DEF ApplyChanges, StatusAfter
    <3>3. live' = live \/ live' = {gh.merged}
      BY <1>0, <3>2 DEF EffectsInv
    <3>4. gh' = gh /\ doc' = doc /\ gh.merged # 0
      BY <1>0, <2>1, <3>1 DEF ApplyChanges, StatusAfter, GitHubInv
    <3>5. QED
      BY <3>3, <3>4 DEF Promise!Next, Promise!Write, Recorded
  <2>2. CASE MergeByTask(t) /\ Mergeable
    BY <1>2, <2>2 DEF MergeByTask, Mergeable
  <2>3. CASE ~ApplyChanges(t) /\ ~(MergeByTask(t) /\ Mergeable)
    <3>1. gh' = gh /\ live' = live
      BY <1>5, <2>3 DEF TaskStep, FetchPullRequest, FetchAuthor, ReadReviews, ReadConfig,
           Find, Save, LookForComment, AddComment, CheckMerge, MergeByTask, CheckApply, MayApply,
           CheckDone, MayComplete, SaveApplyStatus
    <3>2. QED
      BY <1>1, <3>1
  <2>4. QED
    BY <2>1, <2>2, <2>3
<1>6. CASE Restart \/ \E t \in tasks : Raise(t)
  BY <1>3, <1>6 DEF Restart, Raise
<1>7. CASE UNCHANGED vars
  BY <1>3, <1>7 DEF vars
<1>8. QED
  BY <1>4, <1>5, <1>6, <1>7 DEF Next, Work

\* The bot's tasks keep the promise of MergeThenApply.
THEOREM Refinement == Spec => ImplementsMergeThenApply
<1>1. Init => Promise!Init
  BY DEF Init, Promise!Init
<1>2. IInv /\ IInv' /\ [Next]_vars => [Promise!Next]_Promise!vars
  BY StepRefines DEF Promise!vars, Recorded
<1>3. QED
  BY <1>1, <1>2, Invariance, PTL DEF Spec, Promise!Spec, ImplementsMergeThenApply
=============================================================================
