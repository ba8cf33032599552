------------------------ MODULE ConfigHistory_proofs ------------------------
(***************************************************************************)
(* Proofs about ConfigHistory, for any number of pull requests, settings,  *)
(* repeats and failures.  The type invariant holds however pull requests   *)
(* are merged, the refinement of LiveFollowsHistory without merge commits, *)
(* and the rest if each pull request becomes a single commit: with more of *)
(* them an apply misses some of the changes.                               *)
(***************************************************************************)
EXTENDS ConfigHistory, TLAPS

\* Every pull request is merged as a single commit.
OneCommitEach == Methods \subseteq {"squash"}

IsMerged(p) == prs[p].merged # 0
Edits(p) == Edited(prs[p].edit)

\* Of the pull requests that are merged and change a setting, the one merged last.
IsLastOf(p, s) ==
    /\ IsMerged(p) /\ s \in Edits(p)
    /\ \A q \in Prs : IsMerged(q) /\ s \in Edits(q) => prs[q].merged <= prs[p].merged

-----------------------------------------------------------------------------
(* The parts of the inductive invariants.                                  *)

\* A merge adds to a history that has begun.
PlaceInv ==
    /\ \A p \in Prs : IsMerged(p) => prs[p].merged \in 2 .. Len(main)
    /\ \A t \in tasks : IsMerged(t.pr)

\* Without merge commits, what is still to be written is what a merge has changed.
ParentInv ==
    /\ \A n \in 1 .. Len(main) : main[n].parents = 1
    /\ \A t \in tasks : t.todo \subseteq Differences(main[prs[t.pr].merged].config,
                                                     main[prs[t.pr].merged - 1].config)

\* An open pull request differs from its base wherever it changes something, and a
\* merged one from the commit before; nothing is written, or on record, before the merge.
PrInv ==
    \A p \in Prs :
        LET pr == prs[p] IN
        /\ pr.base # 0 => /\ pr.base \in 1 .. Len(main)
                          /\ \A s \in Edits(p) : pr.edit[s] # main[pr.base].config[s]
        /\ pr.merged = 0 => pr.apply = "not_applied" /\ hist.written[p] = {}
        /\ pr.merged # 0 =>
             /\ pr.base # 0
             /\ main[pr.merged].config = Merged(pr.edit, main[pr.merged - 1].config)
             /\ \A s \in Edits(p) : pr.edit[s] # main[pr.merged - 1].config[s]
             /\ \A q \in Prs : prs[q].merged = pr.merged => q = p

\* What a pull request changes is written, or still to be written, or has failed.
TodoInv ==
    \A t \in tasks :
        /\ t.step \in {"write", "save"} /\ ~t.failed => Edits(t.pr) \subseteq hist.written[t.pr] \cup t.todo
        /\ t.step = "save" => t.todo = {}

\* The head of the default branch has each setting as it was changed last.
HeadInv ==
    /\ \A p \in Prs, s \in Settings : IsLastOf(p, s) => HeadConfig[s] = prs[p].edit[s]
    /\ \A s \in Settings :
          \/ \E p \in Prs : IsLastOf(p, s)
          \/ live[s] = HeadConfig[s] /\ \A p \in Prs : IsMerged(p) => s \notin Edits(p)

\* A setting that one merged pull request changes is only written by that one.
ContestInv ==
    \A p \in Prs : \A s \in hist.written[p] :
        \/ live[s] = prs[p].edit[s]
        \/ \E q \in Prs \ {p} : IsMerged(q) /\ s \in Edits(q)

\* As long as applies are orderly, one pull request is applied at a time, nothing of
\* a later one has been written then, and what was changed last is live.
Applying(t) == t.step \in {"plan", "write", "save"}

OneAtATime ==
    /\ \A t, u \in tasks : Applying(t) /\ Applying(u) => t.pr = u.pr
    /\ \A t \in tasks, q \in Prs :
          Applying(t) /\ prs[q].merged > prs[t.pr].merged => hist.written[q] = {}

LastIsLive == \A p \in Prs : \A s \in hist.written[p] : IsLastOf(p, s) => live[s] = prs[p].edit[s]

OrderInv == hist.orderly => OneAtATime /\ LastIsLive

IInv == TypeOK /\ PlaceInv
LinearInv == IInv /\ ParentInv
SingleInv == LinearInv /\ PrInv /\ TodoInv /\ CompletedWasWritten /\ HeadInv /\ ContestInv /\ OrderInv

-----------------------------------------------------------------------------
(* Commits.                                                                *)

\* A merge keeps the values of the settings within their type.
LEMMA MergedType ==
    ASSUME NEW edit \in Edit, NEW config \in Config
    PROVE  Merged(edit, config) \in Config
BY DEF Merged, Edit, Config

\* What a merge adds to the default branch.
LEMMA CommitsType ==
    ASSUME IInv, NEW p \in Prs, NEW method \in Method, NEW commits \in Commits(p, method)
    PROVE  /\ commits \in Seq(Commit) /\ Len(commits) \in 1 .. 2
           /\ commits[Len(commits)].config = Merged(prs[p].edit, HeadConfig)
           /\ method # "merge" => \A n \in 1 .. Len(commits) : commits[n].parents = 1
           /\ method = "squash" => Len(commits) = 1
<1> DEFINE last == Merged(prs[p].edit, HeadConfig)
           squash == <<[config |-> last, parents |-> 1]>>
           partial(S) == [s \in Settings |-> IF s \in S THEN last[s] ELSE HeadConfig[s]]
<1>1. HeadConfig \in Config /\ last \in Config
  <2>1. main \in Seq(Commit) /\ Len(main) \in 1 .. Len(main) /\ prs[p].edit \in Edit
    BY DEF IInv, TypeOK, Pr
  <2>2. main[Len(main)] \in Commit
    BY <2>1
  <2>3. HeadConfig \in Config
    BY <2>2 DEF HeadConfig, Commit
  <2>4. QED
    BY <2>1, <2>3, MergedType
<1>2. \A S \in SUBSET Settings : partial(S) \in Config
  BY <1>1 DEF Config
<1> HIDE DEF last, partial
<1>3. CASE method = "squash"
  <2>1. commits = squash
    BY <1>3 DEF Commits, last, partial
  <2>2. QED
    BY <1>1, <1>3, <2>1 DEF Commit, last
<1>4. CASE method = "merge"
  <2>1. commits = <<[config |-> last, parents |-> 2]>>
    BY <1>4 DEF Commits, last, partial
  <2>2. QED
    BY <1>1, <1>4, <2>1 DEF Commit, last
<1>5. CASE method = "rebase"
  <2>1. \/ commits = squash
        \/ \E S \in SUBSET Settings : commits = <<[config |-> partial(S), parents |-> 1]>> \o squash
    BY <1>5 DEF Commits, last, partial
  <2>2. CASE commits = squash
    BY <1>1, <1>5, <2>2 DEF Commit, last
  <2>3. ASSUME NEW S \in SUBSET Settings,
               commits = <<[config |-> partial(S), parents |-> 1]>> \o squash
        PROVE  /\ commits \in Seq(Commit) /\ Len(commits) = 2
               /\ \A n \in 1 .. 2 : commits[n].parents = 1
               /\ commits[2].config = last
    BY <1>1, <1>2, <2>3 DEF Commit
  <2>4. ASSUME NEW S \in SUBSET Settings,
               commits = <<[config |-> partial(S), parents |-> 1]>> \o squash
        PROVE  /\ commits \in Seq(Commit) /\ Len(commits) \in 1 .. 2
               /\ commits[Len(commits)].config = last
               /\ \A n \in 1 .. Len(commits) : commits[n].parents = 1
    BY <2>3, <2>4
  <2>5. QED
    BY <1>5, <2>1, <2>2, <2>4 DEF last
<1>6. QED
  BY <1>3, <1>4, <1>5 DEF Method

\* A merge leaves the history as it was, and ends it with what the pull request wants.
LEMMA MergeGrows ==
    ASSUME IInv, NEW p \in Prs, Merge(p)
    PROVE  /\ main' \in Seq(Commit)
           /\ Len(main') - Len(main) \in 1 .. 2
           /\ \A n \in 1 .. Len(main) : main'[n] = main[n]
           /\ main'[Len(main')].config = Merged(prs[p].edit, HeadConfig)
           /\ prs' = [prs EXCEPT ![p].merged = Len(main')]
           /\ "merge" \notin Methods =>
                 \A n \in Len(main) + 1 .. Len(main') : main'[n].parents = 1
           /\ OneCommitEach => Len(main') = Len(main) + 1
<1>1. PICK method \in Methods : \E commits \in Commits(p, method) :
         main' = main \o commits /\ prs' = [prs EXCEPT ![p].merged = Len(main')]
  BY DEF Merge
<1>2. PICK commits \in Commits(p, method) :
         main' = main \o commits /\ prs' = [prs EXCEPT ![p].merged = Len(main')]
  BY <1>1
<1>3. method \in Method
  BY MethodsAssumption
<1>4. /\ commits \in Seq(Commit) /\ Len(commits) \in 1 .. 2
      /\ commits[Len(commits)].config = Merged(prs[p].edit, HeadConfig)
      /\ method # "merge" => \A n \in 1 .. Len(commits) : commits[n].parents = 1
      /\ method = "squash" => Len(commits) = 1
  BY <1>3, CommitsType
<1>5. main \in Seq(Commit)
  BY DEF IInv, TypeOK
<1>6. /\ main' \in Seq(Commit) /\ Len(main') = Len(main) + Len(commits)
      /\ \A n \in 1 .. Len(main) : main'[n] = main[n]
      /\ \A n \in Len(main) + 1 .. Len(main') : main'[n] = commits[n - Len(main)]
  BY <1>2, <1>4, <1>5
<1>7. main'[Len(main')] = commits[Len(commits)]
  <2>1. /\ Len(main') \in Len(main) + 1 .. Len(main')
        /\ Len(main') - Len(main) = Len(commits)
    <3>1. Len(main) \in Nat
      BY <1>5
    <3>2. Len(commits) \in 1 .. 2 /\ Len(main') = Len(main) + Len(commits)
      BY <1>4, <1>6
    <3>3. QED
      BY <3>1, <3>2
  <2>2. QED
    BY <1>6, <2>1
<1>8. "merge" \notin Methods => \A n \in Len(main) + 1 .. Len(main') : main'[n].parents = 1
  BY <1>4, <1>5, <1>6
<1>9. QED
  BY <1>2, <1>4, <1>5, <1>6, <1>7, <1>8 DEF OneCommitEach

-----------------------------------------------------------------------------
(* Types, and that merges come after the first commit.                     *)

\* A task that a merge or a comment starts.
LEMMA NewTaskType ==
    ASSUME TypeOK, NEW p \in Prs
    PROVE  NewTask(p) \in Task
BY DEF TypeOK, NewTask, Task, Steps

\* A task that goes on.
LEMMA TaskTypes ==
    ASSUME NEW t \in Task, NEW todo \in SUBSET Settings, NEW step \in Steps
    PROVE  /\ [t EXCEPT !.step = step] \in Task
           /\ [t EXCEPT !.step = step, !.todo = todo] \in Task
           /\ [t EXCEPT !.todo = todo] \in Task
           /\ [t EXCEPT !.todo = todo, !.failed = TRUE] \in Task
           /\ [t EXCEPT !.step = step].pr = t.pr
           /\ [t EXCEPT !.step = step, !.todo = todo].pr = t.pr
           /\ [t EXCEPT !.todo = todo].pr = t.pr
           /\ [t EXCEPT !.todo = todo, !.failed = TRUE].pr = t.pr
BY DEF Task

\* Steps of the tasks, which leave history and merges alone.
LEMMA TaskStepKeepsPlaces ==
    ASSUME IInv, NEW t \in tasks, TaskStep(t) \/ Die(t)
    PROVE  /\ main' = main
           /\ \A p \in Prs : /\ prs'[p].edit = prs[p].edit
                             /\ prs'[p].base = prs[p].base
                             /\ prs'[p].merged = prs[p].merged
           /\ \A u \in tasks' : u \in tasks \/ u.pr = t.pr
           /\ prs' \in [Prs -> Pr]
           /\ tasks' \subseteq Task
<1> USE DEF TypeOK
<1>1. t \in Task /\ t.pr \in Prs /\ prs \in [Prs -> Pr] /\ tasks \subseteq Task
  BY DEF IInv, Task
<1>2. CASE SaveApplyStatus(t)
  <2>1. StatusAfter(t.failed) \in ApplyStatus
    BY DEF StatusAfter, ApplyStatus
  <2>2. \A p \in Prs : /\ prs'[p] \in Pr
                       /\ prs'[p].edit = prs[p].edit /\ prs'[p].base = prs[p].base
                       /\ prs'[p].merged = prs[p].merged
    BY <1>1, <1>2, <2>1 DEF SaveApplyStatus, Pr
  <2>3. prs' \in [Prs -> Pr]
    BY <1>1, <1>2, <2>2 DEF SaveApplyStatus
  <2>4. QED
    BY <1>1, <1>2, <2>2, <2>3 DEF SaveApplyStatus
<1>3. CASE Die(t)
  BY <1>1, <1>3 DEF Die
<1>4. ASSUME NEW new, new \in Task, new.pr = t.pr, Becomes(t, new), main' = main, prs' = prs
      PROVE  /\ \A u \in tasks' : u \in tasks \/ u.pr = t.pr
             /\ tasks' \subseteq Task
  BY <1>1, <1>4 DEF Becomes
<1>5. CASE CheckApply(t)
  <2>1. CASE tasks' = tasks \ {t}
    BY <1>1, <1>5, <2>1 DEF CheckApply
  <2>2. CASE Becomes(t, [t EXCEPT !.step = "plan"])
    BY <1>1, <1>4, <1>5, <2>2, TaskTypes DEF CheckApply, Steps
  <2>3. QED
    BY <1>5, <2>1, <2>2 DEF CheckApply
<1>6. CASE Plan(t)
  <2>1. PICK todo \in SUBSET Settings : Becomes(t, [t EXCEPT !.step = "write", !.todo = todo])
    BY <1>6 DEF Plan, Differences
  <2>2. QED
    BY <1>1, <1>4, <1>6, <2>1, TaskTypes DEF Plan, Steps
<1>7. CASE Write(t) \/ FailToWrite(t) \/ Written(t)
  <2>1. \A s : t.todo \ {s} \in SUBSET Settings
    BY <1>1 DEF Task
  <2>2. CASE Write(t)
    BY <1>1, <1>4, <2>1, <2>2, TaskTypes DEF Write, Steps
  <2>3. CASE FailToWrite(t)
    BY <1>1, <1>4, <2>1, <2>3, TaskTypes DEF FailToWrite, Steps
  <2>4. CASE Written(t)
    BY <1>1, <1>4, <2>4, TaskTypes DEF Written, Steps
  <2>5. QED
    BY <1>7, <2>2, <2>3, <2>4
<1>9. QED
  BY <1>2, <1>3, <1>5, <1>6, <1>7 DEF TaskStep

\* The configuration of a commit that was merged.
LEMMA MergedConfig ==
    ASSUME IInv, NEW p \in Prs, IsMerged(p)
    PROVE  /\ prs[p].merged \in 2 .. Len(main)
           /\ main[prs[p].merged].config \in Config
           /\ main[prs[p].merged - 1].config \in Config
<1>1. main \in Seq(Commit) /\ prs[p].merged \in 2 .. Len(main)
  BY DEF IInv, TypeOK, PlaceInv
<1>2. prs[p].merged \in 1 .. Len(main) /\ prs[p].merged - 1 \in 1 .. Len(main)
  BY <1>1
<1>3. main[prs[p].merged] \in Commit /\ main[prs[p].merged - 1] \in Commit
  BY <1>1, <1>2
<1>4. QED
  BY <1>1, <1>3 DEF Commit

\* A task keeps the values of everything else within their types.
LEMMA TaskStepKeepsTypes ==
    ASSUME IInv, NEW t \in tasks, TaskStep(t) \/ Die(t)
    PROVE  /\ live' \in Config
           /\ count' \in [started : Nat, retries : Nat, failures : Nat]
           /\ hist' \in [written : [Prs -> SUBSET Settings], orderly : BOOLEAN]
<1>1. /\ t \in Task /\ t.pr \in Prs /\ t.todo \in SUBSET Settings /\ live \in Config
      /\ count \in [started : Nat, retries : Nat, failures : Nat]
      /\ hist \in [written : [Prs -> SUBSET Settings], orderly : BOOLEAN]
      /\ IsMerged(t.pr)
  BY DEF IInv, TypeOK, PlaceInv, Task
<1>2. CASE Write(t)
  <2>1. PICK s \in t.todo :
           /\ live' = [live EXCEPT ![s] = main[prs[t.pr].merged].config[s]]
           /\ hist' = [hist EXCEPT !.written[t.pr] = @ \cup {s}]
    BY <1>2 DEF Write
  <2>2. live' \in Config
    BY <1>1, <2>1, MergedConfig DEF Config
  <2>3. hist' \in [written : [Prs -> SUBSET Settings], orderly : BOOLEAN]
    BY <1>1, <2>1
  <2>4. QED
    BY <1>1, <1>2, <2>2, <2>3 DEF Write
<1>3. CASE CheckApply(t)
  <2>1. (hist.orderly /\ InOrder(t.pr)) \in BOOLEAN
    OBVIOUS
  <2>2. hist' = hist \/ hist' = [hist EXCEPT !.orderly = hist.orderly /\ InOrder(t.pr)]
    BY <1>3 DEF CheckApply
  <2>3. hist' \in [written : [Prs -> SUBSET Settings], orderly : BOOLEAN]
    BY <1>1, <2>1, <2>2
  <2>4. QED
    BY <1>1, <1>3, <2>3 DEF CheckApply
<1>4. CASE FailToWrite(t) \/ Die(t)
  <2>1. count' = [count EXCEPT !.failures = @ + 1] /\ UNCHANGED <<live, hist>>
    BY <1>4 DEF FailToWrite, Die
  <2>2. QED
    BY <1>1, <2>1
<1>5. CASE Plan(t) \/ Written(t) \/ SaveApplyStatus(t)
  BY <1>1, <1>5 DEF Plan, Written, SaveApplyStatus
<1>6. QED
  BY <1>2, <1>3, <1>4, <1>5 DEF TaskStep

\* Merges are numbered by commits that exist.
LEMMA TaskStepKeepsIInv ==
    ASSUME IInv, NEW t \in tasks, TaskStep(t) \/ Die(t)
    PROVE  IInv'
<1>1. TypeOK'
  BY TaskStepKeepsPlaces, TaskStepKeepsTypes DEF IInv, TypeOK
<1>2. PlaceInv'
  <2>1. \A u \in tasks' : u.pr \in Prs /\ IsMerged(u.pr)
    BY TaskStepKeepsPlaces DEF IInv, TypeOK, PlaceInv, Task
  <2>2. QED
    BY <2>1, TaskStepKeepsPlaces DEF IInv, PlaceInv, IsMerged
<1>3. QED
  BY <1>1, <1>2 DEF IInv

LEMMA OpenKeepsIInv ==
    ASSUME IInv, NEW p \in Prs, Open(p)
    PROVE  IInv'
<1>1. PICK e \in Edit : prs' = [prs EXCEPT ![p].edit = e, ![p].base = Len(main)]
  BY DEF Open
<1>2. Len(main) \in Nat /\ prs \in [Prs -> Pr]
  BY DEF IInv, TypeOK
<1>3. \A q \in Prs : prs'[q] \in Pr /\ prs'[q].merged = prs[q].merged
  BY <1>1, <1>2 DEF Pr
<1>4. prs' \in [Prs -> Pr]
  BY <1>1, <1>2, <1>3
<1>5. UNCHANGED <<main, tasks, live, count, hist>>
  BY DEF Open
<1>6. TypeOK'
  BY <1>4, <1>5 DEF IInv, TypeOK
<1>7. PlaceInv'
  BY <1>3, <1>5 DEF IInv, TypeOK, PlaceInv, IsMerged, Task
<1>8. QED
  BY <1>6, <1>7 DEF IInv

LEMMA MergeKeepsIInv ==
    ASSUME IInv, NEW p \in Prs, Merge(p)
    PROVE  IInv'
<1>1. main \in Seq(Commit) /\ Len(main) \in Nat \ {0} /\ prs \in [Prs -> Pr] /\ tasks \subseteq Task
  BY DEF IInv, TypeOK
<1>2. /\ main' \in Seq(Commit) /\ Len(main') - Len(main) \in 1 .. 2 /\ Len(main') \in Nat
      /\ prs' = [prs EXCEPT ![p].merged = Len(main')]
  BY MergeGrows
<1>3. Len(main') >= 2 /\ Len(main) <= Len(main') /\ main' # <<>>
  BY <1>1, <1>2
<1>4. \A q \in Prs : prs'[q] \in Pr /\ (q # p => prs'[q].merged = prs[q].merged)
  BY <1>1, <1>2 DEF Pr
<1>5. prs'[p].merged = Len(main')
  BY <1>1, <1>2 DEF Pr
<1>6. prs' \in [Prs -> Pr]
  BY <1>1, <1>2, <1>4
<1>7. tasks' = tasks \cup {NewTask(p)} /\ NewTask(p) \in Task /\ NewTask(p).pr = p
  BY NewTaskType DEF Merge, NewTask, IInv
<1>8. count' = [count EXCEPT !.started = @ + 1] /\ UNCHANGED <<live, hist>>
  BY DEF Merge
<1>9. TypeOK'
  BY <1>1, <1>2, <1>3, <1>6, <1>7, <1>8 DEF IInv, TypeOK
<1>10. PlaceInv'
  <2>1. \A q \in Prs : IsMerged(q)' => prs'[q].merged \in 2 .. Len(main')
    BY <1>1, <1>2, <1>3, <1>4, <1>5 DEF IInv, PlaceInv, IsMerged
  <2>2. \A t \in tasks' : IsMerged(t.pr)'
    BY <1>1, <1>2, <1>3, <1>4, <1>5, <1>7 DEF IInv, PlaceInv, IsMerged, Task
  <2>3. QED
    BY <2>1, <2>2 DEF PlaceInv
<1>11. QED
  BY <1>9, <1>10 DEF IInv

LEMMA RetryKeepsIInv ==
    ASSUME IInv, NEW p \in Prs, Retry(p)
    PROVE  IInv'
<1>1. tasks' = tasks \cup {NewTask(p)} /\ NewTask(p) \in Task /\ NewTask(p).pr = p
  BY NewTaskType DEF Retry, NewTask, IInv
<1>2. /\ count' = [count EXCEPT !.started = @ + 1, !.retries = @ + 1]
      /\ UNCHANGED <<main, prs, live, hist>> /\ IsMerged(p)
  BY DEF Retry, IsMerged
<1>3. TypeOK'
  <2>1. count' \in [started : Nat, retries : Nat, failures : Nat]
    <3>1. count \in [started : Nat, retries : Nat, failures : Nat]
      BY DEF IInv, TypeOK
    <3>2. count.started + 1 \in Nat /\ count.retries + 1 \in Nat
      BY <3>1
    <3>3. QED
      BY <1>2, <3>1, <3>2
  <2>2. tasks' \subseteq Task
    BY <1>1 DEF IInv, TypeOK
  <2>3. QED
    BY <1>2, <2>1, <2>2 DEF IInv, TypeOK
<1>4. PlaceInv'
  BY <1>1, <1>2 DEF IInv, PlaceInv, IsMerged
<1>5. QED
  BY <1>3, <1>4 DEF IInv

\* The type invariant is inductive together with the places of the merges.
LEMMA IInvHolds == Spec => []IInv
<1>1. Init => IInv
  <2> SUFFICES ASSUME Init PROVE IInv
    OBVIOUS
  <2>1. PICK c \in Config : main = <<[config |-> c, parents |-> 1]>>
    BY DEF Init
  <2>2. main \in Seq(Commit) /\ main # <<>> /\ HeadConfig = c
    BY <2>1 DEF Commit, HeadConfig
  <2>3. prs \in [Prs -> Pr] /\ \A p \in Prs : ~IsMerged(p)
    BY DEF Init, Pr, Edit, ApplyStatus, IsMerged
  <2>4. QED
    BY <2>1, <2>2, <2>3 DEF Init, IInv, TypeOK, PlaceInv
<1>2. IInv /\ [Next]_vars => IInv'
  <2> SUFFICES ASSUME IInv, [Next]_vars PROVE IInv'
    OBVIOUS
  <2>1. CASE UNCHANGED vars
    BY <2>1 DEF vars, IInv, TypeOK, PlaceInv, IsMerged
  <2>2. QED
    BY <2>1, OpenKeepsIInv, MergeKeepsIInv, RetryKeepsIInv, TaskStepKeepsIInv DEF Next
<1>3. QED
  BY <1>1, <1>2, PTL DEF Spec

\* The values of the variables are of their types, however pull requests are merged.
THEOREM TypeCorrect == Spec => []TypeOK
BY IInvHolds, PTL DEF IInv

-----------------------------------------------------------------------------
(* Without merge commits: what is written was changed by the merge.        *)

\* A task that is planned has what its merge has changed still to write, and goes on
\* with less and less of that.
LEMMA TodoShrinks ==
    ASSUME LinearInv, NEW t \in tasks, TaskStep(t) \/ Die(t)
    PROVE  \A u \in tasks' :
              u.todo \subseteq Differences(main[prs[u.pr].merged].config,
                                           main[prs[u.pr].merged - 1].config)
<1> DEFINE Changed(u) == Differences(main[prs[u.pr].merged].config, main[prs[u.pr].merged - 1].config)
<1>1. t \in Task /\ IsMerged(t.pr) /\ \A u \in tasks : u.todo \subseteq Changed(u)
  BY DEF LinearInv, ParentInv, IInv, TypeOK, PlaceInv
<1> SUFFICES \A u \in tasks' : u.todo \subseteq Changed(u)
  OBVIOUS
<1>2. ASSUME NEW new, Becomes(t, new), new.todo \subseteq Changed(new)
      PROVE  \A u \in tasks' : u.todo \subseteq Changed(u)
  BY <1>1, <1>2 DEF Becomes
<1>3. CASE Plan(t)
  <2>1. t.pr \in Prs /\ prs[t.pr].merged \in 1 .. Len(main)
    BY <1>1, MergedConfig DEF LinearInv, Task
  <2>2. BaseOf(t.pr) = prs[t.pr].merged - 1
    BY <2>1 DEF LinearInv, ParentInv, BaseOf
  <2>3. Becomes(t, [t EXCEPT !.step = "write", !.todo = Changed(t)])
    BY <1>3, <2>2 DEF Plan
  <2>4. /\ [t EXCEPT !.step = "write", !.todo = Changed(t)].todo = Changed(t)
        /\ [t EXCEPT !.step = "write", !.todo = Changed(t)].pr = t.pr
    BY <1>1 DEF Task
  <2> HIDE DEF Changed
  <2>5. Changed([t EXCEPT !.step = "write", !.todo = Changed(t)]) = Changed(t)
    BY <2>4 DEF Changed
  <2>6. QED
    BY <1>2, <2>3, <2>4, <2>5
<1>4. ASSUME NEW new, Becomes(t, new), new.pr = t.pr, new.todo \subseteq t.todo
      PROVE  \A u \in tasks' : u.todo \subseteq Changed(u)
  <2>1. Changed(new) = Changed(t)
    BY <1>4
  <2> HIDE DEF Changed
  <2>2. QED
    BY <1>1, <1>2, <1>4, <2>1
<1> HIDE DEF Changed
<1>5. CASE CheckApply(t)
  <2>1. [t EXCEPT !.step = "plan"].pr = t.pr /\ [t EXCEPT !.step = "plan"].todo = t.todo
    BY <1>1 DEF Task
  <2>2. QED
    BY <1>1, <1>4, <1>5, <2>1 DEF CheckApply
<1>6. CASE Written(t)
  <2>1. [t EXCEPT !.step = "save"].pr = t.pr /\ [t EXCEPT !.step = "save"].todo = t.todo
    BY <1>1 DEF Task
  <2>2. QED
    BY <1>1, <1>4, <1>6, <2>1 DEF Written
<1>7. CASE Write(t)
  <2>1. PICK s \in t.todo : Becomes(t, [t EXCEPT !.todo = @ \ {s}])
    BY <1>7 DEF Write
  <2>2. [t EXCEPT !.todo = @ \ {s}].pr = t.pr /\ [t EXCEPT !.todo = @ \ {s}].todo = t.todo \ {s}
    BY <1>1 DEF Task
  <2>3. QED
    BY <1>4, <2>1, <2>2
<1>8. CASE FailToWrite(t)
  <2>1. PICK s \in t.todo : Becomes(t, [t EXCEPT !.todo = @ \ {s}, !.failed = TRUE])
    BY <1>8 DEF FailToWrite
  <2>2. /\ [t EXCEPT !.todo = @ \ {s}, !.failed = TRUE].pr = t.pr
        /\ [t EXCEPT !.todo = @ \ {s}, !.failed = TRUE].todo = t.todo \ {s}
    BY <1>1 DEF Task
  <2>3. QED
    BY <1>4, <2>1, <2>2
<1>9. CASE SaveApplyStatus(t) \/ Die(t)
  BY <1>1, <1>9 DEF SaveApplyStatus, Die
<1>10. QED
  BY <1>3, <1>5, <1>6, <1>7, <1>8, <1>9 DEF TaskStep

\* A merge leaves alone what earlier merges have changed.
LEMMA MergeKeepsEarlier ==
    ASSUME IInv, NEW p \in Prs, Merge(p), NEW q \in Prs, IsMerged(q)
    PROVE  /\ q # p
           /\ prs'[q] = prs[q]
           /\ main'[prs[q].merged] = main[prs[q].merged]
           /\ main'[prs[q].merged - 1] = main[prs[q].merged - 1]
<1>1. q # p
  BY DEF Merge, Mergeable, IsMerged
<1>2. prs[q].merged \in 1 .. Len(main) /\ prs[q].merged - 1 \in 1 .. Len(main)
  BY MergedConfig DEF IInv, TypeOK
<1>3. QED
  BY <1>1, <1>2, MergeGrows DEF IInv, TypeOK

LEMMA NextKeepsParents ==
    ASSUME "merge" \notin Methods, LinearInv, Next
    PROVE  ParentInv'
<1>1. CASE \E p \in Prs : Open(p)
  <2>1. PICK p \in Prs, e \in Edit : prs' = [prs EXCEPT ![p].edit = e, ![p].base = Len(main)]
    BY <1>1 DEF Open
  <2>2. \A q \in Prs : prs'[q].merged = prs[q].merged
    BY <2>1 DEF LinearInv, IInv, TypeOK, Pr
  <2>3. main' = main /\ tasks' = tasks
    BY <1>1 DEF Open
  <2>4. \A t \in tasks : t.pr \in Prs
    BY DEF LinearInv, IInv, TypeOK, Task
  <2>5. QED
    BY <2>2, <2>3, <2>4 DEF LinearInv, ParentInv
<1>2. ASSUME NEW p \in Prs, Merge(p)
      PROVE  ParentInv'
  <2>1. main \in Seq(Commit) /\ Len(main) \in Nat /\ Len(main') \in Nat
    BY <1>2, MergeGrows DEF LinearInv, IInv, TypeOK
  <2>2. /\ \A n \in 1 .. Len(main) : main'[n] = main[n]
        /\ \A n \in Len(main) + 1 .. Len(main') : main'[n].parents = 1
        /\ \A n \in 1 .. Len(main) : main[n].parents = 1
    BY <1>2, MergeGrows DEF LinearInv, ParentInv
  <2>3. \A n \in 1 .. Len(main') : n \in 1 .. Len(main) \/ n \in Len(main) + 1 .. Len(main')
    BY <2>1
  <2>4. \A n \in 1 .. Len(main') : main'[n].parents = 1
    BY <2>2, <2>3
  <2>5. tasks' = tasks \cup {NewTask(p)} /\ NewTask(p).todo = {}
    BY <1>2 DEF Merge, NewTask
  <2>6. ASSUME NEW t \in tasks
        PROVE  t.todo \subseteq Differences(main'[prs'[t.pr].merged].config,
                                            main'[prs'[t.pr].merged - 1].config)
    <3>1. t.pr \in Prs /\ IsMerged(t.pr)
      BY DEF LinearInv, IInv, TypeOK, PlaceInv, Task
    <3>2. QED
      BY <1>2, <3>1, MergeKeepsEarlier DEF LinearInv, ParentInv
  <2>7. QED
    BY <2>4, <2>5, <2>6 DEF ParentInv, Differences
<1>3. CASE \E p \in Prs : Retry(p)
  <2>1. PICK p \in Prs : tasks' = tasks \cup {NewTask(p)} /\ UNCHANGED <<main, prs>>
    BY <1>3 DEF Retry
  <2>2. NewTask(p).todo = {}
    BY DEF NewTask
  <2>3. QED
    BY <2>1, <2>2 DEF LinearInv, ParentInv
<1>4. ASSUME NEW t \in tasks, TaskStep(t) \/ Die(t)
      PROVE  ParentInv'
  <2>1. main' = main /\ \A u \in tasks' : u.pr \in Prs /\ prs'[u.pr].merged = prs[u.pr].merged
    BY <1>4, TaskStepKeepsPlaces DEF LinearInv, IInv, TypeOK, Task
  <2>2. QED
    BY <1>4, <2>1, TodoShrinks DEF LinearInv, ParentInv
<1>5. QED
  BY <1>1, <1>2, <1>3, <1>4 DEF Next

LEMMA LinearInvHolds ==
    ASSUME "merge" \notin Methods
    PROVE  Spec => []LinearInv
<1>1. Init /\ IInv => LinearInv
  <2> SUFFICES ASSUME Init, IInv PROVE ParentInv
    BY DEF LinearInv
  <2>1. PICK c \in Config : main = <<[config |-> c, parents |-> 1]>>
    BY DEF Init
  <2>2. QED
    BY <2>1 DEF Init, ParentInv
<1>2. LinearInv /\ IInv' /\ [Next]_vars => LinearInv'
  <2> SUFFICES ASSUME LinearInv, IInv', [Next]_vars PROVE ParentInv'
    BY DEF LinearInv
  <2>1. CASE UNCHANGED vars
    BY <2>1 DEF vars, LinearInv, ParentInv
  <2>2. QED
    BY <2>1, NextKeepsParents
<1>3. QED
  BY <1>1, <1>2, IInvHolds, PTL DEF Spec

-----------------------------------------------------------------------------
(* The refinement of LiveFollowsHistory.                                   *)

\* The history as the abstract specification sees it.
HistoryOf == [n \in 1 .. Len(main) |-> main[n].config]

LEMMA HistoryType ==
    ASSUME main \in Seq(Commit)
    PROVE  /\ HistoryOf \in Seq(Config) /\ Len(HistoryOf) = Len(main)
           /\ \A n \in 1 .. Len(main) : HistoryOf[n] = main[n].config
<1>1. Len(main) \in Nat /\ \A n \in 1 .. Len(main) : main[n].config \in Config
  <2>1. Len(main) \in Nat /\ \A n \in 1 .. Len(main) : main[n] \in Commit
    OBVIOUS
  <2>2. QED
    BY <2>1 DEF Commit
<1>2. HistoryOf \in [1 .. Len(main) -> Config]
  BY <1>1 DEF HistoryOf
<1>3. QED
  BY <1>1, <1>2 DEF HistoryOf

\* A merge makes the history longer by one commit or two.
LEMMA MergeGrowsHistory ==
    ASSUME IInv, IInv', NEW p \in Prs, Merge(p)
    PROVE  /\ \E n \in 1 .. 2 : Len(HistoryOf') = Len(HistoryOf) + n
           /\ SubSeq(HistoryOf', 1, Len(HistoryOf)) = HistoryOf
           /\ live' = live
<1>1. /\ main \in Seq(Commit) /\ main' \in Seq(Commit)
      /\ Len(main) \in Nat /\ Len(main') \in Nat /\ Len(main') - Len(main) \in 1 .. 2
      /\ \A n \in 1 .. Len(main) : main'[n] = main[n]
  BY MergeGrows DEF IInv, TypeOK
<1>2. /\ HistoryOf \in Seq(Config) /\ Len(HistoryOf) = Len(main)
      /\ \A n \in 1 .. Len(main) : HistoryOf[n] = main[n].config
  BY <1>1, HistoryType
<1>3. /\ HistoryOf' \in Seq(Config) /\ Len(HistoryOf') = Len(main')
      /\ \A n \in 1 .. Len(main') : HistoryOf'[n] = main'[n].config
  <2>1. Len(main') \in Nat /\ \A n \in 1 .. Len(main') : main'[n].config \in Config
    <3>1. Len(main') \in Nat /\ \A n \in 1 .. Len(main') : main'[n] \in Commit
      BY <1>1
    <3>2. QED
      BY <3>1 DEF Commit
  <2>2. HistoryOf' = [n \in 1 .. Len(main') |-> main'[n].config]
    BY DEF HistoryOf
  <2>3. HistoryOf' \in [1 .. Len(main') -> Config]
    BY <2>1, <2>2
  <2>4. QED
    BY <2>1, <2>2, <2>3
<1>4. \E n \in 1 .. 2 : Len(HistoryOf') = Len(HistoryOf) + n
  <2>1. Len(main') = Len(main) + (Len(main') - Len(main))
    BY <1>1
  <2>2. QED
    BY <1>1, <1>2, <1>3, <2>1
<1>5. SubSeq(HistoryOf', 1, Len(HistoryOf)) = HistoryOf
  <2>1. Len(main) <= Len(main') /\ \A n \in 1 .. Len(main) : n \in 1 .. Len(main')
    BY <1>1
  <2>2. \A n \in 1 .. Len(main) : HistoryOf'[n] = HistoryOf[n]
    BY <1>1, <1>2, <1>3, <2>1
  <2>3. /\ SubSeq(HistoryOf', 1, Len(main)) \in Seq(Config)
        /\ Len(SubSeq(HistoryOf', 1, Len(main))) = Len(main)
        /\ \A n \in 1 .. Len(main) : SubSeq(HistoryOf', 1, Len(main))[n] = HistoryOf'[n]
    BY <1>1, <1>3, <2>1
  <2>4. QED
    BY <1>2, <2>2, <2>3
<1>6. QED
  BY <1>4, <1>5 DEF Merge

\* An apply writes what some merge has changed.
LEMMA WriteFollowsHistory ==
    ASSUME LinearInv, NEW t \in tasks, Write(t)
    PROVE  Abstract!Write
<1>1. /\ main \in Seq(Commit) /\ t.pr \in Prs /\ IsMerged(t.pr) /\ t.todo \subseteq Settings
      /\ t.todo \subseteq Differences(main[prs[t.pr].merged].config, main[prs[t.pr].merged - 1].config)
  BY DEF LinearInv, IInv, TypeOK, PlaceInv, ParentInv, Task
<1>2. PICK s \in t.todo : live' = [live EXCEPT ![s] = main[prs[t.pr].merged].config[s]]
  BY DEF Write
<1> DEFINE n == prs[t.pr].merged
<1>3. n \in 2 .. Len(main)
  BY <1>1, MergedConfig DEF LinearInv
<1>4. n \in 1 .. Len(main) /\ n - 1 \in 1 .. Len(main)
  BY <1>1, <1>3
<1>5. main[n].config[s] # main[n - 1].config[s]
  BY <1>1 DEF Differences
<1>6. Len(HistoryOf) = Len(main) /\ HistoryOf[n] = main[n].config /\ HistoryOf[n - 1] = main[n - 1].config
  BY <1>1, <1>4, HistoryType
<1>7. HistoryOf' = HistoryOf
  BY DEF Write, HistoryOf
<1> HIDE DEF n
<1>8. s \in Settings /\ live' = [live EXCEPT ![s] = HistoryOf[n][s]]
  BY <1>1, <1>2, <1>6 DEF n
<1>9. n \in 1 .. Len(HistoryOf) /\ n \in 2 .. Len(HistoryOf) /\ HistoryOf[n][s] # HistoryOf[n - 1][s]
  BY <1>3, <1>4, <1>5, <1>6 DEF n
<1>10. QED
  BY <1>7, <1>8, <1>9 DEF Abstract!Write, Abstract!ChangedBy, HistoryOf

\* Each step is a step of LiveFollowsHistory, or changes none of its variables.
LEMMA StepRefines ==
    ASSUME LinearInv, IInv', [Next]_vars
    PROVE  [Abstract!Next]_<<HistoryOf, live>>
<1>1. CASE UNCHANGED vars
  BY <1>1 DEF vars, HistoryOf
<1>2. CASE \E p \in Prs : Open(p) \/ Retry(p)
  BY <1>2 DEF Open, Retry, HistoryOf
<1>3. ASSUME NEW p \in Prs, Merge(p)
      PROVE  Abstract!Next
  BY <1>3, MergeGrowsHistory DEF LinearInv, Abstract!Next, Abstract!Grow, HistoryOf
<1>4. ASSUME NEW t \in tasks, TaskStep(t) \/ Die(t)
      PROVE  Abstract!Next \/ UNCHANGED <<HistoryOf, live>>
  <2>1. CASE Write(t)
    BY <2>1, WriteFollowsHistory DEF Abstract!Next
  <2>2. CASE ~Write(t)
    BY <1>4, <2>2 DEF TaskStep, CheckApply, Plan, FailToWrite, Written, SaveApplyStatus, Die, HistoryOf
  <2>3. QED
    BY <2>1, <2>2
<1>5. QED
  BY <1>1, <1>2, <1>3, <1>4 DEF Next

\* Live settings only take values from commits that changed them, however applies
\* overlap, fail, die and are repeated, unless pull requests are merged by merge
\* commits: then an apply may take the configuration before another merge for its base.
THEOREM Refinement ==
    ASSUME "merge" \notin Methods
    PROVE  Spec => ImplementsLiveFollowsHistory
<1>1. Init => Abstract!Init
  <2> SUFFICES ASSUME Init PROVE Abstract!Init
    OBVIOUS
  <2>1. PICK c \in Config : main = <<[config |-> c, parents |-> 1]>>
    BY DEF Init
  <2>2. Len(main) = 1 /\ main[1].config = c
    BY <2>1
  <2>3. HistoryOf = <<c>> /\ live = c
    BY <2>1, <2>2 DEF HistoryOf, Init, HeadConfig
  <2>4. QED
    BY <2>3 DEF Abstract!Init, HistoryOf
<1>2. LinearInv /\ IInv' /\ [Next]_vars => [Abstract!Next]_Abstract!vars
  BY StepRefines DEF Abstract!vars, HistoryOf
<1>3. QED
  BY <1>1, <1>2, LinearInvHolds, IInvHolds, PTL DEF Spec, Abstract!Spec, ImplementsLiveFollowsHistory

-----------------------------------------------------------------------------
(* With a single commit for each pull request: the whole invariant.        *)

\* What the steps of this section have to preserve, besides LinearInv.
LinkInv == PrInv /\ TodoInv /\ CompletedWasWritten
SettledInv == HeadInv /\ ContestInv /\ OrderInv

\* The commit of a merge differs from the one before in what the pull request changes.
LEMMA DifferencesAreEdits ==
    ASSUME SingleInv, NEW p \in Prs, IsMerged(p)
    PROVE  /\ Differences(main[prs[p].merged].config, main[prs[p].merged - 1].config) = Edits(p)
           /\ \A s \in Edits(p) : main[prs[p].merged].config[s] = prs[p].edit[s]
<1>1. /\ main[prs[p].merged].config = Merged(prs[p].edit, main[prs[p].merged - 1].config)
      /\ \A s \in Edits(p) : prs[p].edit[s] # main[prs[p].merged - 1].config[s]
  BY DEF SingleInv, PrInv, IsMerged
<1>2. \A s \in Settings : main[prs[p].merged].config[s]
                             = IF prs[p].edit[s] = Keep THEN main[prs[p].merged - 1].config[s]
                                                        ELSE prs[p].edit[s]
  BY <1>1 DEF Merged
<1>3. QED
  BY <1>1, <1>2 DEF Differences, Edits, Edited

\* Steps that neither merge nor change what is merged.
LEMMA SameMerges ==
    ASSUME main' = main,
           \A p \in Prs : /\ prs'[p].merged = prs[p].merged
                          /\ IsMerged(p) => prs'[p].edit = prs[p].edit
    PROVE  /\ \A p \in Prs : IsMerged(p)' = IsMerged(p)
           /\ \A p \in Prs : IsMerged(p) => Edits(p)' = Edits(p)
           /\ \A p \in Prs, s \in Settings : IsLastOf(p, s)' <=> IsLastOf(p, s)
           /\ HeadConfig' = HeadConfig
<1>1. \A p \in Prs : IsMerged(p)' = IsMerged(p)
  BY DEF IsMerged
<1>2. \A p \in Prs : IsMerged(p) => Edits(p)' = Edits(p)
  BY DEF Edits
<1>3. \A p \in Prs, s \in Settings : IsLastOf(p, s)' <=> IsLastOf(p, s)
  BY <1>1, <1>2 DEF IsLastOf
<1>4. QED
  BY <1>1, <1>2, <1>3 DEF HeadConfig

\* Such a step that writes nothing either.
LEMMA NothingSettles ==
    ASSUME SingleInv, main' = main, live' = live,
           hist'.written = hist.written, hist'.orderly => hist.orderly,
           \A p \in Prs : /\ prs'[p].merged = prs[p].merged
                          /\ IsMerged(p) => prs'[p].edit = prs[p].edit,
           hist'.orderly => OneAtATime'
    PROVE  SettledInv'
<1>1. \A p \in Prs : hist.written[p] \subseteq Settings
  BY DEF SingleInv, LinearInv, IInv, TypeOK
<1>2. \A p \in Prs, s \in Settings : IsLastOf(p, s)' => IsLastOf(p, s) /\ prs'[p].edit[s] = prs[p].edit[s]
  BY SameMerges DEF IsLastOf
<1>3. HeadInv'
  <2>1. \A p \in Prs, s \in Settings : IsLastOf(p, s)' => HeadConfig'[s] = prs'[p].edit[s]
    BY <1>2, SameMerges DEF SingleInv, HeadInv
  <2>2. ASSUME NEW s \in Settings
        PROVE  \/ \E p \in Prs : IsLastOf(p, s)'
               \/ live'[s] = HeadConfig'[s] /\ \A p \in Prs : IsMerged(p)' => s \notin Edits(p)'
    <3>1. CASE \E p \in Prs : IsLastOf(p, s)
      BY <3>1, SameMerges
    <3>2. CASE live[s] = HeadConfig[s] /\ \A p \in Prs : IsMerged(p) => s \notin Edits(p)
      BY <3>2, SameMerges
    <3>3. QED
      BY <3>1, <3>2 DEF SingleInv, HeadInv
  <2>3. QED
    BY <2>1, <2>2 DEF HeadInv
<1>4. ContestInv'
  <2>1. ASSUME NEW p \in Prs, NEW s \in hist.written[p]
        PROVE  \/ live[s] = prs'[p].edit[s]
               \/ \E q \in Prs \ {p} : IsMerged(q)' /\ s \in Edits(q)'
    <3>1. IsMerged(p)
      BY <2>1 DEF SingleInv, PrInv, IsMerged
    <3>2. QED
      BY <2>1, <3>1, SameMerges DEF SingleInv, ContestInv
  <2>2. QED
    BY <2>1 DEF ContestInv
<1>5. hist'.orderly => LastIsLive'
  BY <1>1, <1>2 DEF SingleInv, OrderInv, LastIsLive
<1>6. QED
  BY <1>3, <1>4, <1>5 DEF SettledInv, OrderInv

\* It still is one pull request at a time if no apply is new.
LEMMA NoneIsNew ==
    ASSUME SingleInv, hist.orderly, hist'.written = hist.written,
           \A p \in Prs : prs'[p].merged = prs[p].merged,
           \A u \in tasks' : Applying(u) => \E t \in tasks : Applying(t) /\ t.pr = u.pr
    PROVE  OneAtATime'
<1>1. \A t \in tasks : t.pr \in Prs
  BY DEF SingleInv, LinearInv, IInv, TypeOK, Task
<1>2. OneAtATime
  BY DEF SingleInv, OrderInv
<1>3. \A t, u \in tasks' : Applying(t) /\ Applying(u) => t.pr = u.pr
  BY <1>2 DEF OneAtATime
<1>4. \A t \in tasks', q \in Prs :
         Applying(t) /\ prs'[q].merged > prs'[t.pr].merged => hist'.written[q] = {}
  BY <1>1, <1>2 DEF OneAtATime
<1>5. QED
  BY <1>3, <1>4 DEF OneAtATime, Applying

\* Open: the pull request differs from the head wherever it changes something.
LEMMA OpenKeepsSingleInv ==
    ASSUME SingleInv, NEW p \in Prs, Open(p)
    PROVE  LinkInv' /\ SettledInv'
<1>1. PICK e \in Edit : /\ \A s \in Settings : e[s] # HeadConfig[s]
                        /\ prs' = [prs EXCEPT ![p].edit = e, ![p].base = Len(main)]
  BY DEF Open
<1>2. /\ prs[p].base = 0 /\ UNCHANGED <<main, tasks, live, count, hist>>
      /\ prs \in [Prs -> Pr] /\ Len(main) \in 1 .. Len(main) /\ Len(main) # 0
  BY DEF Open, SingleInv, LinearInv, IInv, TypeOK
<1>3. prs[p].merged = 0 /\ prs[p].apply = "not_applied" /\ hist.written[p] = {}
  BY <1>2 DEF SingleInv, PrInv
<1>4. \A q \in Prs \ {p} : prs'[q] = prs[q]
  BY <1>1, <1>2
<1>5. /\ prs'[p].edit = e /\ prs'[p].base = Len(main)
      /\ prs'[p].merged = 0 /\ prs'[p].apply = "not_applied"
  BY <1>1, <1>2, <1>3 DEF Pr
<1>6. \A q \in Prs : prs'[q].merged = prs[q].merged /\ (IsMerged(q) => q # p)
  BY <1>3, <1>4, <1>5 DEF IsMerged
<1>7. PrInv'
  <2>1. \A s \in Edits(p)' : prs'[p].edit[s] # main[prs'[p].base].config[s]
    BY <1>1, <1>5 DEF Edits, Edited, HeadConfig
  <2>2. \A q \in Prs \ {p} : Edits(q)' = Edits(q)
    BY <1>4 DEF Edits
  <2>3. QED
    BY <1>2, <1>3, <1>4, <1>5, <1>6, <2>1, <2>2 DEF PrInv, SingleInv
<1>8. TodoInv'
  <2>1. \A t \in tasks : t.pr \in Prs \ {p}
    BY <1>6 DEF SingleInv, LinearInv, IInv, TypeOK, PlaceInv, Task
  <2>2. QED
    BY <1>2, <1>4, <2>1 DEF SingleInv, TodoInv, Edits
<1>9. CompletedWasWritten'
  BY <1>2, <1>4, <1>5 DEF SingleInv, CompletedWasWritten
<1>10. SettledInv'
  <2>1. hist.orderly => OneAtATime'
    BY <1>2, <1>6, NoneIsNew
  <2>2. \A q \in Prs : IsMerged(q) => prs'[q].edit = prs[q].edit
    BY <1>4, <1>6
  <2>3. QED
    BY <1>2, <1>6, <2>1, <2>2, NothingSettles
<1>11. QED
  BY <1>7, <1>8, <1>9, <1>10 DEF LinkInv

\* Retry: a task that has not planned anything is added.
LEMMA RetryKeepsSingleInv ==
    ASSUME SingleInv, NEW p \in Prs, Retry(p)
    PROVE  LinkInv' /\ SettledInv'
<1>1. tasks' = tasks \cup {NewTask(p)} /\ UNCHANGED <<main, prs, live, hist>>
  BY DEF Retry
<1>2. NewTask(p).step = "start"
  BY DEF NewTask
<1>3. LinkInv'
  BY <1>1, <1>2 DEF SingleInv, LinkInv, PrInv, TodoInv, CompletedWasWritten, Edits
<1>4. hist.orderly => OneAtATime'
  BY <1>1, <1>2, NoneIsNew DEF Applying
<1>5. QED
  BY <1>1, <1>3, <1>4, NothingSettles

\* Tasks only write, and put on record, what belongs to merged pull requests.
LEMMA TaskStepKeepsPrInv ==
    ASSUME SingleInv, NEW t \in tasks, TaskStep(t) \/ Die(t)
    PROVE  PrInv'
<1>1. /\ main' = main
      /\ \A p \in Prs : /\ prs'[p].edit = prs[p].edit /\ prs'[p].base = prs[p].base
                        /\ prs'[p].merged = prs[p].merged
  BY TaskStepKeepsPlaces DEF SingleInv, LinearInv
<1>2. /\ t.pr \in Prs /\ prs[t.pr].merged # 0 /\ prs \in [Prs -> Pr]
      /\ hist \in [written : [Prs -> SUBSET Settings], orderly : BOOLEAN]
  BY DEF SingleInv, LinearInv, IInv, TypeOK, PlaceInv, IsMerged, Task
<1>3. ASSUME NEW p \in Prs, p # t.pr
      PROVE  prs'[p].apply = prs[p].apply /\ hist'.written[p] = hist.written[p]
  <2>1. CASE SaveApplyStatus(t)
    BY <1>2, <1>3, <2>1 DEF SaveApplyStatus
  <2>2. CASE Write(t)
    BY <1>2, <1>3, <2>2 DEF Write
  <2>3. CASE CheckApply(t)
    <3>1. hist' = hist \/ hist' = [hist EXCEPT !.orderly = hist.orderly /\ InOrder(t.pr)]
      BY <2>3 DEF CheckApply
    <3>2. hist'.written = hist.written
      BY <1>2, <3>1
    <3>3. QED
      BY <2>3, <3>2 DEF CheckApply
  <2>4. QED
    BY <2>1, <2>2, <2>3 DEF TaskStep, Plan, FailToWrite, Written, Die
<1>4. \A p \in Prs : Edits(p)' = Edits(p)
  BY <1>1 DEF Edits
<1>5. QED
  BY <1>1, <1>2, <1>3, <1>4 DEF SingleInv, PrInv

\* A task whose place is taken by one with more to show for its pull request.
LEMMA ProgressKeepsTodoInv ==
    ASSUME SingleInv, NEW t \in tasks, TaskStep(t) \/ Die(t), NEW new, Becomes(t, new),
           \A p \in Prs : hist.written[p] \subseteq hist'.written[p],
           /\ new.step \in {"write", "save"} /\ ~new.failed
                 => Edits(new.pr) \subseteq hist'.written[new.pr] \cup new.todo
           /\ new.step = "save" => new.todo = {},
           new.pr \in Prs
    PROVE  TodoInv'
<1>1. \A p \in Prs : Edits(p)' = Edits(p)
  BY TaskStepKeepsPlaces DEF SingleInv, LinearInv, Edits
<1>2. \A u \in tasks : u.pr \in Prs
  BY DEF SingleInv, LinearInv, IInv, TypeOK, Task
<1>3. \A u \in tasks' : u = new \/ u \in tasks
  BY DEF Becomes
<1>4. ASSUME NEW u \in tasks', u.step \in {"write", "save"} /\ ~u.failed
      PROVE  Edits(u.pr)' \subseteq hist'.written[u.pr] \cup u.todo
  BY <1>1, <1>2, <1>3, <1>4 DEF SingleInv, TodoInv
<1>5. \A u \in tasks' : u.step = "save" => u.todo = {}
  BY <1>3 DEF SingleInv, TodoInv
<1>6. QED
  BY <1>4, <1>5 DEF TodoInv

LEMMA TaskStepKeepsTodoInv ==
    ASSUME SingleInv, NEW t \in tasks, TaskStep(t) \/ Die(t)
    PROVE  TodoInv'
<1>1. /\ t \in Task /\ t.pr \in Prs /\ IsMerged(t.pr)
      /\ hist \in [written : [Prs -> SUBSET Settings], orderly : BOOLEAN]
      /\ \A p \in Prs : Edits(p)' = Edits(p)
  BY TaskStepKeepsPlaces DEF SingleInv, LinearInv, IInv, TypeOK, PlaceInv, Task, Edits
<1>2. CASE tasks' = tasks \ {t} /\ hist'.written = hist.written
  BY <1>1, <1>2 DEF SingleInv, LinearInv, IInv, TypeOK, Task, TodoInv
<1>3. CASE CheckApply(t)
  <2>1. CASE Becomes(t, [t EXCEPT !.step = "plan"])
    <3>1. hist'.written = hist.written
      <4>1. hist' = hist \/ hist' = [hist EXCEPT !.orderly = hist.orderly /\ InOrder(t.pr)]
        BY <1>3 DEF CheckApply
      <4>2. QED
        BY <1>1, <4>1
    <3>2. [t EXCEPT !.step = "plan"].step = "plan" /\ [t EXCEPT !.step = "plan"].pr = t.pr
      BY <1>1 DEF Task
    <3>3. QED
      BY <1>1, <1>3, <2>1, <3>1, <3>2, ProgressKeepsTodoInv DEF TaskStep
  <2>2. QED
    BY <1>2, <1>3, <2>1 DEF CheckApply
<1>4. CASE Plan(t)
  <2> DEFINE new == [t EXCEPT !.step = "write", !.todo = Edits(t.pr)]
  <2>1. prs[t.pr].merged \in 1 .. Len(main)
    BY <1>1, MergedConfig DEF SingleInv, LinearInv
  <2>2. BaseOf(t.pr) = prs[t.pr].merged - 1
    BY <2>1 DEF SingleInv, LinearInv, ParentInv, BaseOf
  <2>3. Becomes(t, new)
    BY <1>1, <1>4, <2>2, DifferencesAreEdits DEF Plan
  <2>4. new.step = "write" /\ new.pr = t.pr /\ new.todo = Edits(t.pr)
    BY <1>1 DEF Task
  <2>5. hist' = hist
    BY <1>4 DEF Plan
  <2> HIDE DEF new
  <2>6. QED
    BY <1>1, <2>3, <2>4, <2>5, ProgressKeepsTodoInv
<1>5. CASE Write(t)
  <2>1. PICK s \in t.todo : /\ Becomes(t, [t EXCEPT !.todo = @ \ {s}])
                            /\ hist' = [hist EXCEPT !.written[t.pr] = @ \cup {s}]
    BY <1>5 DEF Write
  <2> DEFINE new == [t EXCEPT !.todo = @ \ {s}]
  <2>2. /\ new.step = "write" /\ new.pr = t.pr /\ new.todo = t.todo \ {s} /\ new.failed = t.failed
        /\ t.step = "write"
    BY <1>1, <1>5 DEF Write, Task
  <2>3. /\ hist'.written[t.pr] = hist.written[t.pr] \cup {s}
        /\ \A p \in Prs : hist.written[p] \subseteq hist'.written[p]
    BY <1>1, <2>1
  <2>4. ~t.failed => Edits(t.pr) \subseteq hist.written[t.pr] \cup t.todo
    BY <2>2 DEF SingleInv, TodoInv
  <2>5. ~new.failed => Edits(new.pr) \subseteq hist'.written[new.pr] \cup new.todo
    <3>1. ~new.failed => Edits(t.pr) \subseteq (hist.written[t.pr] \cup {s}) \cup (t.todo \ {s})
      BY <2>2, <2>4
    <3>2. QED
      BY <2>2, <2>3, <3>1
  <2>6. Becomes(t, new)
    BY <2>1
  <2> HIDE DEF new
  <2>7. QED
    BY <1>1, <2>2, <2>3, <2>5, <2>6, ProgressKeepsTodoInv
<1>6. CASE FailToWrite(t)
  <2>1. PICK s \in t.todo : Becomes(t, [t EXCEPT !.todo = @ \ {s}, !.failed = TRUE])
    BY <1>6 DEF FailToWrite
  <2>2. LET new == [t EXCEPT !.todo = @ \ {s}, !.failed = TRUE]
        IN  new.failed /\ new.step = "write" /\ new.pr = t.pr
    BY <1>1, <1>6 DEF FailToWrite, Task
  <2>3. hist' = hist
    BY <1>6 DEF FailToWrite
  <2>4. QED
    BY <1>1, <2>1, <2>2, <2>3, ProgressKeepsTodoInv
<1>7. CASE Written(t)
  <2> DEFINE new == [t EXCEPT !.step = "save"]
  <2>1. new.pr = t.pr /\ new.todo = {} /\ t.todo = {} /\ new.failed = t.failed /\ t.step = "write"
    BY <1>1, <1>7 DEF Written, Task
  <2>2. Becomes(t, new) /\ hist' = hist
    BY <1>7 DEF Written
  <2>3. ~new.failed => Edits(new.pr) \subseteq hist'.written[new.pr] \cup new.todo
    BY <2>1, <2>2 DEF SingleInv, TodoInv
  <2> HIDE DEF new
  <2>4. QED
    BY <1>1, <2>1, <2>2, <2>3, ProgressKeepsTodoInv
<1>8. CASE SaveApplyStatus(t) \/ Die(t)
  BY <1>2, <1>8 DEF SaveApplyStatus, Die
<1>9. QED
  BY <1>3, <1>4, <1>5, <1>6, <1>7, <1>8 DEF TaskStep

\* Only a task with nothing left, and nothing failed, ends with the status completed.
LEMMA TaskStepKeepsCompleted ==
    ASSUME SingleInv, NEW t \in tasks, TaskStep(t) \/ Die(t)
    PROVE  CompletedWasWritten'
<1>1. /\ t \in Task /\ t.pr \in Prs /\ prs \in [Prs -> Pr]
      /\ hist \in [written : [Prs -> SUBSET Settings], orderly : BOOLEAN]
      /\ \A p \in Prs : Edits(p)' = Edits(p)
  BY TaskStepKeepsPlaces DEF SingleInv, LinearInv, IInv, TypeOK, Task, Edits
<1> SUFFICES ASSUME NEW p \in Prs, prs'[p].apply = "completed"
             PROVE  Edits(p) \subseteq hist'.written[p]
  BY <1>1 DEF CompletedWasWritten, Edits
<1>2. prs[p].apply = "completed" => Edits(p) \subseteq hist.written[p]
  BY DEF SingleInv, CompletedWasWritten, Edits
<1>3. CASE SaveApplyStatus(t)
  <2>1. hist' = hist /\ prs' = [prs EXCEPT ![t.pr].apply = StatusAfter(t.failed)] /\ t.step = "save"
    BY <1>3 DEF SaveApplyStatus
  <2>2. CASE p = t.pr
    <3>1. ~t.failed
      BY <1>1, <2>1, <2>2 DEF StatusAfter, Pr
    <3>2. QED
      BY <2>1, <2>2, <3>1 DEF SingleInv, TodoInv
  <2>3. CASE p # t.pr
    BY <1>1, <1>2, <2>1, <2>3
  <2>4. QED
    BY <2>2, <2>3
<1>4. CASE Write(t)
  <2>1. PICK s \in t.todo : hist' = [hist EXCEPT !.written[t.pr] = @ \cup {s}]
    BY <1>4 DEF Write
  <2>2. hist.written[p] \subseteq hist'.written[p]
    BY <1>1, <2>1
  <2>3. QED
    BY <1>2, <1>4, <2>2 DEF Write
<1>5. CASE CheckApply(t)
  <2>1. hist' = hist \/ hist' = [hist EXCEPT !.orderly = hist.orderly /\ InOrder(t.pr)]
    BY <1>5 DEF CheckApply
  <2>2. hist'.written = hist.written
    BY <1>1, <2>1
  <2>3. QED
    BY <1>2, <1>5, <2>2 DEF CheckApply
<1>6. QED
  BY <1>2, <1>3, <1>4, <1>5 DEF TaskStep, Plan, FailToWrite, Written, Die

\* An apply that begins in the order of the merges is the only one.
LEMMA CheckApplySettles ==
    ASSUME SingleInv, NEW t \in tasks, CheckApply(t)
    PROVE  SettledInv'
<1>1. /\ t \in Task /\ t.pr \in Prs /\ prs \in [Prs -> Pr] /\ tasks \subseteq Task
      /\ hist \in [written : [Prs -> SUBSET Settings], orderly : BOOLEAN]
      /\ UNCHANGED <<main, prs, live>>
  BY DEF SingleInv, LinearInv, IInv, TypeOK, Task, CheckApply
<1>2. CASE tasks' = tasks \ {t} /\ hist' = hist
  <2>1. hist.orderly => OneAtATime'
    BY <1>1, <1>2, NoneIsNew
  <2>2. QED
    BY <1>1, <1>2, <2>1, NothingSettles
<1>3. CASE /\ Becomes(t, [t EXCEPT !.step = "plan"])
           /\ hist' = [hist EXCEPT !.orderly = @ /\ InOrder(t.pr)]
  <2>1. hist'.written = hist.written /\ (hist'.orderly => hist.orderly /\ InOrder(t.pr))
    BY <1>1, <1>3
  <2>2. [t EXCEPT !.step = "plan"].pr = t.pr
    BY <1>1 DEF Task
  <2>3. ASSUME hist'.orderly
        PROVE  OneAtATime'
    <3>1. \A u \in tasks' : Applying(u) => u.pr = t.pr
      BY <1>3, <2>1, <2>2, <2>3 DEF Becomes, InOrder, Applying
    <3>2. \A q \in Prs : prs[q].merged \in Nat
      BY <1>1 DEF Pr
    <3>3. \A q \in Prs : prs[q].merged > prs[t.pr].merged => hist.written[q] = {}
      BY <1>1, <2>1, <2>3, <3>2 DEF InOrder
    <3>4. QED
      BY <1>1, <2>1, <3>1, <3>3 DEF OneAtATime, Applying
  <2>4. QED
    BY <1>1, <2>1, <2>3, NothingSettles
<1>4. QED
  BY <1>2, <1>3 DEF CheckApply

\* An apply writes what its pull request changes: if nothing overtook it, then
\* that is what the head has, unless a later one changes the setting, too.
LEMMA WriteSettles ==
    ASSUME SingleInv, NEW t \in tasks, Write(t)
    PROVE  SettledInv'
<1>1. PICK s \in t.todo : /\ live' = [live EXCEPT ![s] = main[prs[t.pr].merged].config[s]]
                          /\ Becomes(t, [t EXCEPT !.todo = @ \ {s}])
                          /\ hist' = [hist EXCEPT !.written[t.pr] = @ \cup {s}]
  BY DEF Write
<1>2. /\ t \in Task /\ t.pr \in Prs /\ prs \in [Prs -> Pr] /\ tasks \subseteq Task
      /\ hist \in [written : [Prs -> SUBSET Settings], orderly : BOOLEAN]
      /\ live \in Config /\ IsMerged(t.pr) /\ t.todo \subseteq Settings /\ t.step = "write"
      /\ UNCHANGED <<main, prs>>
  BY DEF SingleInv, LinearInv, IInv, TypeOK, PlaceInv, Task, Write
<1>3. s \in Settings /\ s \in Edits(t.pr) /\ main[prs[t.pr].merged].config[s] = prs[t.pr].edit[s]
  <2>1. t.todo \subseteq Edits(t.pr)
    BY <1>2, DifferencesAreEdits DEF SingleInv, LinearInv, ParentInv
  <2>2. QED
    BY <1>2, <2>1, DifferencesAreEdits
<1>4. live'[s] = prs[t.pr].edit[s] /\ \A r \in Settings \ {s} : live'[r] = live[r]
  BY <1>1, <1>2, <1>3 DEF Config
<1>5. /\ hist'.orderly = hist.orderly /\ hist'.written[t.pr] = hist.written[t.pr] \cup {s}
      /\ \A p \in Prs \ {t.pr} : hist'.written[p] = hist.written[p]
      /\ \A p \in Prs : hist.written[p] \subseteq Settings
  BY <1>1, <1>2
<1>6. /\ \A p \in Prs : IsMerged(p)' = IsMerged(p) /\ Edits(p)' = Edits(p)
      /\ \A p \in Prs, r \in Settings : IsLastOf(p, r)' <=> IsLastOf(p, r)
      /\ HeadConfig' = HeadConfig
  BY <1>2 DEF IsMerged, Edits, IsLastOf, HeadConfig
<1>7. HeadInv'
  <2>1. \A p \in Prs, r \in Settings : IsLastOf(p, r)' => HeadConfig'[r] = prs'[p].edit[r]
    BY <1>2, <1>6 DEF SingleInv, HeadInv
  <2>2. ASSUME NEW r \in Settings
        PROVE  \/ \E p \in Prs : IsLastOf(p, r)'
               \/ live'[r] = HeadConfig'[r] /\ \A p \in Prs : IsMerged(p)' => r \notin Edits(p)'
    <3>1. \/ \E p \in Prs : IsLastOf(p, r)
          \/ live[r] = HeadConfig[r] /\ \A p \in Prs : IsMerged(p) => r \notin Edits(p)
      BY DEF SingleInv, HeadInv
    <3>2. CASE r = s
      BY <1>2, <1>3, <1>6, <3>1, <3>2
    <3>3. CASE r # s
      BY <1>4, <1>6, <3>1, <3>3
    <3>4. QED
      BY <3>2, <3>3
  <2>3. QED
    BY <2>1, <2>2 DEF HeadInv
<1>8. ContestInv'
  <2>1. ASSUME NEW p \in Prs, NEW r \in hist'.written[p]
        PROVE  \/ live'[r] = prs[p].edit[r]
               \/ \E q \in Prs \ {p} : IsMerged(q) /\ r \in Edits(q)
    <3>1. CASE r = s
      BY <1>2, <1>3, <1>4, <3>1
    <3>2. CASE r # s
      <4>1. r \in hist.written[p] /\ live'[r] = live[r]
        BY <1>4, <1>5, <2>1, <3>2
      <4>2. QED
        BY <4>1 DEF SingleInv, ContestInv
    <3>3. QED
      BY <3>1, <3>2
  <2>2. QED
    BY <1>2, <1>6, <2>1 DEF ContestInv
<1>9. ASSUME hist'.orderly
      PROVE  OneAtATime' /\ LastIsLive'
  <2>1. OneAtATime /\ LastIsLive
    BY <1>5, <1>9 DEF SingleInv, OrderInv
  <2>2. [t EXCEPT !.todo = @ \ {s}].pr = t.pr /\ Applying(t)
    BY <1>2 DEF Task, Applying
  <2>3. \A u \in tasks' : Applying(u) => u.pr = t.pr
    BY <1>1, <2>1, <2>2 DEF Becomes, OneAtATime
  <2>4. \A q \in Prs : prs[q].merged \in Nat /\ (prs[q].merged > prs[t.pr].merged => hist.written[q] = {})
    BY <1>2, <2>1, <2>2 DEF OneAtATime, Pr
  <2>5. \A q \in Prs : prs[q].merged > prs[t.pr].merged => hist'.written[q] = {}
    BY <1>2, <1>5, <2>4
  <2>6. OneAtATime'
    BY <1>2, <2>3, <2>5 DEF OneAtATime, Applying
  <2>7. ASSUME NEW p \in Prs, NEW r \in hist'.written[p], IsLastOf(p, r)
        PROVE  live'[r] = prs[p].edit[r]
    <3>1. CASE r = s /\ p # t.pr
      <4>1. prs[t.pr].merged <= prs[p].merged
        BY <1>2, <1>3, <2>7, <3>1 DEF IsLastOf
      <4>2. prs[t.pr].merged # prs[p].merged
        BY <1>2, <3>1 DEF SingleInv, PrInv, IsMerged
      <4>3. hist.written[p] = {}
        BY <1>2, <2>4, <4>1, <4>2
      <4>4. QED
        BY <1>5, <2>7, <3>1, <4>3
    <3>2. CASE r = s /\ p = t.pr
      BY <1>4, <3>2
    <3>3. CASE r # s
      <4>1. r \in hist.written[p] /\ live'[r] = live[r]
        BY <1>4, <1>5, <2>7, <3>3
      <4>2. QED
        BY <2>1, <2>7, <4>1 DEF LastIsLive
    <3>4. QED
      BY <3>1, <3>2, <3>3
  <2>8. LastIsLive'
    <3>1. \A p \in Prs : \A r \in hist'.written[p] : r \in Settings
      BY <1>3, <1>5
    <3>2. QED
      BY <1>2, <1>6, <2>7, <3>1 DEF LastIsLive
  <2>9. QED
    BY <2>6, <2>8
<1>10. QED
  BY <1>7, <1>8, <1>9 DEF SettledInv, OrderInv

LEMMA TaskStepSettles ==
    ASSUME SingleInv, NEW t \in tasks, TaskStep(t) \/ Die(t)
    PROVE  SettledInv'
<1>1. CASE Write(t) \/ CheckApply(t)
  BY <1>1, WriteSettles, CheckApplySettles
<1>2. ASSUME ~Write(t), ~CheckApply(t)
      PROVE  SettledInv'
  <2>1. /\ main' = main /\ live' = live /\ hist' = hist
        /\ \A p \in Prs : prs'[p].merged = prs[p].merged /\ prs'[p].edit = prs[p].edit
    BY <1>2, TaskStepKeepsPlaces
       DEF SingleInv, LinearInv, TaskStep, Plan, FailToWrite, Written, SaveApplyStatus, Die
  <2>2. \A u \in tasks' : Applying(u) => \E v \in tasks : Applying(v) /\ v.pr = u.pr
    <3>1. t \in Task
      BY DEF SingleInv, LinearInv, IInv, TypeOK
    <3>2. CASE tasks' \subseteq tasks
      BY <3>2
    <3>3. ASSUME NEW new, Becomes(t, new), Applying(t), new.pr = t.pr
          PROVE  \A u \in tasks' : Applying(u) => \E v \in tasks : Applying(v) /\ v.pr = u.pr
      BY <3>3 DEF Becomes
    <3>4. CASE Plan(t)
      <4>1. PICK todo \in SUBSET Settings : Becomes(t, [t EXCEPT !.step = "write", !.todo = todo])
        BY <3>4 DEF Plan, Differences
      <4>2. QED
        BY <3>1, <3>3, <3>4, <4>1, TaskTypes DEF Plan, Applying, Steps
    <3>5. CASE FailToWrite(t)
      <4>1. PICK s \in t.todo : Becomes(t, [t EXCEPT !.todo = t.todo \ {s}, !.failed = TRUE])
        BY <3>5 DEF FailToWrite
      <4>2. [t EXCEPT !.todo = t.todo \ {s}, !.failed = TRUE].pr = t.pr
        BY <3>1 DEF Task
      <4>3. QED
        BY <3>3, <3>5, <4>1, <4>2 DEF FailToWrite, Applying
    <3>6. CASE Written(t)
      <4>1. [t EXCEPT !.step = "save"].pr = t.pr
        BY <3>1 DEF Task
      <4>2. QED
        BY <3>3, <3>6, <4>1 DEF Written, Applying
    <3>7. CASE SaveApplyStatus(t) \/ Die(t)
      BY <3>2, <3>7 DEF SaveApplyStatus, Die
    <3>8. QED
      BY <1>2, <3>4, <3>5, <3>6, <3>7 DEF TaskStep
  <2>3. hist.orderly => OneAtATime'
    BY <2>1, <2>2, NoneIsNew
  <2>4. QED
    BY <2>1, <2>3, NothingSettles
<1>3. QED
  BY <1>1, <1>2

\* What a merge by a single commit does, to the pull request and to the head.
LEMMA MergeFacts ==
    ASSUME OneCommitEach, SingleInv, NEW p \in Prs, Merge(p)
    PROVE  /\ Len(main) \in 1 .. Len(main) /\ Len(main') = Len(main) + 1
           /\ \A n \in 1 .. Len(main) : main'[n] = main[n]
           /\ HeadConfig' = Merged(prs[p].edit, HeadConfig)
           /\ \A q \in Prs \ {p} : prs'[q] = prs[q] /\ prs[q].merged \in 0 .. Len(main)
           /\ prs'[p].edit = prs[p].edit /\ prs'[p].base = prs[p].base
           /\ prs'[p].apply = prs[p].apply /\ prs'[p].merged = Len(main) + 1
           /\ prs[p].merged = 0 /\ prs[p].base \in 1 .. Len(main)
           /\ prs[p].apply = "not_applied" /\ hist.written[p] = {}
           /\ \A s \in Edits(p) : prs[p].edit[s] # HeadConfig[s]
           /\ live' = live /\ hist' = hist
           /\ tasks' = tasks \cup {NewTask(p)} /\ NewTask(p).step = "start"
<1>1. main \in Seq(Commit) /\ main # <<>> /\ prs \in [Prs -> Pr] /\ \A q \in Prs : prs[q] \in Pr
  BY DEF SingleInv, LinearInv, IInv, TypeOK
<1>2. Len(main) \in 1 .. Len(main)
  BY <1>1
<1>3. /\ Len(main') = Len(main) + 1 /\ \A n \in 1 .. Len(main) : main'[n] = main[n]
      /\ main'[Len(main')].config = Merged(prs[p].edit, HeadConfig)
      /\ prs' = [prs EXCEPT ![p].merged = Len(main')]
  BY MergeGrows DEF SingleInv, LinearInv
<1>4. \A q \in Prs \ {p} : prs'[q] = prs[q]
  BY <1>1, <1>3
<1>5. \A q \in Prs : prs[q].merged \in 0 .. Len(main)
  <2>1. \A q \in Prs : prs[q].merged # 0 => prs[q].merged \in 2 .. Len(main)
    BY DEF SingleInv, LinearInv, IInv, PlaceInv, IsMerged
  <2>2. QED
    BY <1>2, <2>1
<1>6. /\ prs'[p].edit = prs[p].edit /\ prs'[p].base = prs[p].base
      /\ prs'[p].apply = prs[p].apply /\ prs'[p].merged = Len(main) + 1
  BY <1>1, <1>3 DEF Pr
<1>7. prs[p].base # 0 /\ prs[p].merged = 0
      /\ \A s \in Edits(p) : HeadConfig[s] = main[prs[p].base].config[s]
  BY DEF Merge, Mergeable, Edits
<1>8. /\ prs[p].base \in 1 .. Len(main)
      /\ \A s \in Edits(p) : prs[p].edit[s] # main[prs[p].base].config[s]
      /\ prs[p].apply = "not_applied" /\ hist.written[p] = {}
  BY <1>7 DEF SingleInv, PrInv
<1>9. live' = live /\ hist' = hist /\ tasks' = tasks \cup {NewTask(p)} /\ NewTask(p).step = "start"
  BY DEF Merge, NewTask
<1>10. HeadConfig' = Merged(prs[p].edit, HeadConfig)
  BY <1>3 DEF HeadConfig
<1>11. QED
  BY <1>2, <1>3, <1>4, <1>5, <1>6, <1>7, <1>8, <1>9, <1>10

LEMMA MergeKeepsLinkInv ==
    ASSUME OneCommitEach, SingleInv, NEW p \in Prs, Merge(p)
    PROVE  LinkInv'
<1> DEFINE len == Len(main)
<1>1. /\ len \in Nat /\ len \in 1 .. len /\ Len(main') = len + 1
      /\ \A n \in 1 .. len : main'[n] = main[n]
      /\ \A q \in Prs \ {p} : prs'[q] = prs[q] /\ prs[q].merged \in 0 .. len
      /\ prs'[p].edit = prs[p].edit /\ prs'[p].base = prs[p].base
      /\ prs'[p].apply = prs[p].apply /\ prs'[p].merged = len + 1
      /\ prs[p].merged = 0 /\ prs[p].base \in 1 .. len
      /\ prs[p].apply = "not_applied" /\ hist.written[p] = {}
      /\ \A s \in Edits(p) : prs[p].edit[s] # main[len].config[s]
      /\ main'[len + 1].config = Merged(prs[p].edit, main[len].config)
      /\ hist' = hist /\ tasks' = tasks \cup {NewTask(p)} /\ NewTask(p).step = "start"
  BY MergeFacts DEF HeadConfig
<1> HIDE DEF len
<1>2. \A q \in Prs : Edits(q)' = Edits(q)
  BY <1>1 DEF Edits
<1>3. \A q, r \in Prs : prs'[q].merged = prs'[r].merged /\ prs'[r].merged # 0 => q = r
  <2>1. \A q, r \in Prs \ {p} : prs[q].merged = prs[r].merged /\ prs[r].merged # 0 => q = r
    BY DEF SingleInv, PrInv
  <2>2. \A q \in Prs \ {p} : prs'[q].merged # len + 1
    BY <1>1
  <2>3. QED
    BY <1>1, <2>1, <2>2
<1>4. PrInv'
  <2>1. ASSUME NEW q \in Prs, prs'[q].base # 0
        PROVE  /\ prs'[q].base \in 1 .. Len(main')
               /\ \A s \in Edits(q) : prs'[q].edit[s] # main'[prs'[q].base].config[s]
    <3>1. /\ prs[q].base \in 1 .. len /\ prs'[q].base = prs[q].base /\ prs'[q].edit = prs[q].edit
          /\ \A s \in Edits(q) : prs[q].edit[s] # main[prs[q].base].config[s]
      BY <1>1, <2>1 DEF SingleInv, PrInv, len
    <3>2. QED
      BY <1>1, <3>1
  <2>2. ASSUME NEW q \in Prs, prs'[q].merged = 0
        PROVE  prs'[q].apply = "not_applied" /\ hist'.written[q] = {}
    BY <1>1, <2>2 DEF SingleInv, PrInv
  <2>3. ASSUME NEW q \in Prs, prs'[q].merged # 0
        PROVE  /\ prs'[q].base # 0
               /\ main'[prs'[q].merged].config = Merged(prs'[q].edit, main'[prs'[q].merged - 1].config)
               /\ \A s \in Edits(q) : prs'[q].edit[s] # main'[prs'[q].merged - 1].config[s]
    <3>1. CASE q = p
      <4>1. (len + 1) - 1 = len /\ main'[len] = main[len]
        BY <1>1
      <4>2. QED
        BY <1>1, <3>1, <4>1
    <3>2. CASE q # p
      <4>1. prs'[q] = prs[q] /\ prs[q].merged # 0
        BY <1>1, <2>3, <3>2
      <4>2. /\ main'[prs[q].merged] = main[prs[q].merged]
            /\ main'[prs[q].merged - 1] = main[prs[q].merged - 1]
        BY <4>1, MergeKeepsEarlier DEF SingleInv, LinearInv, IsMerged
      <4>3. QED
        BY <4>1, <4>2 DEF SingleInv, PrInv
    <3>3. QED
      BY <3>1, <3>2
  <2>4. QED
    BY <1>2, <1>3, <2>1, <2>2, <2>3 DEF PrInv
<1>5. TodoInv'
  <2>1. \A t \in tasks : t.pr \in Prs
    BY DEF SingleInv, LinearInv, IInv, TypeOK, Task
  <2>2. QED
    BY <1>1, <1>2, <2>1 DEF SingleInv, TodoInv
<1>6. CompletedWasWritten'
  BY <1>1 DEF SingleInv, CompletedWasWritten
<1>7. QED
  BY <1>4, <1>5, <1>6 DEF LinkInv

LEMMA MergeSettles ==
    ASSUME OneCommitEach, SingleInv, NEW p \in Prs, Merge(p)
    PROVE  SettledInv'
<1> DEFINE len == Len(main)
<1>1. /\ len \in Nat
      /\ \A q \in Prs \ {p} : prs'[q] = prs[q] /\ prs[q].merged \in 0 .. len
      /\ prs'[p].edit = prs[p].edit /\ prs'[p].merged = len + 1 /\ prs[p].merged = 0
      /\ hist.written[p] = {} /\ HeadConfig' = Merged(prs[p].edit, HeadConfig)
      /\ live' = live /\ hist' = hist /\ tasks' = tasks \cup {NewTask(p)} /\ NewTask(p).step = "start"
  BY MergeFacts
<1> HIDE DEF len
<1>2. /\ \A q \in Prs : hist.written[q] \subseteq Settings
      /\ \A t \in tasks : t.pr \in Prs \ {p}
      /\ \A q \in Prs : Edits(q) \subseteq Settings
  BY <1>1 DEF SingleInv, LinearInv, IInv, TypeOK, PlaceInv, IsMerged, Task, Edits, Edited
<1>3. /\ \A q \in Prs : Edits(q)' = Edits(q)
      /\ IsMerged(p)' /\ ~IsMerged(p) /\ \A q \in Prs \ {p} : IsMerged(q)' = IsMerged(q)
  BY <1>1 DEF Edits, IsMerged
<1>4. \A s \in Settings : HeadConfig'[s] = IF s \in Edits(p) THEN prs[p].edit[s] ELSE HeadConfig[s]
  BY <1>1 DEF Merged, Edits, Edited
<1>5. \A s \in Edits(p), q \in Prs : IsLastOf(q, s)' <=> q = p
  <2>1. ASSUME NEW s \in Edits(p)
        PROVE  IsLastOf(p, s)'
    BY <1>1, <1>3 DEF IsLastOf
  <2>2. ASSUME NEW s \in Edits(p), NEW q \in Prs \ {p}, IsLastOf(q, s)'
        PROVE  FALSE
    <3>1. prs'[p].merged <= prs'[q].merged
      BY <1>3, <2>2 DEF IsLastOf
    <3>2. QED
      BY <1>1, <3>1
  <2>3. QED
    BY <2>1, <2>2
<1>6. \A s \in Settings \ Edits(p), q \in Prs : IsLastOf(q, s)' <=> IsLastOf(q, s)
  <2> SUFFICES ASSUME NEW s \in Settings \ Edits(p), NEW q \in Prs
               PROVE  IsLastOf(q, s)' <=> IsLastOf(q, s)
    OBVIOUS
  <2>1. CASE q = p
    BY <1>3, <2>1 DEF IsLastOf
  <2>2. CASE q # p
    BY <1>1, <1>3, <2>2 DEF IsLastOf
  <2>3. QED
    BY <2>1, <2>2
<1>7. HeadInv'
  <2>1. ASSUME NEW q \in Prs, NEW s \in Settings, IsLastOf(q, s)'
        PROVE  HeadConfig'[s] = prs'[q].edit[s]
    <3>1. CASE s \in Edits(p)
      BY <1>1, <1>4, <1>5, <2>1, <3>1
    <3>2. CASE s \notin Edits(p)
      <4>1. IsLastOf(q, s) /\ prs'[q].edit = prs[q].edit
        BY <1>1, <1>6, <2>1, <3>2
      <4>2. QED
        BY <1>4, <3>2, <4>1 DEF SingleInv, HeadInv
    <3>3. QED
      BY <3>1, <3>2
  <2>2. ASSUME NEW s \in Settings
        PROVE  \/ \E q \in Prs : IsLastOf(q, s)'
               \/ live'[s] = HeadConfig'[s] /\ \A q \in Prs : IsMerged(q)' => s \notin Edits(q)'
    <3>1. CASE s \in Edits(p)
      BY <1>5, <3>1
    <3>2. CASE s \notin Edits(p)
      BY <1>1, <1>3, <1>4, <1>6, <3>2 DEF SingleInv, HeadInv
    <3>3. QED
      BY <3>1, <3>2
  <2>3. QED
    BY <2>1, <2>2 DEF HeadInv
<1>8. ContestInv'
  <2>1. ASSUME NEW q \in Prs, NEW s \in hist.written[q]
        PROVE  \/ live[s] = prs'[q].edit[s]
               \/ \E r \in Prs \ {q} : IsMerged(r)' /\ s \in Edits(r)'
    <3>1. prs'[q].edit = prs[q].edit
      BY <1>1
    <3>2. \A r \in Prs : IsMerged(r) => IsMerged(r)'
      BY <1>3
    <3>3. QED
      BY <1>3, <3>1, <3>2 DEF SingleInv, ContestInv
  <2>2. QED
    BY <1>1, <2>1 DEF ContestInv
<1>9. ASSUME hist'.orderly
      PROVE  OneAtATime' /\ LastIsLive'
  <2>1. OneAtATime /\ LastIsLive
    BY <1>1, <1>9 DEF SingleInv, OrderInv
  <2>2. \A t \in tasks' : Applying(t) => t \in tasks
    BY <1>1 DEF Applying
  <2>3. ASSUME NEW t \in tasks', NEW q \in Prs, Applying(t), prs'[q].merged > prs'[t.pr].merged
        PROVE  hist'.written[q] = {}
    <3>1. t \in tasks /\ prs'[t.pr] = prs[t.pr]
      BY <1>1, <1>2, <2>2, <2>3
    <3>2. CASE q = p
      BY <1>1, <3>2
    <3>3. CASE q # p
      BY <1>1, <2>1, <2>3, <3>1, <3>3 DEF OneAtATime
    <3>4. QED
      BY <3>2, <3>3
  <2>4. OneAtATime'
    <3>1. \A t, u \in tasks' : Applying(t) /\ Applying(u) => t.pr = u.pr
      BY <2>1, <2>2 DEF OneAtATime
    <3>2. QED
      BY <2>3, <3>1 DEF OneAtATime, Applying
  <2>5. ASSUME NEW q \in Prs, NEW s \in hist.written[q], IsLastOf(q, s)'
        PROVE  live[s] = prs'[q].edit[s]
    <3>1. q # p /\ s \in Settings
      BY <1>1, <1>2
    <3>2. s \notin Edits(p)
      BY <1>5, <2>5, <3>1
    <3>3. IsLastOf(q, s) /\ prs'[q] = prs[q]
      BY <1>1, <1>6, <2>5, <3>1, <3>2
    <3>4. QED
      BY <2>1, <3>3 DEF LastIsLive
  <2>6. LastIsLive'
    BY <1>1, <2>5 DEF LastIsLive
  <2>7. QED
    BY <2>4, <2>6
<1>10. QED
  BY <1>7, <1>8, <1>9 DEF SettledInv, OrderInv

LEMMA SingleInvHolds ==
    ASSUME OneCommitEach
    PROVE  Spec => []SingleInv
<1>1. "merge" \notin Methods
  BY DEF OneCommitEach
<1>2. Init /\ LinearInv => SingleInv
  <2> SUFFICES ASSUME Init, LinearInv PROVE LinkInv /\ SettledInv
    BY DEF SingleInv, LinkInv, SettledInv
  <2>1. /\ \A p \in Prs : /\ prs[p].base = 0 /\ prs[p].merged = 0
                          /\ prs[p].apply = "not_applied" /\ hist.written[p] = {}
        /\ tasks = {} /\ live = HeadConfig
    BY DEF Init
  <2>2. LinkInv
    BY <2>1 DEF LinkInv, PrInv, TodoInv, CompletedWasWritten
  <2>3. \A p \in Prs : ~IsMerged(p)
    BY <2>1 DEF IsMerged
  <2>4. SettledInv
    BY <2>1, <2>3
       DEF SettledInv, HeadInv, ContestInv, OrderInv, OneAtATime, LastIsLive, IsLastOf
  <2>5. QED
    BY <2>2, <2>4
<1>3. SingleInv /\ LinearInv' /\ [Next]_vars => SingleInv'
  <2> SUFFICES ASSUME SingleInv, [Next]_vars PROVE LinkInv' /\ SettledInv'
    BY DEF SingleInv, LinkInv, SettledInv
  <2>1. CASE UNCHANGED vars
    <3>1. LinkInv'
      BY <2>1 DEF vars, SingleInv, LinkInv, PrInv, TodoInv, CompletedWasWritten, Edits
    <3>2. hist.orderly => OneAtATime'
      BY <2>1, NoneIsNew DEF vars
    <3>3. QED
      BY <2>1, <3>1, <3>2, NothingSettles DEF vars
  <2>2. ASSUME NEW p \in Prs, Merge(p)
        PROVE  LinkInv' /\ SettledInv'
    BY <2>2, MergeKeepsLinkInv, MergeSettles
  <2>3. ASSUME NEW t \in tasks, TaskStep(t) \/ Die(t)
        PROVE  LinkInv' /\ SettledInv'
    BY <2>3, TaskStepKeepsPrInv, TaskStepKeepsTodoInv, TaskStepKeepsCompleted, TaskStepSettles
       DEF LinkInv
  <2>4. QED
    BY <2>1, <2>2, <2>3, OpenKeepsSingleInv, RetryKeepsSingleInv DEF Next
<1>4. QED
  BY <1>1, <1>2, <1>3, LinearInvHolds, PTL DEF Spec

\* The status completed is never put on record (_post_execute) before each change of
\* the pull request was written, however tasks overlap, fail, die and are repeated.
THEOREM CompletedIsWritten ==
    ASSUME OneCommitEach
    PROVE  Spec => []CompletedWasWritten
BY SingleInvHolds, PTL DEF SingleInv

\* The applies of other pull requests never undo a completed one: a setting that
\* no other merged pull request changes stays live as configured.
THEOREM UncontestedSettles ==
    ASSUME OneCommitEach
    PROVE  Spec => []UncontestedIsInSync
<1>1. SingleInv => UncontestedIsInSync
  <2> SUFFICES ASSUME SingleInv, NEW p \in Prs, NEW s \in Settings,
                      prs[p].apply = "completed", prs[p].edit[s] # Keep,
                      \A q \in Prs \ {p} : prs[q].merged # 0 => prs[q].edit[s] = Keep
               PROVE  live[s] = HeadConfig[s]
    BY DEF UncontestedIsInSync
  <2>1. s \in Edits(p) /\ \A q \in Prs \ {p} : IsMerged(q) => s \notin Edits(q)
    BY DEF Edits, Edited, IsMerged
  <2>2. IsMerged(p)
    BY DEF SingleInv, PrInv, IsMerged
  <2>3. s \in hist.written[p]
    BY <2>1 DEF SingleInv, CompletedWasWritten, Edits
  <2>4. live[s] = prs[p].edit[s]
    BY <2>1, <2>3 DEF SingleInv, ContestInv
  <2>5. prs[p].merged <= prs[p].merged
    BY DEF SingleInv, LinearInv, IInv, TypeOK, Pr
  <2>6. IsLastOf(p, s)
    BY <2>1, <2>2, <2>5 DEF IsLastOf
  <2>7. QED
    BY <2>4, <2>6 DEF SingleInv, HeadInv
<1>2. QED
  BY <1>1, SingleInvHolds, PTL

\* Applies that follow the merges one by one leave nothing to be done: when all are
\* on record as completed, the live organization is what the default branch says.
THEOREM OrderlySettles ==
    ASSUME OneCommitEach
    PROVE  Spec => []OrderlyIsInSync
<1>1. SingleInv => OrderlyIsInSync
  <2> SUFFICES ASSUME SingleInv, hist.orderly,
                      \A p \in Prs : IsMerged(p) => prs[p].apply = "completed"
               PROVE  live = HeadConfig
    BY DEF OrderlyIsInSync, IsMerged
  <2>1. live \in Config /\ HeadConfig \in Config
    <3>1. main \in Seq(Commit) /\ main # <<>> /\ live \in Config
      BY DEF SingleInv, LinearInv, IInv, TypeOK
    <3>2. main[Len(main)] \in Commit
      BY <3>1
    <3>3. QED
      BY <3>1, <3>2 DEF HeadConfig, Commit
  <2>2. ASSUME NEW s \in Settings
        PROVE  live[s] = HeadConfig[s]
    <3>1. ASSUME NEW p \in Prs, IsLastOf(p, s)
          PROVE  live[s] = HeadConfig[s]
      <4>1. s \in hist.written[p]
        BY <3>1 DEF SingleInv, CompletedWasWritten, IsLastOf, Edits
      <4>2. live[s] = prs[p].edit[s]
        BY <3>1, <4>1 DEF SingleInv, OrderInv, LastIsLive
      <4>3. QED
        BY <3>1, <4>2 DEF SingleInv, HeadInv
    <3>2. QED
      BY <3>1 DEF SingleInv, HeadInv
  <2>3. QED
    BY <2>1, <2>2 DEF Config
<1>2. QED
  BY <1>1, SingleInvHolds, PTL
=============================================================================
