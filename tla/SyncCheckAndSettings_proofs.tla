-------------------- MODULE SyncCheckAndSettings_proofs --------------------
(***************************************************************************)
(* Proofs about SyncCheck, for any number of checks, changes and faults;   *)
(* and about Settings, for any settings, configurations and earlier        *)
(* configurations, any number of runs, and whatever is refused or fails.   *)
(***************************************************************************)
EXTENDS SyncCheck, Settings, SequenceTheorems, TLAPS

-----------------------------------------------------------------------------
(* The parts of the inductive invariant.                                   *)

\* A task has a commit that exists, unless it was asked for and has not looked it up.
ShaInv ==
    /\ Len(commits) # 0
    /\ \A t \in DOMAIN tasks :
          /\ tasks[t].sha \in 0 .. Len(commits)
          /\ tasks[t].sha = 0 => tasks[t].pc \in {"prepare", "done"}
          /\ tasks[t].sha = 0 /\ tasks[t].pc = "prepare" => tasks[t].asked

\* A check in calm is the only one.  What it has read is still so, and what it has
\* left behind so far is the outcome.
Stands(t) ==
    LET task == tasks[t] IN
    /\ task.pc = "plan" => task.base = head
    /\ task.pc \in {"minimize", "comment", "report", "save"} => task.verdict = YesNo(head = live)
    /\ task.pc = "comment" => comments = {}
    /\ task.pc \in {"report", "save", "done"} => comments = IF head = live THEN {} ELSE {t}
    /\ task.pc \in {"save", "done"} => statuses[task.sha].newest = "success"
    /\ task.pc = "done" => record = YesNo(head = live)

CalmInv ==
    \A t \in hist.calm :
        /\ InFlight \subseteq {t}
        /\ tasks[t].pc # "failing"
        /\ ~tasks[t].skipped => Stands(t)

IInv == TypeOK /\ ShaInv /\ CalmInv
-----------------------------------------------------------------------------
(* One task goes on, one status is posted.                                 *)

LEMMA TaskGoes ==
    ASSUME TypeOK, NEW t \in DOMAIN tasks, NEW new \in Task, tasks' = [tasks EXCEPT ![t] = new]
    PROVE  /\ tasks' \in Seq(Task) /\ DOMAIN tasks' = DOMAIN tasks /\ Len(tasks') = Len(tasks)
           /\ tasks'[t] = new
           /\ \A u \in DOMAIN tasks \ {t} : tasks'[u] = tasks[u]
<1>1. tasks \in Seq(Task) /\ DOMAIN tasks = 1 .. Len(tasks)
  BY DEF TypeOK
<1>2. /\ tasks' \in Seq(Task) /\ Len(tasks') = Len(tasks)
      /\ \A j \in 1 .. Len(tasks) : tasks'[j] = IF j = t THEN new ELSE tasks[j]
  BY <1>1, ExceptSeq
<1>3. QED
  BY <1>1, <1>2

LEMMA PostFacts ==
    ASSUME TypeOK, NEW t \in DOMAIN tasks, tasks[t].sha \in 1 .. Len(commits),
           NEW state \in {"pending", "success", "failure"}, Post(t, state)
    PROVE  /\ statuses' \in Seq(Status) /\ Len(statuses') = Len(statuses)
           /\ statuses'[tasks[t].sha].newest = state
<1> DEFINE sha == tasks[t].sha
           new == [newest |-> state, final |-> IF state = "pending" THEN statuses[sha].final ELSE state]
<1>1. statuses \in Seq(Status) /\ sha \in 1 .. Len(statuses)
  BY DEF TypeOK
<1>2. statuses' = [statuses EXCEPT ![sha] = new]
  BY DEF Post
<1>3. statuses[sha] \in Status
  BY <1>1
<1>4. new \in Status /\ new.newest = state
  BY <1>3 DEF Status
<1> HIDE DEF sha, new
<1>5. /\ statuses' \in Seq(Status) /\ Len(statuses') = Len(statuses)
      /\ \A j \in 1 .. Len(statuses) : statuses'[j] = IF j = sha THEN new ELSE statuses[j]
  BY <1>1, <1>2, <1>4, ExceptSeq
<1>6. QED
  BY <1>1, <1>4, <1>5 DEF sha

\* A step of a task: where it goes, and what stays as it is.
LEMMA StepFacts ==
    ASSUME IInv, NEW t, Step(t)
    PROVE  /\ t \in InFlight /\ t \in DOMAIN tasks /\ tasks[t] \in Task
           /\ \E new \in Task :
                 /\ tasks' = [tasks EXCEPT ![t] = new]
                 /\ new.pc # "failing" /\ new.pc # "prepare"
                 /\ \/ new.sha = tasks[t].sha /\ (new.sha = 0 => new.pc = "done")
                    \/ new.sha = Len(commits)
           /\ UNCHANGED <<head, live, clock, commits, count>>
           /\ hist'.calm = hist.calm
           /\ hist' \in [calm : SUBSET DOMAIN tasks, lost : BOOLEAN, compared : Nat]
           /\ statuses' \in Seq(Status) /\ Len(statuses') = Len(commits)
           /\ comments' \subseteq DOMAIN tasks
           /\ record' \in {"unknown", "yes", "no"}
<1>1. t \in InFlight /\ t \in DOMAIN tasks
  BY DEF Step, Skip, Prepare, Announce, Fetch, Plan, Minimize, Comment, Report, Save,
         ReportFailure, At, InFlight
<1>2. tasks[t] \in Task /\ Len(commits) \in Nat /\ tasks[t].sha \in 0 .. Len(commits)
      /\ (tasks[t].sha = 0 => tasks[t].pc \in {"prepare", "done"})
      /\ (tasks[t].sha = 0 /\ tasks[t].pc = "prepare" => tasks[t].asked)
  BY <1>1 DEF IInv, TypeOK, ShaInv
<1>3. /\ hist \in [calm : SUBSET DOMAIN tasks, lost : BOOLEAN, compared : Nat]
      /\ statuses \in Seq(Status) /\ Len(statuses) = Len(commits) /\ comments \subseteq DOMAIN tasks
      /\ record \in {"unknown", "yes", "no"} /\ head \in Versions /\ clock \in Nat
  BY DEF IInv, TypeOK
<1> DEFINE Going(new) ==
             /\ tasks' = [tasks EXCEPT ![t] = new]
             /\ new \in Task
             /\ new.pc # "failing" /\ new.pc # "prepare"
             /\ \/ new.sha = tasks[t].sha /\ (new.sha = 0 => new.pc = "done")
                \/ new.sha = Len(commits)
<1>4. UNCHANGED <<head, live, clock, commits, count>>
  BY DEF Step, Skip, Prepare, Announce, Fetch, Plan, Minimize, Comment, Report, Save,
         ReportFailure, Goes, To, github
<1>5. hist'.calm = hist.calm /\ hist' \in [calm : SUBSET DOMAIN tasks, lost : BOOLEAN, compared : Nat]
  <2>1. CASE Plan(t)
    BY <1>3, <2>1 DEF Plan
  <2>2. CASE ~Plan(t)
    BY <1>3, <2>2 DEF Step, Skip, Prepare, Announce, Fetch, Minimize, Comment, Report, Save,
                      ReportFailure, Goes, To
  <2>3. QED
    BY <2>1, <2>2
<1>6. statuses' \in Seq(Status) /\ Len(statuses') = Len(commits)
  <2>1. ASSUME NEW state \in {"pending", "success", "failure"}, Post(t, state),
               tasks[t].pc \notin {"prepare", "done"}
        PROVE  statuses' \in Seq(Status) /\ Len(statuses') = Len(commits)
    BY <1>1, <1>2, <1>3, <2>1, PostFacts DEF IInv
  <2>2. CASE Announce(t) \/ Report(t) \/ ReportFailure(t)
    BY <2>1, <2>2 DEF Announce, Report, ReportFailure, SayFailed, At
  <2>3. CASE Skip(t) \/ Prepare(t) \/ Fetch(t) \/ Plan(t) \/ Minimize(t) \/ Comment(t) \/ Save(t)
    BY <1>3, <2>3 DEF Skip, Prepare, Fetch, Plan, Minimize, Comment, Save
  <2>4. QED
    BY <2>2, <2>3 DEF Step
<1>7. comments' \subseteq DOMAIN tasks
  BY <1>1, <1>3 DEF Step, Skip, Prepare, Announce, Fetch, Plan, Minimize, Comment, Report, Save,
                    ReportFailure
<1>8. record' \in {"unknown", "yes", "no"}
  BY <1>2, <1>3 DEF Step, Skip, Prepare, Announce, Fetch, Plan, Minimize, Comment, Report, Save,
                    ReportFailure, Task
<1>9. \E new : Going(new)
  <2>1. CASE Skip(t)
    <3> DEFINE new == [tasks[t] EXCEPT !.pc = "report", !.skipped = TRUE,
                           !.verdict = YesNo(statuses[Previous].final = "success")]
    <3>1. tasks' = [tasks EXCEPT ![t] = new] /\ tasks[t].pc = "prepare" /\ ~tasks[t].asked
      BY <2>1 DEF Skip, Goes, At, CarriesOver
    <3>2. new \in Task /\ new.pc # "failing" /\ new.pc # "prepare"
          /\ \/ new.sha = tasks[t].sha /\ (new.sha = 0 => new.pc = "done")
             \/ new.sha = Len(commits)
      BY <1>2, <3>1 DEF YesNo, Task
    <3> HIDE DEF new
    <3>3. QED
      BY <3>1, <3>2
  <2>2. CASE Prepare(t)
    <3> DEFINE new == [tasks[t] EXCEPT !.pc = "announce",
                           !.sha = IF tasks[t].asked THEN Len(commits) ELSE tasks[t].sha]
    <3>1. tasks' = [tasks EXCEPT ![t] = new] /\ tasks[t].pc = "prepare"
      BY <2>2 DEF Prepare, Goes, At
    <3>2. new \in Task /\ new.pc # "failing" /\ new.pc # "prepare"
          /\ \/ new.sha = tasks[t].sha /\ (new.sha = 0 => new.pc = "done")
             \/ new.sha = Len(commits)
      BY <1>2, <3>1 DEF YesNo, Task
    <3> HIDE DEF new
    <3>3. QED
      BY <3>1, <3>2
  <2>3. CASE Announce(t) \/ Minimize(t) \/ Comment(t) \/ Report(t)
    BY <1>2, <2>3 DEF Announce, Minimize, Comment, Report, To, Goes, At, Task
  <2>4. CASE Fetch(t)
    <3> DEFINE new == [tasks[t] EXCEPT !.pc = "plan", !.base = head]
    <3>1. tasks' = [tasks EXCEPT ![t] = new] /\ tasks[t].pc = "fetch"
      BY <2>4 DEF Fetch, Goes, At
    <3>2. new \in Task /\ new.pc # "failing" /\ new.pc # "prepare"
          /\ \/ new.sha = tasks[t].sha /\ (new.sha = 0 => new.pc = "done")
             \/ new.sha = Len(commits)
      BY <1>2, <1>3, <3>1 DEF YesNo, Task
    <3> HIDE DEF new
    <3>3. QED
      BY <3>1, <3>2
  <2>5. CASE Plan(t)
    <3> DEFINE new == [tasks[t] EXCEPT !.pc = "minimize", !.verdict = YesNo(tasks[t].base = live)]
    <3>1. tasks' = [tasks EXCEPT ![t] = new] /\ tasks[t].pc = "plan"
      BY <2>5 DEF Plan, At
    <3>2. new \in Task /\ new.pc # "failing" /\ new.pc # "prepare"
          /\ \/ new.sha = tasks[t].sha /\ (new.sha = 0 => new.pc = "done")
             \/ new.sha = Len(commits)
      BY <1>2, <3>1 DEF YesNo, Task
    <3> HIDE DEF new
    <3>3. QED
      BY <3>1, <3>2
  <2>6. CASE Save(t) \/ ReportFailure(t)
    <3> DEFINE new == Ended(tasks[t])
    <3>1. tasks' = [tasks EXCEPT ![t] = new]
      BY <2>6 DEF Save, ReportFailure, Goes
    <3>2. new \in Task /\ new.pc # "failing" /\ new.pc # "prepare"
          /\ \/ new.sha = tasks[t].sha /\ (new.sha = 0 => new.pc = "done")
             \/ new.sha = Len(commits)
      BY <1>2 DEF Ended, Task
    <3> HIDE DEF new
    <3>3. QED
      BY <3>1, <3>2
  <2>7. QED
    BY <2>1, <2>2, <2>3, <2>4, <2>5, <2>6 DEF Step
<1>10. QED
  BY <1>1, <1>2, <1>4, <1>5, <1>6, <1>7, <1>8, <1>9

-----------------------------------------------------------------------------
(* The steps of the tasks.                                                 *)

LEMMA StepKeepsTypes ==
    ASSUME IInv, NEW t, Step(t)
    PROVE  TypeOK' /\ ShaInv'
<1>1. /\ t \in DOMAIN tasks /\ tasks[t] \in Task
      /\ UNCHANGED <<head, live, clock, commits, count>>
      /\ hist' \in [calm : SUBSET DOMAIN tasks, lost : BOOLEAN, compared : Nat]
      /\ statuses' \in Seq(Status) /\ Len(statuses') = Len(commits)
      /\ comments' \subseteq DOMAIN tasks
      /\ record' \in {"unknown", "yes", "no"}
  BY StepFacts
<1>2. PICK new \in Task : /\ tasks' = [tasks EXCEPT ![t] = new]
                          /\ new.pc # "failing" /\ new.pc # "prepare"
                          /\ \/ new.sha = tasks[t].sha /\ (new.sha = 0 => new.pc = "done")
                             \/ new.sha = Len(commits)
  BY StepFacts
<1>3. /\ tasks' \in Seq(Task) /\ DOMAIN tasks' = DOMAIN tasks /\ tasks'[t] = new
      /\ \A u \in DOMAIN tasks \ {t} : tasks'[u] = tasks[u]
  BY <1>1, <1>2, TaskGoes DEF IInv
<1>4. TypeOK'
  BY <1>1, <1>3 DEF IInv, TypeOK
<1>5. ShaInv'
  <2>1. Len(commits) \in Nat \ {0} /\ tasks[t].sha \in 0 .. Len(commits)
    BY <1>1 DEF IInv, TypeOK, ShaInv
  <2>2. ASSUME NEW u \in DOMAIN tasks
        PROVE  /\ tasks'[u].sha \in 0 .. Len(commits)
               /\ tasks'[u].sha = 0 => tasks'[u].pc \in {"prepare", "done"}
               /\ tasks'[u].sha = 0 /\ tasks'[u].pc = "prepare" => tasks'[u].asked
    <3>1. CASE u = t
      BY <1>2, <1>3, <2>1, <3>1
    <3>2. CASE u # t
      BY <1>3, <3>2 DEF IInv, ShaInv
    <3>3. QED
      BY <3>1, <3>2
  <2>3. QED
    BY <1>1, <1>3, <2>1, <2>2 DEF ShaInv
<1>6. QED
  BY <1>4, <1>5

\* The steps of a check in calm, each of which finds what the ones before have left.
LEMMA CalmStep ==
    ASSUME IInv, NEW t \in hist.calm, Step(t)
    PROVE  tasks'[t].pc # "failing" /\ (~tasks'[t].skipped => Stands(t)')
<1>1. /\ t \in DOMAIN tasks /\ tasks[t] \in Task /\ UNCHANGED <<head, live>> /\ TypeOK
  BY StepFacts DEF IInv
<1>2. tasks[t].pc # "failing" /\ (~tasks[t].skipped => Stands(t))
  BY DEF IInv, CalmInv
<1>3. \A new \in Task : tasks' = [tasks EXCEPT ![t] = new] => tasks'[t] = new
  BY <1>1, TaskGoes
<1>4. CASE Skip(t)
  <2> DEFINE new == [tasks[t] EXCEPT !.pc = "report", !.skipped = TRUE,
                           !.verdict = YesNo(statuses[Previous].final = "success")]
  <2>1. tasks' = [tasks EXCEPT ![t] = new]
    BY <1>4 DEF Skip, Goes
  <2>2. new \in Task /\ new.pc = "report" /\ new.skipped
    BY <1>1 DEF YesNo, Task
  <2> HIDE DEF new
  <2>3. QED
    BY <1>3, <2>1, <2>2
<1>5. CASE Prepare(t)
  <2> DEFINE new == [tasks[t] EXCEPT !.pc = "announce",
                           !.sha = IF tasks[t].asked THEN Len(commits) ELSE tasks[t].sha]
  <2>1. tasks' = [tasks EXCEPT ![t] = new]
    BY <1>5 DEF Prepare, Goes
  <2>2. new \in Task /\ new.pc = "announce"
    <3>1. Len(commits) \in Nat
      BY <1>1 DEF TypeOK
    <3>2. QED
      BY <1>1, <3>1 DEF Task
  <2> HIDE DEF new
  <2>3. QED
    BY <1>3, <2>1, <2>2 DEF Stands
<1>6. CASE Announce(t)
  <2>1. tasks'[t].pc = "fetch"
    BY <1>1, <1>3, <1>6 DEF Announce, To, Goes, Task
  <2>2. QED
    BY <2>1 DEF Stands
<1>7. CASE Fetch(t)
  <2> DEFINE new == [tasks[t] EXCEPT !.pc = "plan", !.base = head]
  <2>1. tasks' = [tasks EXCEPT ![t] = new]
    BY <1>7 DEF Fetch, Goes
  <2>2. new \in Task /\ new.pc = "plan" /\ new.base = head
    BY <1>1 DEF TypeOK, Task
  <2> HIDE DEF new
  <2>3. QED
    BY <1>1, <1>3, <2>1, <2>2 DEF Stands
<1>8. CASE Plan(t)
  <2> DEFINE new == [tasks[t] EXCEPT !.pc = "minimize", !.verdict = YesNo(tasks[t].base = live)]
  <2>1. tasks' = [tasks EXCEPT ![t] = new] /\ tasks[t].pc = "plan"
    BY <1>8 DEF Plan, At
  <2>2. /\ new \in Task /\ new.pc = "minimize" /\ new.skipped = tasks[t].skipped
        /\ new.verdict = YesNo(tasks[t].base = live)
    BY <1>1 DEF YesNo, Task
  <2>3. ~tasks[t].skipped => tasks[t].base = head
    BY <1>2, <2>1 DEF Stands
  <2> HIDE DEF new
  <2>4. QED
    BY <1>1, <1>3, <2>1, <2>2, <2>3 DEF Stands
<1>9. CASE Minimize(t)
  <2>1. /\ tasks' = [tasks EXCEPT ![t] = [tasks[t] EXCEPT !.pc = "comment"]]
        /\ tasks[t].pc = "minimize" /\ comments' = {}
    BY <1>9 DEF Minimize, To, Goes, At, Outdated
  <2>2. tasks'[t].pc = "comment" /\ tasks'[t].verdict = tasks[t].verdict /\ tasks'[t].skipped = tasks[t].skipped
    BY <1>1, <1>3, <2>1 DEF Task
  <2>3. QED
    BY <1>1, <1>2, <2>1, <2>2 DEF Stands
<1>10. CASE Comment(t)
  <2>1. /\ tasks' = [tasks EXCEPT ![t] = [tasks[t] EXCEPT !.pc = "report"]]
        /\ tasks[t].pc = "comment"
        /\ comments' = IF tasks[t].verdict = "yes" THEN comments ELSE comments \cup {t}
    BY <1>10 DEF Comment, To, Goes, At
  <2>2. tasks'[t].pc = "report" /\ tasks'[t].verdict = tasks[t].verdict /\ tasks'[t].skipped = tasks[t].skipped
    BY <1>1, <1>3, <2>1 DEF Task
  <2>3. ~tasks[t].skipped => tasks[t].verdict = YesNo(head = live) /\ comments = {}
    BY <1>2, <2>1 DEF Stands
  <2>4. ~tasks[t].skipped => comments' = IF head = live THEN {} ELSE {t}
    BY <2>1, <2>3 DEF YesNo
  <2>5. QED
    BY <1>1, <2>2, <2>3, <2>4 DEF Stands
<1>11. CASE Report(t)
  <2>1. /\ tasks' = [tasks EXCEPT ![t] = [tasks[t] EXCEPT !.pc = "save"]]
        /\ tasks[t].pc = "report" /\ comments' = comments /\ Post(t, "success")
    BY <1>11 DEF Report, To, Goes, At
  <2>2. /\ tasks'[t].pc = "save" /\ tasks'[t].verdict = tasks[t].verdict
        /\ tasks'[t].skipped = tasks[t].skipped /\ tasks'[t].sha = tasks[t].sha
    BY <1>1, <1>3, <2>1 DEF Task
  <2>3. tasks[t].sha \in 1 .. Len(commits)
    BY <1>1, <2>1 DEF IInv, TypeOK, ShaInv
  <2>4. statuses'[tasks[t].sha].newest = "success"
    BY <1>1, <2>1, <2>3, PostFacts
  <2>5. QED
    BY <1>1, <1>2, <2>1, <2>2, <2>4 DEF Stands
<1>12. CASE Save(t)
  <2>1. /\ tasks' = [tasks EXCEPT ![t] = Ended(tasks[t])] /\ tasks[t].pc = "save"
        /\ UNCHANGED <<comments, statuses>> /\ record' = tasks[t].verdict
    BY <1>12 DEF Save, Goes, At
  <2>2. /\ tasks'[t].pc = "done" /\ tasks'[t].skipped = tasks[t].skipped
        /\ tasks'[t].sha = tasks[t].sha
    BY <1>1, <1>3, <2>1 DEF Ended, Task
  <2>3. QED
    BY <1>1, <1>2, <2>1, <2>2 DEF Stands
<1>13. CASE ReportFailure(t)
  BY <1>2, <1>13 DEF ReportFailure, At
<1>14. QED
  BY <1>4, <1>5, <1>6, <1>7, <1>8, <1>9, <1>10, <1>11, <1>12, <1>13 DEF Step

\* No other check takes a step in calm.
LEMMA StepKeepsIInv ==
    ASSUME IInv, NEW t, Step(t)
    PROVE  IInv'
<1>1. TypeOK' /\ ShaInv'
  BY StepKeepsTypes
<1>2. t \in InFlight /\ hist'.calm = hist.calm
  BY StepFacts
<1>3. InFlight' \subseteq InFlight
  <2>1. PICK new \in Task : tasks' = [tasks EXCEPT ![t] = new]
    BY StepFacts
  <2>2. DOMAIN tasks' = DOMAIN tasks /\ \A u \in DOMAIN tasks \ {t} : tasks'[u] = tasks[u]
    BY <2>1, StepFacts, TaskGoes DEF IInv
  <2>3. QED
    BY <1>2, <2>2 DEF InFlight
<1>4. CalmInv'
  <2> SUFFICES ASSUME NEW u \in hist.calm
               PROVE  /\ InFlight' \subseteq {u}
                      /\ tasks'[u].pc # "failing" /\ (~tasks'[u].skipped => Stands(u)')
    BY <1>2 DEF CalmInv
  <2>1. InFlight \subseteq {u} /\ u = t
    BY <1>2 DEF IInv, CalmInv
  <2>2. QED
    BY <1>3, <2>1, CalmStep
<1>5. QED
  BY <1>1, <1>4 DEF IInv

-----------------------------------------------------------------------------
(* What else happens.                                                      *)

\* A task that starts while no other runs is in calm.
LEMMA StartsKeepsIInv ==
    ASSUME IInv, NEW task \in Task, Starts(task),
           task.pc = "prepare", task.sha = 0 => task.asked, task.sha <= Len(commits'),
           commits' \in Seq(Nat), Len(commits') # 0, Len(commits) <= Len(commits'),
           statuses' \in Seq(Status), Len(statuses') = Len(commits')
    PROVE  IInv'
<1> DEFINE n == Len(tasks) + 1
<1>1. /\ tasks \in Seq(Task) /\ tasks' = Append(tasks, task) /\ Len(tasks) \in Nat
      /\ UNCHANGED <<head, live, clock, record, comments, count>>
      /\ hist' = [hist EXCEPT !.calm = IF InFlight = {} THEN {n} ELSE {}]
  BY DEF Starts, IInv, TypeOK
<1>2. /\ tasks' \in Seq(Task) /\ DOMAIN tasks = 1 .. Len(tasks) /\ DOMAIN tasks' = 1 .. n
      /\ \A i \in DOMAIN tasks : tasks'[i] = tasks[i]
      /\ tasks'[n] = task
  BY <1>1, AppendProperties
<1>3. DOMAIN tasks' = DOMAIN tasks \cup {n} /\ n \in DOMAIN tasks'
  BY <1>1, <1>2
<1> HIDE DEF n
<1>4. TypeOK'
  <2>1. hist' \in [calm : SUBSET DOMAIN tasks', lost : BOOLEAN, compared : Nat]
    BY <1>1, <1>3 DEF IInv, TypeOK
  <2>2. comments' \subseteq DOMAIN tasks'
    BY <1>1, <1>3 DEF IInv, TypeOK
  <2>3. QED
    BY <1>1, <1>2, <2>1, <2>2 DEF IInv, TypeOK
<1>5. ShaInv'
  <2>1. Len(commits) \in Nat /\ Len(commits') \in Nat /\ task.sha \in Nat
    BY DEF IInv, TypeOK, Task
  <2>2. task.sha \in 0 .. Len(commits')
    BY <2>1
  <2>3. \A i \in DOMAIN tasks : tasks[i].sha \in 0 .. Len(commits')
    BY <2>1 DEF IInv, ShaInv
  <2>4. ASSUME NEW i \in DOMAIN tasks'
        PROVE  /\ tasks'[i].sha \in 0 .. Len(commits')
               /\ tasks'[i].sha = 0 => tasks'[i].pc \in {"prepare", "done"}
               /\ tasks'[i].sha = 0 /\ tasks'[i].pc = "prepare" => tasks'[i].asked
    <3>1. CASE i = n
      BY <1>2, <2>2, <3>1
    <3>2. CASE i \in DOMAIN tasks
      BY <1>2, <2>3, <3>2 DEF IInv, ShaInv
    <3>3. QED
      BY <1>3, <3>1, <3>2
  <2>5. QED
    BY <2>4 DEF ShaInv
<1>6. CalmInv'
  <2> SUFFICES ASSUME NEW t \in hist'.calm
               PROVE  InFlight' \subseteq {t} /\ tasks'[t].pc = "prepare"
    BY DEF CalmInv, Stands
  <2>1. InFlight = {} /\ t = n
    BY <1>1 DEF IInv, TypeOK
  <2>2. InFlight' \subseteq {n}
    BY <1>2, <1>3, <2>1 DEF InFlight
  <2>3. QED
    BY <1>2, <2>1, <2>2
<1>7. QED
  BY <1>4, <1>5, <1>6 DEF IInv

LEMMA EventKeepsIInv ==
    ASSUME IInv, Push \/ Reopen \/ Ask
    PROVE  IInv'
<1>1. /\ commits \in Seq(Nat) /\ Len(commits) \in Nat \ {0} /\ statuses \in Seq(Status)
      /\ Len(statuses) = Len(commits) /\ clock \in Nat
  BY DEF IInv, TypeOK, ShaInv
<1>2. CASE Push
  <2>1. /\ Starts(NewTask(Len(commits) + 1, FALSE))
        /\ commits' = Append(commits, clock) /\ statuses' = Append(statuses, NoStatus)
    BY <1>2 DEF Push
  <2>2. NoStatus \in Status
    BY DEF NoStatus, Status
  <2>3. /\ commits' \in Seq(Nat) /\ Len(commits') = Len(commits) + 1
        /\ statuses' \in Seq(Status) /\ Len(statuses') = Len(statuses) + 1
    BY <1>1, <2>1, <2>2, AppendProperties
  <2>4. Len(commits) + 1 \in Nat /\ Len(commits) + 1 # 0 /\ Len(commits) <= Len(commits')
    BY <1>1, <2>3
  <2> DEFINE new == NewTask(Len(commits) + 1, FALSE)
  <2>5. new \in Task /\ new.pc = "prepare" /\ new.sha # 0 /\ new.sha <= Len(commits')
    BY <1>1, <2>3, <2>4 DEF NewTask, Task
  <2> HIDE DEF new
  <2>6. Starts(new) /\ Len(commits') # 0 /\ Len(statuses') = Len(commits')
    BY <1>1, <2>1, <2>3, <2>4 DEF new
  <2>7. QED
    BY <2>3, <2>4, <2>5, <2>6, StartsKeepsIInv
<1>3. CASE Reopen
  <2> DEFINE new == NewTask(Len(commits), FALSE)
  <2>1. new \in Task /\ new.pc = "prepare" /\ new.sha # 0 /\ new.sha <= Len(commits)
    BY <1>1 DEF NewTask, Task
  <2>2. Starts(new) /\ UNCHANGED <<commits, statuses>>
    BY <1>3 DEF Reopen
  <2> HIDE DEF new
  <2>3. Len(commits) <= Len(commits)
    BY <1>1
  <2>4. QED
    BY <1>1, <2>1, <2>2, <2>3, StartsKeepsIInv
<1>4. CASE Ask
  <2> DEFINE new == NewTask(0, TRUE)
  <2>1. new \in Task /\ new.pc = "prepare" /\ new.asked /\ new.sha <= Len(commits)
    BY <1>1 DEF NewTask, Task
  <2>2. Starts(new) /\ UNCHANGED <<commits, statuses>>
    BY <1>4 DEF Ask
  <2> HIDE DEF new
  <2>3. Len(commits) <= Len(commits)
    BY <1>1
  <2>4. QED
    BY <1>1, <2>1, <2>2, <2>3, StartsKeepsIInv
<1>5. QED
  BY <1>2, <1>3, <1>4

\* After a fault, and after a change, nothing is in calm.
LEMMA FaultKeepsIInv ==
    ASSUME IInv, NEW lost \in BOOLEAN, Fault(lost), tasks' \in Seq(Task), DOMAIN tasks' = DOMAIN tasks,
           \A t \in DOMAIN tasks :
              /\ tasks'[t].sha = tasks[t].sha
              /\ tasks[t].sha = 0 => tasks'[t] = tasks[t] \/ tasks'[t].pc = "done"
    PROVE  IInv'
<1>1. hist' \in [calm : SUBSET DOMAIN tasks, lost : BOOLEAN, compared : Nat] /\ hist'.calm = {}
  <2>1. hist \in [calm : SUBSET DOMAIN tasks, lost : BOOLEAN, compared : Nat]
    BY DEF IInv, TypeOK
  <2>2. (hist.lost \/ lost) \in BOOLEAN /\ hist' = [hist EXCEPT !.calm = {}, !.lost = hist.lost \/ lost]
    BY DEF Fault
  <2>3. QED
    BY <2>1, <2>2
<1>2. TypeOK'
  <2>1. count' \in [changes : Nat, faults : Nat]
    BY DEF Fault, IInv, TypeOK
  <2>2. UNCHANGED <<head, live, clock, commits, statuses, record, comments>>
    BY DEF Fault, github
  <2>3. QED
    BY <1>1, <2>1, <2>2 DEF IInv, TypeOK
<1>3. ShaInv'
  BY DEF Fault, github, IInv, ShaInv
<1>4. QED
  BY <1>1, <1>2, <1>3 DEF IInv, CalmInv

LEMMA DisturbanceKeepsIInv ==
    ASSUME IInv, Restart \/ \E t : Abort(t) \/ Fail(t)
    PROVE  IInv'
<1>1. /\ tasks \in Seq(Task) /\ DOMAIN tasks = 1 .. Len(tasks) /\ TypeOK
      /\ \A t \in DOMAIN tasks : tasks[t] \in Task
  BY DEF IInv, TypeOK
<1>2. ASSUME NEW task \in Task
      PROVE  Ended(task) \in Task /\ Ended(task).sha = task.sha /\ Ended(task).pc = "done"
  BY DEF Ended, Task
<1>3. ASSUME NEW t \in DOMAIN tasks, NEW new \in Task, new.sha = tasks[t].sha,
             tasks[t].sha = 0 => new.pc = "done",
             tasks' = [tasks EXCEPT ![t] = new], NEW lost \in BOOLEAN, Fault(lost)
      PROVE  IInv'
  <2>1. /\ tasks' \in Seq(Task) /\ DOMAIN tasks' = DOMAIN tasks /\ tasks'[t] = new
        /\ \A u \in DOMAIN tasks \ {t} : tasks'[u] = tasks[u]
    BY <1>1, <1>3, TaskGoes
  <2>2. \A u \in DOMAIN tasks : /\ tasks'[u].sha = tasks[u].sha
                                /\ tasks[u].sha = 0 => tasks'[u] = tasks[u] \/ tasks'[u].pc = "done"
    BY <1>3, <2>1
  <2>3. QED
    BY <1>3, <2>1, <2>2, FaultKeepsIInv
<1>4. ASSUME NEW t, Abort(t)
      PROVE  IInv'
  <2>1. t \in DOMAIN tasks /\ tasks[t].pc = "plan" /\ tasks[t].sha # 0
    BY <1>4 DEF Abort, At, IInv, ShaInv
  <2>2. tasks' = [tasks EXCEPT ![t] = [tasks[t] EXCEPT !.pc = "minimize"]] /\ Fault(FALSE)
    BY <1>4 DEF Abort
  <2>3. LET new == [tasks[t] EXCEPT !.pc = "minimize"] IN new \in Task /\ new.sha = tasks[t].sha
    BY <1>1, <2>1 DEF Task
  <2>4. QED
    BY <1>3, <2>1, <2>2, <2>3
<1>5. ASSUME NEW t, Fail(t)
      PROVE  IInv'
  <2> DEFINE speechless == tasks[t].pc = "failing" \/ tasks[t].sha = 0
             new == IF speechless THEN Ended(tasks[t]) ELSE [tasks[t] EXCEPT !.pc = "failing"]
  <2>1. t \in DOMAIN tasks /\ Fault(speechless) /\ tasks' = [tasks EXCEPT ![t] = new]
    BY <1>5 DEF Fail, InFlight
  <2>2. speechless \in BOOLEAN
    OBVIOUS
  <2>3. new \in Task /\ new.sha = tasks[t].sha /\ (tasks[t].sha = 0 => new.pc = "done")
    <3>1. CASE speechless
      BY <1>1, <1>2, <2>1, <3>1
    <3>2. CASE ~speechless
      BY <1>1, <2>1, <3>2 DEF Task
    <3>3. QED
      BY <3>1, <3>2
  <2> HIDE DEF new, speechless
  <2>4. QED
    BY <1>3, <2>1, <2>2, <2>3
<1>6. CASE Restart
  <2>1. tasks' = [t \in 1 .. Len(tasks) |-> Ended(tasks[t])] /\ Fault(TRUE)
    BY <1>1, <1>6 DEF Restart
  <2>2. /\ \A t \in 1 .. Len(tasks) : tasks'[t] = Ended(tasks[t]) /\ tasks'[t] \in Task
        /\ tasks' \in [1 .. Len(tasks) -> Task]
    BY <1>1, <1>2, <2>1
  <2>3. tasks' \in Seq(Task) /\ DOMAIN tasks' = DOMAIN tasks
    BY <1>1, <2>2
  <2>4. QED
    BY <1>1, <1>2, <2>1, <2>2, <2>3, FaultKeepsIInv
<1>7. QED
  BY <1>4, <1>5, <1>6

LEMMA ChangeKeepsIInv ==
    ASSUME IInv, Merge \/ SettingsChange \/ Tick
    PROVE  IInv'
<1>1. CASE Merge \/ SettingsChange
  <2>1. /\ head' \in Versions /\ live' \in Versions
        /\ count' = [count EXCEPT !.changes = count.changes + 1]
        /\ hist' = [hist EXCEPT !.calm = {}]
        /\ UNCHANGED <<clock, commits, statuses, record, comments, tasks>>
    BY <1>1 DEF Merge, SettingsChange, Changes, IInv, TypeOK
  <2>2. /\ count' \in [changes : Nat, faults : Nat]
        /\ hist' \in [calm : SUBSET DOMAIN tasks, lost : BOOLEAN, compared : Nat] /\ hist'.calm = {}
    BY <2>1 DEF IInv, TypeOK
  <2>3. QED
    BY <2>1, <2>2 DEF IInv, TypeOK, ShaInv, CalmInv
<1>2. CASE Tick
  BY <1>2 DEF Tick, IInv, TypeOK, ShaInv, CalmInv, Stands, InFlight
<1>3. QED
  BY <1>1, <1>2

-----------------------------------------------------------------------------
(* Theorems.                                                               *)

LEMMA IInvHolds == Spec => []IInv
<1>1. Init => IInv
  <2> SUFFICES ASSUME Init PROVE IInv
    OBVIOUS
  <2> DEFINE task == NewTask(1, FALSE)
  <2>1. /\ tasks = <<task>> /\ commits = <<0>> /\ statuses = <<NoStatus>>
        /\ head \in Versions /\ live \in Versions /\ clock = 0
        /\ record = "unknown" /\ comments = {} /\ count = [changes |-> 0, faults |-> 0]
        /\ hist = [calm |-> {1}, lost |-> FALSE, compared |-> 0]
    BY DEF Init
  <2>2. task \in Task /\ task.pc = "prepare" /\ task.sha = 1 /\ NoStatus \in Status
    BY DEF NewTask, Task, NoStatus, Status
  <2> HIDE DEF task
  <2>3. /\ tasks \in Seq(Task) /\ DOMAIN tasks = {1} /\ tasks[1] = task
        /\ commits \in Seq(Nat) /\ Len(commits) = 1
        /\ statuses \in Seq(Status) /\ Len(statuses) = 1
    BY <2>1, <2>2
  <2>4. hist \in [calm : SUBSET {1}, lost : BOOLEAN, compared : Nat] /\ hist.calm = {1}
    BY <2>1
  <2>5. TypeOK
    BY <2>1, <2>3, <2>4 DEF TypeOK
  <2>6. ShaInv /\ CalmInv
    BY <2>2, <2>3, <2>4 DEF ShaInv, CalmInv, Stands, InFlight
  <2>7. QED
    BY <2>5, <2>6 DEF IInv
<1>2. IInv /\ [Next]_vars => IInv'
  <2> SUFFICES ASSUME IInv, [Next]_vars PROVE IInv'
    OBVIOUS
  <2>1. CASE UNCHANGED vars
    BY <2>1 DEF vars, IInv, TypeOK, ShaInv, CalmInv, Stands, InFlight
  <2>2. QED
    BY <2>1, StepKeepsIInv, EventKeepsIInv, DisturbanceKeepsIInv, ChangeKeepsIInv DEF Next
<1>3. QED
  BY <1>1, <1>2, PTL DEF Spec

\* The values of the variables are of their types.
THEOREM TypeCorrect == Spec => []TypeOK
BY IInvHolds, PTL DEF IInv

\* A check that compares, while no other runs and nothing changes or fails, leaves
\* its record, its comment and its status in agreement with the settings, whatever
\* any number of checks before it, complete or not, have left behind.
THEOREM CalmChecksAreTrue == Spec => []CalmCheckIsTrue
<1>1. IInv => CalmCheckIsTrue
  BY DEF IInv, CalmInv, Stands, CalmCheckIsTrue
<1>2. QED
  BY <1>1, IInvHolds, PTL

-----------------------------------------------------------------------------
(* Settings: requests, patches and plans.                                  *)

\* The requests of a patch in their order, and the fields that each may carry.
OpNo == [settings |-> 1, disable |-> 2, web |-> 3, reporting |-> 4, topics |-> 5, properties |-> 6,
         pages |-> 7, scanning |-> 8, default |-> 9, permissions |-> 10, repositories |-> 11,
         actions |-> 12, defaults |-> 13, approval |-> 14, property |-> 1, rule |-> 1]

Carries(at, op) ==
    CASE op = "settings" -> IF at = "org" THEN OrgRest ELSE RepoPatch
      [] op = "disable" -> {"configs"}        [] op = "web" -> OrgWeb
      [] op = "reporting" -> {"reporting"}    [] op = "topics" -> {"topics"}
      [] op = "properties" -> {"properties"}  [] op = "pages" -> Pages
      [] op = "scanning" -> Scan              [] op = "default" -> {"default"}
      [] op = "permissions" -> {"repositories", "enabled", "allowed"}
      [] op = "repositories" -> {"picked"}    [] op = "actions" -> {"patterns"}
      [] op = "defaults" -> {"permissions", "approve"}
      [] op = "approval" -> {"policy"}        [] op = "property" -> {"property"}
      [] op = "rule" -> RuleFields            [] OTHER -> {}

PatchNo(q) ==
    IF q.op = "property" THEN 2 ELSE IF q.at = "org" THEN 1 ELSE IF q.at = "repo" THEN 3 ELSE 4

\* What a request says is what is configured; some fields are only sent together.
Want(at) == IF at = "org" THEN config.org ELSE Expected
Included(at) == IF at = "org" THEN OrgIncluded(config.org) \cup {"property"} ELSE RepoIncluded(Expected)
Pairwise(fields) ==
    /\ "title" \in fields <=> "message" \in fields
    /\ "branch" \in fields <=> "path" \in fields

Fits(q) ==
    /\ q.at \in {"org", "repo", "rule"} /\ q.op \in DOMAIN OpNo
    /\ q.op \in {"property", "disable", "web"} => q.at = "org"
    /\ q.op = "rule" <=> q.at = "rule"
    /\ DOMAIN q.data # {} /\ DOMAIN q.data \subseteq Carries(q.at, q.op) \cap Included(q.at)
    /\ q.at = "repo" => Pairwise(DOMAIN q.data)
    /\ \A f \in DOMAIN q.data : q.data[f] = Want(q.at)[f] /\ q.data[f] # Unset

\* Requests of one patch, in order.
Ordered(s, no, low, high) ==
    /\ \E S : s \in Seq(S)
    /\ \A j \in 1 .. Len(s) :
          /\ Fits(s[j]) /\ PatchNo(s[j]) = no
          /\ low < OpNo[s[j].op] /\ OpNo[s[j].op] <= high
          /\ \A l \in 1 .. Len(s) : j < l => OpNo[s[j].op] < OpNo[s[l].op]
FieldsOf(s) == UNION {DOMAIN s[j].data : j \in 1 .. Len(s)}

\* Patches in order.
Arranged(t, low, high) ==
    /\ \E S : t \in Seq(Seq(S))
    /\ \A i \in 1 .. Len(t) :
          /\ t[i] # <<>> /\ low < PatchNo(t[i][1]) /\ PatchNo(t[i][1]) <= high
          /\ Ordered(t[i], PatchNo(t[i][1]), 0, 14)
          /\ \A k \in 1 .. Len(t) : i < k => PatchNo(t[i][1]) < PatchNo(t[k][1])
InPlan(t, q) == \E i \in 1 .. Len(t) : \E j \in 1 .. Len(t[i]) : t[i][j] = q
Sends(t, at, f) == \E q : InPlan(t, q) /\ q.at = at /\ f \in DOMAIN q.data

-----------------------------------------------------------------------------
(* Settings: the parts of the inductive invariant.                         *)

\* A request is still to be sent; a field of the organization or the repository is.
IsPending(q) == InPlan(todo, q)
Coming(at, f) == Sends(todo, at, f)

\* What there is and what is configured; a plan against an earlier configuration is
\* the first and only one, and GitHub does what that says.
LiveInv ==
    /\ IsSettings([org |-> org, repo |-> repo]) /\ IsConfiguration(config) /\ IsSettings(base)
    /\ local \in BOOLEAN
    /\ pc = "idle" /\ local => Behaves([org |-> org, repo |-> repo], base) /\ past.refused = {}
    /\ "refused" \in DOMAIN past /\ "disturbed" \in DOMAIN past
    /\ branches # {} => repo.default \in branches

TodoInv == Arranged(todo, 0, 4) /\ (todo # <<>> => pc = "applying")

\* The settings of the organization that requests for the repository rely on: as long
\* as nothing fails they are as configured, or will be before it is the repository's turn.
Relevant ==
    {"signoff", "fork", "private_pages", "repositories", "property"}
    \cup {f \in {"picked"} : config.org.repositories = "selected"}
    \cup {f \in {"allowed", "permissions", "approve"} : config.org.repositories # "none"}
OrgInv == pc = "applying" => \A f \in Relevant : org[f] = config.org[f] \/ Coming("org", f)

\* The settings of the repository that a request relies on, without sending them.
InStep(f) == repo[f] = Expected[f] \/ Coming("repo", f)
RepoInv ==
    \A q : IsPending(q) /\ q.at = "repo" =>
        /\ InStep("private")
        /\ "patterns" \in DOMAIN q.data => InStep("allowed")
        /\ q.op = "scanning" => InStep("setup") /\ (repo.setup # Expected.setup \/ repo.suite # Expected.suite)
        /\ "push" \in DOMAIN q.data => InStep("scanning") \/ "scanning" \in TakenForApplied

\* Code scanning that was refused stays so, and with it the workflows stay disabled
\* that it waits for: each later patch of the repository is refused at the same request.
StuckInv ==
    (\E r \in past.refused : r.op = "scanning") =>
        /\ repo.enabled # "on" /\ Expected.setup = "on"
        /\ repo.setup # "on" \/ repo.suite # Expected.suite
        /\ Coming("repo", "enabled") => \E q : IsPending(q) /\ q.op = "scanning"

RefusedInv ==
    \A r \in past.refused :
        r.op = "scanning" \/ ("push" \in DOMAIN r.data /\ "scanning" \in TakenForApplied)

Undisturbed == IsValid(config) /\ ~past.disturbed
UndisturbedInv == Undisturbed => OrgInv /\ RepoInv /\ StuckInv /\ RefusedInv

AcceptInv == LiveInv /\ TodoInv /\ UndisturbedInv

-----------------------------------------------------------------------------
(* Settings: sequences of requests and of patches.                         *)

\* Requests in order, one part after the other.
LEMMA OrderedConcat ==
    ASSUME NEW s, NEW t, NEW no, NEW a \in Nat, NEW b \in Nat, NEW c \in Nat, a <= b, b <= c,
           Ordered(s, no, a, b), Ordered(t, no, b, c)
    PROVE  Ordered(s \o t, no, a, c) /\ FieldsOf(s \o t) = FieldsOf(s) \cup FieldsOf(t)
<1>1. PICK S : s \in Seq(S)
    BY DEF Ordered
<1>2. PICK T : t \in Seq(T)
    BY DEF Ordered
<1> DEFINE u == s \o t
<1>3. s \in Seq(S \cup T) /\ t \in Seq(S \cup T)
    BY <1>1, <1>2, SeqMonotonic
<1>4. /\ u \in Seq(S \cup T) /\ Len(u) = Len(s) + Len(t) /\ Len(s) \in Nat /\ Len(t) \in Nat
      /\ \A i \in 1 .. Len(u) : u[i] = IF i <= Len(s) THEN s[i] ELSE t[i - Len(s)]
    BY <1>3
<1>5. \A i \in 1 .. Len(u) : /\ i <= Len(s) => i \in 1 .. Len(s)
                             /\ i > Len(s) => i - Len(s) \in 1 .. Len(t)
    BY <1>4
<1>6. \A q : Fits(q) => OpNo[q.op] \in Nat
    BY DEF Fits, OpNo
<1> HIDE DEF u
<1>7. ASSUME NEW j \in 1 .. Len(u)
      PROVE  /\ Fits(u[j]) /\ PatchNo(u[j]) = no
             /\ a < OpNo[u[j].op] /\ OpNo[u[j].op] <= c
             /\ \A l \in 1 .. Len(u) : j < l => OpNo[u[j].op] < OpNo[u[l].op]
  <2>1. CASE j <= Len(s)
    <3>1. u[j] = s[j] /\ j \in 1 .. Len(s)
        BY <1>4, <1>5, <2>1
    <3>2. /\ Fits(u[j]) /\ PatchNo(u[j]) = no /\ OpNo[u[j].op] \in Nat
          /\ a < OpNo[u[j].op] /\ OpNo[u[j].op] <= b
        BY <3>1, <1>6 DEF Ordered
    <3>3. ASSUME NEW l \in 1 .. Len(u), j < l PROVE OpNo[u[j].op] < OpNo[u[l].op]
      <4>1. CASE l <= Len(s)
        BY <4>1, <3>1, <1>4, <1>5, <3>3 DEF Ordered
      <4>2. CASE l > Len(s)
        <5>1. u[l] = t[l - Len(s)] /\ l - Len(s) \in 1 .. Len(t)
            BY <1>4, <1>5, <4>2
        <5>2. b < OpNo[u[l].op] /\ OpNo[u[l].op] \in Nat
            BY <5>1, <1>6 DEF Ordered
        <5> QED
            BY <5>2, <3>2
      <4> QED
        BY <4>1, <4>2, <1>4
    <3> QED
        BY <3>2, <3>3
  <2>2. CASE j > Len(s)
    <3>1. u[j] = t[j - Len(s)] /\ j - Len(s) \in 1 .. Len(t)
        BY <1>4, <1>5, <2>2
    <3>2. /\ Fits(u[j]) /\ PatchNo(u[j]) = no /\ OpNo[u[j].op] \in Nat
          /\ b < OpNo[u[j].op] /\ OpNo[u[j].op] <= c
        BY <3>1, <1>6 DEF Ordered
    <3>3. ASSUME NEW l \in 1 .. Len(u), j < l PROVE OpNo[u[j].op] < OpNo[u[l].op]
      <4>1. u[l] = t[l - Len(s)] /\ l - Len(s) \in 1 .. Len(t) /\ j - Len(s) < l - Len(s)
        BY <1>4, <1>5, <2>2, <3>3
      <4> QED
        BY <4>1, <3>1 DEF Ordered
    <3> QED
        BY <3>2, <3>3
  <2> QED
    BY <2>1, <2>2, <1>4
<1>8. Ordered(u, no, a, c)
    BY <1>4, <1>7 DEF Ordered
<1>9. FieldsOf(u) = FieldsOf(s) \cup FieldsOf(t)
  <2>1. ASSUME NEW f, f \in FieldsOf(u) PROVE f \in FieldsOf(s) \cup FieldsOf(t)
    BY <2>1, <1>4, <1>5 DEF FieldsOf
  <2>2. ASSUME NEW f, f \in FieldsOf(s) PROVE f \in FieldsOf(u)
    <3>1. PICK j \in 1 .. Len(s) : f \in DOMAIN s[j].data
        BY <2>2 DEF FieldsOf
    <3>2. j \in 1 .. Len(u) /\ u[j] = s[j]
        BY <1>4
    <3> QED
        BY <3>1, <3>2 DEF FieldsOf
  <2>3. ASSUME NEW f, f \in FieldsOf(t) PROVE f \in FieldsOf(u)
    <3>1. PICK j \in 1 .. Len(t) : f \in DOMAIN t[j].data
        BY <2>3 DEF FieldsOf
    <3>2. j + Len(s) \in 1 .. Len(u) /\ u[j + Len(s)] = t[j]
        BY <1>4
    <3> QED
        BY <3>1, <3>2 DEF FieldsOf
  <2> QED
    BY <2>1, <2>2, <2>3
<1> QED
    BY <1>8, <1>9 DEF u

\* A part of a patch: one request, or none if there is nothing to send.
LEMMA PartIsOrdered ==
    ASSUME NEW at \in {"org", "repo", "rule"}, NEW op \in DOMAIN OpNo, NEW values, NEW fields,
           NEW no, NEW a \in Nat, NEW b \in Nat, a < OpNo[op], OpNo[op] <= b,
           no = PatchNo([at |-> at, op |-> op]),
           op \in {"property", "disable", "web"} => at = "org", op = "rule" <=> at = "rule",
           fields \subseteq Carries(at, op) \cap Included(at), at = "repo" => Pairwise(fields),
           \A f \in fields : values[f] = Want(at)[f] /\ values[f] # Unset
    PROVE  Ordered(Part(at, op, values, fields), no, a, b) /\ FieldsOf(Part(at, op, values, fields)) = fields
<1> DEFINE q == Request(at, op, values, fields)
<1>1. /\ q.at = at /\ q.op = op /\ DOMAIN q.data = fields
      /\ \A f \in fields : q.data[f] = values[f]
    BY DEF Request
<1>2. PatchNo(q) = no
    BY <1>1 DEF PatchNo
<1>3. fields # {} => Fits(q)
    BY <1>1 DEF Fits
<1> HIDE DEF q
<1>4. CASE fields = {}
  <2>1. Part(at, op, values, fields) = <<>>
    BY <1>4 DEF Part, Unless
  <2> QED
    BY <2>1, <1>4 DEF Ordered, FieldsOf
<1>5. CASE fields # {}
  <2>1. Part(at, op, values, fields) = <<q>>
    BY <1>5 DEF Part, Unless, q
  <2>2. Ordered(<<q>>, no, a, b)
    <3>1. <<q>> \in Seq({q}) /\ Len(<<q>>) = 1 /\ <<q>>[1] = q
        OBVIOUS
    <3>2. \E S : <<q>> \in Seq(S)
        BY <3>1
    <3> QED
        BY <3>1, <3>2, <1>1, <1>2, <1>3, <1>5 DEF Ordered
  <2>3. FieldsOf(<<q>>) = fields
    BY <1>1 DEF FieldsOf
  <2> QED
    BY <2>1, <2>2, <2>3
<1> QED
    BY <1>4, <1>5

\* Without requests every order holds.
LEMMA NothingIsOrdered ==
    ASSUME NEW no, NEW a, NEW b
    PROVE  Ordered(<<>>, no, a, b) /\ FieldsOf(<<>>) = {}
BY DEF Ordered, FieldsOf

\* Patches in order, one group after the other.
LEMMA ArrangedConcat ==
    ASSUME NEW t, NEW u, NEW a \in Nat, NEW b \in Nat, NEW c \in Nat, a <= b, b <= c,
           Arranged(t, a, b), Arranged(u, b, c)
    PROVE  /\ Arranged(t \o u, a, c)
           /\ \A q : InPlan(t \o u, q) <=> InPlan(t, q) \/ InPlan(u, q)
<1>1. PICK S : t \in Seq(Seq(S))
    BY DEF Arranged
<1>2. PICK T : u \in Seq(Seq(T))
    BY DEF Arranged
<1> DEFINE v == t \o u
<1>3. t \in Seq(Seq(S \cup T)) /\ u \in Seq(Seq(S \cup T))
    <2>1. Seq(S) \subseteq Seq(S \cup T) /\ Seq(T) \subseteq Seq(S \cup T)
        BY SeqMonotonic
    <2> QED
        BY <1>1, <1>2, <2>1, SeqMonotonic
<1>4. /\ v \in Seq(Seq(S \cup T)) /\ Len(v) = Len(t) + Len(u) /\ Len(t) \in Nat /\ Len(u) \in Nat
      /\ \A i \in 1 .. Len(v) : v[i] = IF i <= Len(t) THEN t[i] ELSE u[i - Len(t)]
    BY <1>3
<1>5. /\ Len(v) = Len(t) + Len(u) /\ Len(t) \in Nat /\ Len(u) \in Nat
      /\ \A i \in 1 .. Len(v) : /\ i <= Len(t) => i \in 1 .. Len(t) /\ v[i] = t[i]
                                /\ i > Len(t) => i - Len(t) \in 1 .. Len(u) /\ v[i] = u[i - Len(t)]
      /\ \A i \in 1 .. Len(t) : i \in 1 .. Len(v)
      /\ \A i \in 1 .. Len(u) : i + Len(t) \in 1 .. Len(v) /\ (i + Len(t)) - Len(t) = i /\ i + Len(t) > Len(t)
    BY <1>4
<1>6. \A q : PatchNo(q) \in Nat
    BY DEF PatchNo
<1> HIDE DEF v
<1>7. ASSUME NEW i \in 1 .. Len(v)
      PROVE  /\ v[i] # <<>> /\ a < PatchNo(v[i][1]) /\ PatchNo(v[i][1]) <= c
             /\ Ordered(v[i], PatchNo(v[i][1]), 0, 14)
             /\ \A k \in 1 .. Len(v) : i < k => PatchNo(v[i][1]) < PatchNo(v[k][1])
  <2>1. CASE i <= Len(t)
    <3>1. v[i] = t[i] /\ i \in 1 .. Len(t)
        BY <1>5, <2>1
    <3>2. /\ v[i] # <<>> /\ a < PatchNo(v[i][1]) /\ PatchNo(v[i][1]) <= b
          /\ Ordered(v[i], PatchNo(v[i][1]), 0, 14)
        BY <3>1 DEF Arranged
    <3>3. ASSUME NEW k \in 1 .. Len(v), i < k PROVE PatchNo(v[i][1]) < PatchNo(v[k][1])
      <4>1. CASE k <= Len(t)
        BY <4>1, <3>1, <1>5, <3>3 DEF Arranged
      <4>2. CASE k > Len(t)
        <5>1. v[k] = u[k - Len(t)] /\ k - Len(t) \in 1 .. Len(u)
            BY <1>5, <4>2
        <5>2. b < PatchNo(v[k][1])
            BY <5>1 DEF Arranged
        <5> QED
            BY <5>2, <3>2, <1>6
      <4> QED
        BY <4>1, <4>2, <1>5
    <3> QED
        BY <3>2, <3>3, <1>6
  <2>2. CASE i > Len(t)
    <3>1. v[i] = u[i - Len(t)] /\ i - Len(t) \in 1 .. Len(u)
        BY <1>5, <2>2
    <3>2. /\ v[i] # <<>> /\ b < PatchNo(v[i][1]) /\ PatchNo(v[i][1]) <= c
          /\ Ordered(v[i], PatchNo(v[i][1]), 0, 14)
        BY <3>1 DEF Arranged
    <3>3. ASSUME NEW k \in 1 .. Len(v), i < k PROVE PatchNo(v[i][1]) < PatchNo(v[k][1])
      <4>1. v[k] = u[k - Len(t)] /\ k - Len(t) \in 1 .. Len(u) /\ i - Len(t) < k - Len(t)
        BY <1>5, <2>2, <3>3
      <4> QED
        BY <4>1, <3>1 DEF Arranged
    <3> QED
        BY <3>2, <3>3, <1>6
  <2> QED
    BY <2>1, <2>2, <1>5
<1>8. Arranged(v, a, c)
    BY <1>4, <1>7 DEF Arranged
<1>9. ASSUME NEW q PROVE InPlan(v, q) <=> InPlan(t, q) \/ InPlan(u, q)
  <2>1. ASSUME InPlan(v, q) PROVE InPlan(t, q) \/ InPlan(u, q)
    <3>1. PICK i \in 1 .. Len(v) : \E j \in 1 .. Len(v[i]) : v[i][j] = q
        BY <2>1 DEF InPlan
    <3>2. CASE i <= Len(t)
      <4>1. i \in 1 .. Len(t) /\ v[i] = t[i]
        BY <3>2, <1>5
      <4> QED
        BY <3>1, <4>1 DEF InPlan
    <3>3. CASE i > Len(t)
      <4>1. i - Len(t) \in 1 .. Len(u) /\ v[i] = u[i - Len(t)]
        BY <3>3, <1>5
      <4> QED
        BY <3>1, <4>1 DEF InPlan
    <3> QED
        BY <3>2, <3>3, <1>5
  <2>2. ASSUME InPlan(t, q) PROVE InPlan(v, q)
    <3>1. PICK i \in 1 .. Len(t) : \E j \in 1 .. Len(t[i]) : t[i][j] = q
        BY <2>2 DEF InPlan
    <3>2. i \in 1 .. Len(v) /\ v[i] = t[i]
        BY <1>5
    <3> QED
        BY <3>1, <3>2 DEF InPlan
  <2>3. ASSUME InPlan(u, q) PROVE InPlan(v, q)
    <3>1. PICK i \in 1 .. Len(u) : \E j \in 1 .. Len(u[i]) : u[i][j] = q
        BY <2>3 DEF InPlan
    <3>2. i + Len(t) \in 1 .. Len(v) /\ v[i + Len(t)] = u[(i + Len(t)) - Len(t)]
        BY <1>5
    <3>3. v[i + Len(t)] = u[i]
        BY <3>2, <1>5
    <3> QED
        BY <3>1, <3>2, <3>3 DEF InPlan
  <2> QED
    BY <2>1, <2>2, <2>3
<1> QED
    BY <1>8, <1>9 DEF v

\* A patch of a plan, if there is anything to send.
LEMMA PatchIsArranged ==
    ASSUME NEW s, NEW no \in 1 .. 4, Ordered(s, no, 0, 14)
    PROVE  /\ Arranged(IfAny(s), no - 1, no)
           /\ \A q : InPlan(IfAny(s), q) => PatchNo(q) = no /\ DOMAIN q.data \subseteq FieldsOf(s)
           /\ \A f \in FieldsOf(s) : \E q : InPlan(IfAny(s), q) /\ f \in DOMAIN q.data
<1>1. PICK S : s \in Seq(S)
    BY DEF Ordered
<1>2. CASE s = <<>>
  <2>1. IfAny(s) = <<>> /\ FieldsOf(s) = {}
    BY <1>2 DEF IfAny, FieldsOf
  <2>2. <<>> \in Seq(Seq({}))
    OBVIOUS
  <2> QED
    BY <2>1, <2>2 DEF Arranged, InPlan
<1>3. CASE s # <<>>
  <2>1. IfAny(s) = <<s>> /\ <<s>> \in Seq(Seq(S)) /\ Len(<<s>>) = 1 /\ <<s>>[1] = s
    BY <1>1, <1>3 DEF IfAny
  <2>2. 1 \in 1 .. Len(s)
    BY <1>1, <1>3
  <2>3. PatchNo(s[1]) = no
    BY <2>2 DEF Ordered
  <2>4. \E U : <<s>> \in Seq(Seq(U))
    BY <2>1
  <2>5. Arranged(<<s>>, no - 1, no)
    BY <2>1, <2>3, <2>4, <1>3 DEF Arranged
  <2>6. \A q : InPlan(<<s>>, q) <=> \E j \in 1 .. Len(s) : s[j] = q
    BY <2>1 DEF InPlan
  <2>7. \A q : InPlan(<<s>>, q) => PatchNo(q) = no /\ DOMAIN q.data \subseteq FieldsOf(s)
    BY <2>6 DEF Ordered, FieldsOf
  <2>8. \A f \in FieldsOf(s) : \E j \in 1 .. Len(s) : f \in DOMAIN s[j].data
    BY DEF FieldsOf
  <2> QED
    BY <2>1, <2>5, <2>6, <2>7, <2>8
<1> QED
    BY <1>2, <1>3

\* The request that is sent now comes before all others that are left.
LEMMA NowFacts ==
    ASSUME TodoInv, todo # <<>>
    PROVE  /\ IsPending(Now) /\ Fits(Now)
           /\ \A q : IsPending(q) =>
                 /\ Fits(q)
                 /\ \/ q = Now \/ PatchNo(Now) < PatchNo(q)
                    \/ PatchNo(Now) = PatchNo(q) /\ OpNo[Now.op] < OpNo[q.op]
<1>1. PICK S : todo \in Seq(Seq(S))
    BY DEF TodoInv, Arranged
<1>2. Len(todo) \in Nat /\ 1 \in 1 .. Len(todo) /\ Head(todo) = todo[1]
    BY <1>1
<1>3. todo[1] \in Seq(S) /\ todo[1] # <<>>
    BY <1>1, <1>2 DEF TodoInv, Arranged
<1>4. 1 \in 1 .. Len(todo[1]) /\ Now = todo[1][1]
    BY <1>2, <1>3 DEF Now
<1>5. \A i \in 1 .. Len(todo) : Ordered(todo[i], PatchNo(todo[i][1]), 0, 14)
    BY DEF TodoInv, Arranged
<1>6. IsPending(Now) /\ Fits(Now)
    BY <1>2, <1>4, <1>5 DEF IsPending, InPlan, Ordered
<1>7. ASSUME NEW q, IsPending(q)
      PROVE  /\ Fits(q)
             /\ \/ q = Now \/ PatchNo(Now) < PatchNo(q)
                \/ PatchNo(Now) = PatchNo(q) /\ OpNo[Now.op] < OpNo[q.op]
  <2>1. PICK i \in 1 .. Len(todo) : \E j \in 1 .. Len(todo[i]) : todo[i][j] = q
    BY <1>7 DEF IsPending, InPlan
  <2>2. PICK j \in 1 .. Len(todo[i]) : todo[i][j] = q
    BY <2>1
  <2>3. Fits(q) /\ PatchNo(q) = PatchNo(todo[i][1])
    BY <2>2, <1>5 DEF Ordered
  <2>4. CASE i = 1
    <3>1. PatchNo(q) = PatchNo(Now)
        BY <2>3, <2>4, <1>4
    <3>2. j = 1 => q = Now
        BY <2>2, <2>4, <1>4
    <3>3. j > 1 => OpNo[Now.op] < OpNo[q.op]
        BY <2>2, <2>4, <1>4, <1>5, <1>2 DEF Ordered
    <3> QED
        BY <2>3, <3>1, <3>2, <3>3, <1>3, <2>4
  <2>5. CASE i > 1
    <3>1. PatchNo(todo[1][1]) < PatchNo(todo[i][1])
        BY <1>2, <2>5 DEF TodoInv, Arranged
    <3> QED
        BY <2>3, <3>1, <1>4
  <2> QED
    BY <2>4, <2>5, <1>2
<1> QED
    BY <1>6, <1>7

\* What is left after the whole patch, of a plan in which each patch is for something else.
LEMMA SkipFacts ==
    ASSUME TodoInv, todo # <<>>, todo' = Tail(todo), UNCHANGED <<config, pc>>
    PROVE  /\ TodoInv'
           /\ \A q : IsPending(q)' => IsPending(q) /\ PatchNo(Now) < PatchNo(q)
<1>1. PICK S : todo \in Seq(Seq(S))
    BY DEF TodoInv, Arranged
<1> DEFINE t == Tail(todo)
<1>2. /\ t \in Seq(Seq(S)) /\ Len(t) = Len(todo) - 1 /\ Len(todo) \in Nat /\ Len(todo) > 0
      /\ \A i \in 1 .. Len(t) : t[i] = todo[i + 1] /\ i + 1 \in 1 .. Len(todo)
    BY <1>1
<1> HIDE DEF t
<1>3. Arranged(t, 0, 4)
  <2>1. \A i \in 1 .. Len(t) :
          /\ t[i] # <<>> /\ 0 < PatchNo(t[i][1]) /\ PatchNo(t[i][1]) <= 4
          /\ Ordered(t[i], PatchNo(t[i][1]), 0, 14)
    BY <1>2 DEF TodoInv, Arranged
  <2>2. ASSUME NEW i \in 1 .. Len(t), NEW k \in 1 .. Len(t), i < k
        PROVE  PatchNo(t[i][1]) < PatchNo(t[k][1])
    <3>1. i + 1 \in 1 .. Len(todo) /\ k + 1 \in 1 .. Len(todo) /\ i + 1 < k + 1
        BY <1>2, <2>2
    <3> QED
        BY <3>1, <1>2 DEF TodoInv, Arranged
  <2> QED
    BY <2>1, <2>2, <1>2 DEF Arranged
<1>4. Arranged(todo, 0, 4)'
  <2>1. todo' = t
    BY DEF t
  <2>2. \A q : Fits(q)' <=> Fits(q)
    BY DEF Fits, Want, Included, Expected
  <2> QED
    BY <1>3, <2>1, <2>2 DEF Arranged, Ordered
<1>5. ASSUME NEW q, InPlan(t, q) PROVE IsPending(q) /\ PatchNo(Now) < PatchNo(q)
  <2>1. PICK i \in 1 .. Len(t) : \E j \in 1 .. Len(t[i]) : t[i][j] = q
    BY <1>5 DEF InPlan
  <2>2. IsPending(q)
    BY <2>1, <1>2 DEF IsPending, InPlan
  <2>3. PatchNo(q) = PatchNo(t[i][1])
    BY <1>3, <2>1 DEF Arranged, Ordered
  <2>4. PatchNo(todo[1][1]) < PatchNo(todo[i + 1][1])
    <3>1. 1 \in 1 .. Len(todo) /\ i + 1 \in 1 .. Len(todo) /\ 1 < i + 1
        BY <1>2
    <3> QED
        BY <3>1 DEF TodoInv, Arranged
  <2>5. Now = todo[1][1]
    <3>1. todo[1] \in Seq(S) /\ todo[1] # <<>> /\ Head(todo) = todo[1]
        BY <1>1, <1>2 DEF TodoInv, Arranged
    <3> QED
        BY <3>1 DEF Now
  <2> QED
    BY <2>2, <2>3, <2>4, <2>5, <1>2
<1>6. \A q : IsPending(q)' <=> InPlan(t, q)
    BY DEF IsPending, t, InPlan
<1>7. todo' # <<>> => pc' = "applying"
    BY DEF TodoInv
<1> QED
    BY <1>4, <1>5, <1>6, <1>7 DEF TodoInv

\* A patch is left with the requests after its first one.
LEMMA TailIsOrdered ==
    ASSUME NEW s, NEW no, NEW S, s \in Seq(S), Len(s) > 1, Ordered(s, no, 0, 14)
    PROVE  /\ Tail(s) \in Seq(S) /\ Tail(s) # <<>> /\ Ordered(Tail(s), no, 0, 14)
           /\ \A q : (\E j \in 1 .. Len(s) : s[j] = q)
                        <=> q = s[1] \/ \E j \in 1 .. Len(Tail(s)) : Tail(s)[j] = q
           /\ \A j \in 1 .. Len(Tail(s)) : Tail(s)[j] # s[1]
<1> DEFINE t == Tail(s)
<1>1. /\ t \in Seq(S) /\ Len(t) = Len(s) - 1 /\ Len(s) \in Nat
      /\ \A j \in 1 .. Len(t) : t[j] = s[j + 1] /\ j + 1 \in 1 .. Len(s)
    OBVIOUS
<1> HIDE DEF t
<1>2. ASSUME NEW j \in 1 .. Len(t), NEW l \in 1 .. Len(t), j < l
      PROVE  OpNo[t[j].op] < OpNo[t[l].op]
  <2>1. j + 1 \in 1 .. Len(s) /\ l + 1 \in 1 .. Len(s) /\ j + 1 < l + 1
    BY <1>1, <1>2
  <2> QED
    BY <2>1, <1>1 DEF Ordered
<1>3. Ordered(t, no, 0, 14)
    BY <1>1, <1>2 DEF Ordered
<1>4. ASSUME NEW q, NEW j \in 1 .. Len(s), s[j] = q, j # 1 PROVE \E l \in 1 .. Len(t) : t[l] = q
  <2>1. j - 1 \in 1 .. Len(t) /\ (j - 1) + 1 = j
    BY <1>1, <1>4
  <2>2. t[j - 1] = s[(j - 1) + 1]
    BY <2>1, <1>1
  <2> QED
    BY <2>1, <2>2, <1>4
<1>5. 1 \in 1 .. Len(s)
    BY <1>1
<1>6. ASSUME NEW q
      PROVE  (\E j \in 1 .. Len(s) : s[j] = q) <=> q = s[1] \/ \E j \in 1 .. Len(t) : t[j] = q
  <2>1. (\E j \in 1 .. Len(s) : s[j] = q) => q = s[1] \/ \E j \in 1 .. Len(t) : t[j] = q
    BY <1>4
  <2>2. q = s[1] => \E j \in 1 .. Len(s) : s[j] = q
    BY <1>5
  <2>3. (\E j \in 1 .. Len(t) : t[j] = q) => \E j \in 1 .. Len(s) : s[j] = q
    BY <1>1
  <2> QED
    BY <2>1, <2>2, <2>3
<1>7. t # <<>>
    BY <1>1
<1>8. ASSUME NEW j \in 1 .. Len(t) PROVE t[j] # s[1]
  <2>1. OpNo[s[1].op] < OpNo[s[j + 1].op] /\ Fits(s[1])
    BY <1>1, <1>5 DEF Ordered
  <2>2. OpNo[s[1].op] \in Nat
    BY <2>1 DEF Fits, OpNo
  <2> QED
    BY <2>1, <2>2, <1>1
<1> QED
    BY <1>1, <1>3, <1>6, <1>7, <1>8 DEF t

\* What is left after a request: all the others.
LEMMA AdvanceFacts ==
    ASSUME TodoInv, todo # <<>>, Advance, UNCHANGED <<config, pc>>
    PROVE  /\ TodoInv'
           /\ \A q : IsPending(q)' => IsPending(q) /\ q # Now
           /\ \A q : IsPending(q) /\ q # Now => IsPending(q)'
<1>1. PICK S : todo \in Seq(Seq(S))
    BY DEF TodoInv, Arranged
<1>2. Len(todo) \in Nat /\ 1 \in 1 .. Len(todo) /\ Head(todo) = todo[1] /\ todo[1] \in Seq(S) /\ todo[1] # <<>>
    BY <1>1 DEF TodoInv, Arranged
<1>3. Len(todo[1]) \in Nat /\ 1 \in 1 .. Len(todo[1]) /\ Now = todo[1][1]
    BY <1>2 DEF Now
<1>4. CASE Len(todo[1]) = 1
  <2>1. todo' = Tail(todo)
    BY <1>2, <1>4 DEF Advance
  <2>2. TodoInv' /\ \A q : IsPending(q)' => IsPending(q) /\ q # Now
    <3>1. PatchNo(Now) \in Nat
        BY DEF PatchNo
    <3> QED
        BY <2>1, <3>1, SkipFacts
  <2>3. ASSUME NEW q, IsPending(q), q # Now PROVE IsPending(q)'
    <3>1. PICK i \in 1 .. Len(todo) : \E j \in 1 .. Len(todo[i]) : todo[i][j] = q
        BY <2>3 DEF IsPending, InPlan
    <3>2. i # 1
        BY <3>1, <2>3, <1>3, <1>4
    <3>3. i - 1 \in 1 .. Len(todo') /\ todo'[i - 1] = todo[i]
        BY <3>2, <2>1, <1>1
    <3> QED
        BY <3>1, <3>3 DEF IsPending, InPlan
  <2> QED
    BY <2>2, <2>3
<1>5. CASE Len(todo[1]) # 1
  <2> DEFINE s == Tail(todo[1])
             t == [todo EXCEPT ![1] = s]
  <2>1. Len(todo[1]) > 1
    BY <1>3, <1>5
  <2>2. Ordered(todo[1], PatchNo(todo[1][1]), 0, 14)
    BY <1>2 DEF TodoInv, Arranged
  <2>3. /\ s \in Seq(S) /\ s # <<>> /\ Ordered(s, PatchNo(todo[1][1]), 0, 14)
        /\ \A q : (\E j \in 1 .. Len(todo[1]) : todo[1][j] = q) => q = Now \/ \E j \in 1 .. Len(s) : s[j] = q
        /\ \A j \in 1 .. Len(s) : s[j] # Now /\ \E l \in 1 .. Len(todo[1]) : todo[1][l] = s[j]
    <3> DEFINE p == todo[1]
               n == PatchNo(p[1])
    <3>1. p \in Seq(S) /\ Len(p) > 1 /\ Ordered(p, n, 0, 14)
        BY <2>1, <2>2, <1>2
    <3> HIDE DEF p, n
    <3>2. /\ Tail(p) \in Seq(S) /\ Tail(p) # <<>> /\ Ordered(Tail(p), n, 0, 14)
          /\ \A q : (\E j \in 1 .. Len(p) : p[j] = q) <=> q = p[1] \/ \E j \in 1 .. Len(Tail(p)) : Tail(p)[j] = q
          /\ \A j \in 1 .. Len(Tail(p)) : Tail(p)[j] # p[1]
        BY <3>1, TailIsOrdered
    <3>3. \A j \in 1 .. Len(Tail(p)) : Tail(p)[j] # p[1] /\ \E l \in 1 .. Len(p) : p[l] = Tail(p)[j]
        BY <3>2
    <3>4. \A q : (\E j \in 1 .. Len(p) : p[j] = q) => q = p[1] \/ \E j \in 1 .. Len(Tail(p)) : Tail(p)[j] = q
        BY <3>2
    <3> QED
        BY <3>2, <3>3, <3>4, <1>3 DEF p, n
  <2>4. todo' = t
    BY <1>2, <1>5 DEF Advance
  <2> HIDE DEF s
  <2>5. /\ t \in Seq(Seq(S)) /\ Len(t) = Len(todo) /\ t[1] = s
        /\ \A i \in 1 .. Len(t) : i # 1 => t[i] = todo[i]
    BY <2>3, <1>1
  <2>6. PatchNo(s[1]) = PatchNo(todo[1][1])
    <3>1. 1 \in 1 .. Len(s)
        BY <2>3
    <3> QED
        BY <3>1, <2>3 DEF Ordered
  <2> HIDE DEF t
  <2>7. \A i \in 1 .. Len(t) : /\ t[i] # <<>> /\ PatchNo(t[i][1]) = PatchNo(todo[i][1])
                               /\ Ordered(t[i], PatchNo(t[i][1]), 0, 14)
    BY <2>3, <2>5, <2>6 DEF TodoInv, Arranged
  <2>8. Arranged(t, 0, 4)
    BY <2>5, <2>7 DEF TodoInv, Arranged
  <2>9. Arranged(todo, 0, 4)'
    <3>1. \A q : Fits(q)' <=> Fits(q)
        BY DEF Fits, Want, Included, Expected
    <3> QED
        BY <2>8, <2>4, <3>1 DEF Arranged, Ordered
  <2>10. \A q : IsPending(q)' <=> InPlan(t, q)
    BY <2>4 DEF IsPending, InPlan
  <2>11. ASSUME NEW q, InPlan(t, q) PROVE IsPending(q) /\ q # Now
    <3>1. PICK i \in 1 .. Len(t) : \E j \in 1 .. Len(t[i]) : t[i][j] = q
        BY <2>11 DEF InPlan
    <3>2. (\E j \in 1 .. Len(todo[i]) : todo[i][j] = q) /\ (i = 1 => q # Now)
      <4>1. CASE i = 1
        BY <3>1, <4>1, <2>3, <2>5
      <4>2. CASE i # 1
        BY <3>1, <4>2, <2>5
      <4> QED
        BY <4>1, <4>2
    <3>3. IsPending(q)
        BY <3>1, <3>2, <2>5 DEF IsPending, InPlan
    <3>4. CASE i = 1
        BY <3>4, <3>2, <3>3
    <3>5. CASE i # 1
      <4>1. PatchNo(todo[1][1]) < PatchNo(todo[i][1]) /\ PatchNo(Now) \in Nat
        <5>1. i \in 1 .. Len(todo) /\ 1 < i
            BY <3>1, <3>5, <2>5, <1>2
        <5>2. \A q2 : PatchNo(q2) \in Nat
            BY DEF PatchNo
        <5> QED
            BY <5>1, <5>2, <1>2 DEF TodoInv, Arranged
      <4>2. PatchNo(q) = PatchNo(todo[i][1])
        BY <3>2, <2>5 DEF TodoInv, Arranged, Ordered
      <4> QED
        BY <4>1, <4>2, <3>3, <1>3
    <3> QED
        BY <3>4, <3>5
  <2>12. ASSUME NEW q, IsPending(q), q # Now PROVE InPlan(t, q)
    <3>1. PICK i \in 1 .. Len(todo) : \E j \in 1 .. Len(todo[i]) : todo[i][j] = q
        BY <2>12 DEF IsPending, InPlan
    <3>2. CASE i = 1
        BY <3>1, <3>2, <2>3, <2>5, <2>12, <1>2 DEF InPlan
    <3>3. CASE i # 1
        BY <3>1, <3>3, <2>5 DEF InPlan
    <3> QED
        BY <3>2, <3>3
  <2>13. todo' # <<>> => pc' = "applying"
    BY DEF TodoInv
  <2> QED
    BY <2>9, <2>10, <2>11, <2>12, <2>13 DEF TodoInv
<1> QED
    BY <1>4, <1>5

-----------------------------------------------------------------------------
(* Settings: what is expected, and what validation says of it.             *)

\* Coercion keeps a value or takes it away, but for two fields.
LEMMA ExpectedFacts ==
    ASSUME IsConfiguration(config)
    PROVE  /\ DOMAIN Expected = RepoFields
           /\ \A f \in RepoFields \ {"properties", "discussions"} :
                  Expected[f] # Unset => Expected[f] = config.repo[f]
           /\ \A f \in {"private", "forking", "title", "message", "scanning", "push", "setup", "suite",
                        "build", "branch", "path"} \cup RuleFields : Expected[f] = config.repo[f]
           /\ \A f \in RepoFields \ {"visibility", "projects", "signoff", "enabled", "allowed", "patterns", "permissions", "approve"} :
                  Expected[f] # Unset
           /\ Expected.signoff # Unset => config.org.signoff # "on"
           /\ Expected.enabled # Unset => Admits(config.org)
           /\ Expected.allowed # Unset \/ Expected.patterns # Unset =>
                  ~Restricts(config.org, config.repo.allowed) /\ Expected.allowed = config.repo.allowed
           /\ Expected.permissions # Unset => config.org.permissions # "read"
           /\ Expected.approve # Unset => config.org.approve # "off"
           /\ Expected.properties = CoercedRepo(config.org, config.repo).properties
           /\ Expected.discussions = CoercedRepo(config.org, config.repo).discussions
<1> DEFINE c == CoercedRepo(config.org, config.repo)
           o == config.org
           r == config.repo
<1>1. DOMAIN r = RepoFields /\ \A f \in RepoFields : r[f] # Unset
    BY DEF IsConfiguration, IsSettings
<1>2. /\ DOMAIN c = RepoFields
      /\ \A f \in RepoFields : c[f] =
            CASE f = "projects"   /\ o.projects = "off"       -> Unset
              [] f = "signoff"    /\ o.signoff = "on"         -> Unset
              [] f = "visibility" /\ o.plan # "enterprise"    -> Unset
              [] f = "properties" /\ o.property = "required" /\ r[f] = "none" -> "usual"
              [] f = "discussions" /\ o.discussions = "on"    -> "on"
              [] OTHER -> r[f]
    BY <1>1 DEF CoercedRepo
<1> HIDE DEF c
<1>3. /\ \A f \in RepoFields \ {"projects", "signoff", "visibility", "properties", "discussions"} : c[f] = r[f]
      /\ \A f \in {"projects", "signoff", "visibility"} : c[f] # Unset => c[f] = r[f]
      /\ c.signoff # Unset => o.signoff # "on"
      /\ c.properties # Unset /\ c.discussions # Unset
    <2>1. {"projects", "signoff", "visibility", "properties", "discussions"} \subseteq RepoFields
        BY DEF RepoFields, RepoPatch, RepoOwn, Pages
    <2> QED
        BY <1>1, <1>2, <2>1 DEF Unset
<1>4. "allowed" \in RepoFields /\ c.allowed = r.allowed
    BY <1>3 DEF RepoFields, RepoFlow
<1>5. /\ DOMAIN Expected = RepoFields
      /\ \A f \in RepoFields : Expected[f] =
            CASE f = "enabled" /\ ~Admits(o) -> Unset
              [] f \in {"allowed", "patterns"} /\ Restricts(o, r.allowed) -> Unset
              [] f = "permissions" /\ o.permissions = "read" -> Unset
              [] f = "approve" /\ o.approve = "off" -> Unset
              [] OTHER -> c[f]
    BY <1>2, <1>4 DEF Expected, CoercedFlow, c
<1>6. /\ \A f \in RepoFields \ {"enabled", "allowed", "patterns", "permissions", "approve"} : Expected[f] = c[f]
      /\ \A f \in {"enabled", "allowed", "patterns", "permissions", "approve"} :
             f \in RepoFields /\ (Expected[f] # Unset => Expected[f] = c[f])
      /\ Expected.enabled # Unset => Admits(config.org)
      /\ Expected.allowed # Unset \/ Expected.patterns # Unset =>
                  ~Restricts(config.org, config.repo.allowed) /\ Expected.allowed = c.allowed
      /\ Expected.permissions # Unset => config.org.permissions # "read"
      /\ Expected.approve # Unset => config.org.approve # "off"
    <2>1. {"enabled", "allowed", "patterns", "permissions", "approve"} \subseteq RepoFields
        BY DEF RepoFields, RepoFlow
    <2> QED
        BY <1>5, <2>1
<1>7. {"private", "forking", "title", "message", "scanning", "push", "setup", "suite",
          "build", "branch", "path"} \cup RuleFields
      \subseteq RepoFields \ {"projects", "signoff", "visibility", "properties", "discussions",
                              "enabled", "allowed", "patterns", "permissions", "approve"}
    BY DEF RepoFields, RepoPatch, RepoOwn, Pages, Scan, RuleFields
<1>8. {"properties", "discussions", "signoff"}
      \subseteq RepoFields \ {"enabled", "allowed", "patterns", "permissions", "approve"}
    BY DEF RepoFields, RepoPatch, RepoOwn
<1> QED
    BY <1>1, <1>3, <1>4, <1>5, <1>6, <1>7, <1>8 DEF c

\* What the requests of a patch of the repository carry.
LEMMA IncludedFacts ==
    ASSUME NEW f \in RepoIncluded(Expected)
    PROVE  /\ f \in RepoFields
           /\ f \in {"scanning", "push", "reporting"} => Expected.private # "on"
           /\ f \in Pages \ {"build"} => Expected.build # "disabled"
           /\ f = "suite" => Expected.setup # "off"
           /\ f \in RepoFlow \ {"enabled"} => Expected.enabled = "on"
           /\ f = "patterns" => Expected.allowed \notin {"all", "local_only"}
           /\ f \in RuleFields \ {"creations", "fetch"} => f \notin Ignored(Expected)
<1>1. /\ f \in RepoFields
      /\ f \in {"scanning", "push", "reporting"} => Expected.private # "on"
      /\ f \in Pages \ {"build"} => Expected.build # "disabled"
      /\ f = "suite" => Expected.setup # "off"
      /\ f \in RepoFlow => RepoFlowIncluded(Expected, f)
      /\ f \in RuleFields => RuleIncluded(Expected, f)
    BY DEF RepoIncluded
<1>2. f \in RepoFlow \ {"enabled"} => Expected.enabled = "on"
    BY <1>1 DEF RepoFlowIncluded
<1>3. f = "patterns" => Expected.allowed \notin {"all", "local_only"}
    BY <1>1 DEF RepoFlowIncluded, FlowIncluded, RepoFlow
<1>4. f \in RuleFields \ {"creations", "fetch"} => f \notin Ignored(Expected)
    BY <1>1 DEF RuleIncluded
<1> QED
    BY <1>1, <1>2, <1>3, <1>4

\* What is compared in any case.
LEMMA AlwaysIncluded ==
    /\ RepoPatch \ {"scanning", "push"} \subseteq RepoIncluded(Expected)
    /\ {"topics", "properties", "default", "setup", "build"} \subseteq RepoIncluded(Expected)
    /\ "branch" \in RepoIncluded(Expected) <=> "path" \in RepoIncluded(Expected)
    /\ Expected.private # "on" => {"scanning", "push", "reporting"} \subseteq RepoIncluded(Expected)
    /\ Expected.setup # "off" => "suite" \in RepoIncluded(Expected)
    /\ Expected.enabled = "on" => {"enabled", "allowed", "permissions", "approve", "policy"} \subseteq RepoIncluded(Expected)
BY DEF RepoIncluded, RepoFlowIncluded, FlowIncluded, RuleIncluded, RepoFields, RepoPatch, RepoOwn, Pages, Scan,
       RepoFlow, RuleFields

\* A configuration without errors.
LEMMA ValidFacts ==
    ASSUME IsConfiguration(config), IsValid(config)
    PROVE  /\ \A f \in DOMAIN config.org : config.org[f] # "malformed"
           /\ config.org.discussions # "sourceless"
           /\ \A f \in RepoIncluded(Expected) : Expected[f] # "malformed"
           /\ Expected.title = "COMMIT_OR_PR_TITLE" => Expected.message = "COMMIT_MESSAGES"
           /\ Expected.build # "disabled" /\ Expected.visibility = "private" =>
                  Expected.private = "on" /\ config.org.private_pages = "on"
           /\ Expected.setup = "on" => Expected.enabled = "on" /\ Admits(config.org)
           /\ Expected.private = "on" /\ config.org.fork = "off" => Expected.forking = "off"
           /\ Expected.push = "on" => Expected.scanning = "on"
           /\ Expected.properties # "none" => config.org.property # "undefined"
<1> DEFINE c == CoercedRepo(config.org, config.repo)
           o == config.org
           r == config.repo
<1>1. SettingsErrors(o) = {} /\ RepositoryErrors(o, c) = {}
    BY DEF IsValid, Errors
<1>2. /\ DOMAIN r = RepoFields /\ \A f \in RepoFields : r[f] # Unset
      /\ DOMAIN o = OrgFields \cup {"plan", "property"}
    BY DEF IsConfiguration, IsSettings
<1>3. /\ DOMAIN c = RepoFields
      /\ \A f \in RepoFields : c[f] =
            CASE f = "projects"   /\ o.projects = "off"       -> Unset
              [] f = "signoff"    /\ o.signoff = "on"         -> Unset
              [] f = "visibility" /\ o.plan # "enterprise"    -> Unset
              [] f = "properties" /\ o.property = "required" /\ r[f] = "none" -> "usual"
              [] f = "discussions" /\ o.discussions = "on"    -> "on"
              [] OTHER -> r[f]
    BY <1>2 DEF CoercedRepo
<1>4. /\ \A f \in RepoFields \ {"projects", "signoff", "visibility", "properties", "discussions"} : c[f] = r[f]
      /\ \A f \in {"projects", "signoff", "visibility"} : f \in RepoFields /\ (c[f] # Unset => c[f] = r[f])
  <2>1. {"projects", "signoff", "visibility", "properties", "discussions"} \subseteq RepoFields
    BY DEF RepoFields, RepoPatch, RepoOwn, Pages
  <2> QED
    BY <1>3, <2>1 DEF Unset
<1>5. /\ \A f \in DOMAIN o : o[f] # "malformed"
      /\ o.discussions # "sourceless"
  <2>1. \A f \in OrgText : o[f] # "malformed"
    <3>1. \A f \in OrgRest \cup OrgWeb : o[f] # "malformed"
        BY <1>1 DEF SettingsErrors
    <3>2. \A f \in {"repositories", "allowed", "permissions", "policy", "property"} : o[f] # "malformed"
        BY <1>1 DEF SettingsErrors, OrgFlowErrors, FlowErrors, PropertyErrors
    <3> QED
        BY <3>1, <3>2 DEF OrgText
  <2>2. o.discussions # "sourceless"
    BY <1>1 DEF SettingsErrors
  <2> QED
    BY <2>1, <2>2 DEF IsConfiguration
<1> HIDE DEF c
<1>6. /\ \A f \in {"description", "topics"} \cup Pages \cup {"suite", "title", "message"} : c[f] # "malformed"
      /\ MessageFitsTitle(c)
      /\ \A f \in {"allowed", "permissions", "policy"} : c[f] # "malformed"
      /\ \A f \in {"count", "target"} \ Ignored(c) : c[f] # "malformed"
  <2>1. \A f \in {"description", "topics"} \cup Pages : c[f] # "malformed"
    BY <1>1 DEF RepositoryErrors, PagesErrors
  <2>2. (\A f \in {"suite", "title", "message"} : c[f] # "malformed") /\ MessageFitsTitle(c)
    BY <1>1 DEF RepositoryErrors, ChoiceErrors
  <2>3. \A f \in {"allowed", "permissions", "policy"} : c[f] # "malformed"
    BY <1>1 DEF RepositoryErrors, RepoFlowErrors, FlowErrors
  <2>4. \A f \in {"count", "target"} \ Ignored(c) : c[f] # "malformed"
    BY <1>1 DEF RepositoryErrors, RuleErrors
  <2> QED
    BY <2>1, <2>2, <2>3, <2>4
<1>7. /\ c.build # "disabled" /\ c.visibility = "private" => c.private = "on" /\ o.private_pages = "on"
      /\ c.setup = "on" => c.enabled # "off" /\ (c.enabled = "on" => Admits(o))
      /\ ~(c.private = "on" /\ o.fork = "off" /\ c.forking = "on")
      /\ ~(c.scanning = "off" /\ c.push = "on")
      /\ ~(c.properties # "none" /\ o.property = "undefined")
  <2>1. c.build # "disabled" /\ c.visibility = "private" => c.private = "on" /\ o.private_pages = "on"
    BY <1>1 DEF RepositoryErrors, PagesErrors
  <2>2. c.setup = "on" => c.enabled # "off" /\ (c.enabled = "on" => Admits(o))
    BY <1>1 DEF RepositoryErrors, RepoFlowErrors, ActionsDisabled
  <2>3. /\ ~(c.private = "on" /\ o.fork = "off" /\ c.forking = "on")
        /\ ~(c.scanning = "off" /\ c.push = "on")
        /\ ~(c.properties # "none" /\ o.property = "undefined")
    BY <1>1 DEF RepositoryErrors
  <2> QED
    BY <2>1, <2>2, <2>3
<1>8. \A f \in Switches : c[f] = r[f] /\ c[f] \in {"on", "off"}
  <2>1. Switches \subseteq RepoFields \ {"projects", "signoff", "visibility", "properties", "discussions"}
    BY DEF Switches, RepoFields, RepoPatch, RepoFlow, RepoOwn, Scan
  <2> QED
    BY <2>1, <1>4 DEF IsConfiguration
<1>9. /\ DOMAIN Expected = RepoFields
      /\ \A f \in RepoFields : Expected[f] = c[f] \/ Expected[f] = Unset
      /\ \A f \in RepoFields \ {"enabled", "allowed", "patterns", "permissions", "approve"} : Expected[f] = c[f]
      /\ Admits(o) => Expected.enabled = c.enabled
  <2>1. "allowed" \in RepoFields /\ "enabled" \in RepoFields /\ c.allowed = r.allowed
    BY <1>4 DEF RepoFields, RepoFlow
  <2> QED
    BY <1>3, <2>1 DEF Expected, CoercedFlow, c
<1>10. ASSUME NEW f \in RepoIncluded(Expected) PROVE Expected[f] # "malformed"
  <2>1. f \in RepoFields
    BY IncludedFacts
  <2>2. CASE f \notin RepoText
    <3>1. r[f] # "malformed"
        BY <2>1, <2>2, <1>2 DEF IsConfiguration
    <3>2. c[f] = r[f] \/ c[f] \in {"usual", "on", Unset}
        BY <2>1, <1>3
    <3> QED
        BY <3>1, <3>2, <2>1, <1>9 DEF Unset
  <2>3. CASE f \in {"count", "target"}
    <3>1. Ignored(Expected) = Ignored(c)
      <4>1. RuleFields \subseteq RepoFields \ {"enabled", "allowed", "patterns", "permissions", "approve"}
        BY DEF RuleFields, RepoFields
      <4>2. \A g \in RuleFields : Expected[g] = c[g]
        BY <4>1, <1>9
      <4>3. /\ Expected.reviews = c.reviews /\ Expected.dismissal = c.dismissal /\ Expected.force = c.force
            /\ Expected.status = c.status /\ Expected.deploy = c.deploy /\ Expected.restricted = c.restricted
            /\ Expected.lock = c.lock
        BY <4>2 DEF RuleFields
      <4> QED
        BY <4>3 DEF Ignored
    <3>2. f \notin Ignored(Expected)
        BY <2>3, IncludedFacts DEF RuleFields
    <3> QED
        BY <2>1, <2>3, <3>1, <3>2, <1>6, <1>9 DEF Unset
  <2>4. CASE f \in RepoText \ {"count", "target"}
    <3>1. c[f] # "malformed"
        BY <2>4, <1>6 DEF RepoText
    <3> QED
        BY <3>1, <2>1, <1>9 DEF Unset
  <2> QED
    BY <2>2, <2>3, <2>4
<1>11. /\ {"title", "message", "build", "visibility", "private", "setup", "forking", "push", "scanning", "properties"}
            \subseteq RepoFields \ {"enabled", "allowed", "patterns", "permissions", "approve"}
    BY DEF RepoFields, RepoPatch, RepoOwn, Pages, Scan
<1>12. /\ Expected.title = c.title /\ Expected.message = c.message /\ Expected.build = c.build
       /\ Expected.visibility = c.visibility /\ Expected.private = c.private /\ Expected.setup = c.setup
       /\ Expected.forking = c.forking /\ Expected.push = c.push /\ Expected.scanning = c.scanning
       /\ Expected.properties = c.properties
    BY <1>9, <1>11
<1>13. /\ c.enabled \in {"on", "off"} /\ c.forking \in {"on", "off"} /\ c.scanning \in {"on", "off"}
    BY <1>8 DEF Switches
<1> QED
    BY <1>5, <1>6, <1>7, <1>9, <1>10, <1>12, <1>13 DEF MessageFitsTitle

-----------------------------------------------------------------------------
(* Settings: what is sent is accepted.                                     *)

\* The operation that carries a field.
LEMMA FieldFacts ==
    ASSUME NEW q, Fits(q), NEW f \in DOMAIN q.data
    PROVE  /\ q.data[f] = Want(q.at)[f] /\ q.data[f] # Unset /\ f \in Included(q.at)
           /\ q.at = "org" => /\ f \in OrgRest => q.op \in {"settings", "disable"}
                              /\ f = "property" <=> q.op = "property"
                              /\ f \in {"repositories", "allowed"} => q.op = "permissions"
                              /\ f = "picked" => q.op = "repositories"
                              /\ q.op = "actions" => f = "patterns"
           /\ q.at = "repo" => /\ f \in RepoPatch => q.op = "settings"
                               /\ f \in Pages => q.op = "pages"
                               /\ f \in Scan <=> q.op = "scanning"
                               /\ f \in {"enabled", "allowed"} => q.op = "permissions"
                               /\ f = "patterns" <=> q.op = "actions"
                               /\ f \in {"permissions", "approve"} => q.op = "defaults"
                               /\ q.op = "default" <=> f = "default"
                               /\ q.op = "reporting" <=> f = "reporting"
                               /\ q.op = "properties" <=> f = "properties"
<1>1. /\ f \in Carries(q.at, q.op) /\ f \in Included(q.at) /\ q.op \in DOMAIN OpNo
      /\ q.data[f] = Want(q.at)[f] /\ q.data[f] # Unset
    BY DEF Fits
<1>2. q.at = "org" =>  /\ f \in OrgRest => q.op \in {"settings", "disable"}
                       /\ f = "property" <=> q.op = "property"
                       /\ f \in {"repositories", "allowed"} => q.op = "permissions"
                       /\ f = "picked" => q.op = "repositories"
                       /\ q.op = "actions" => f = "patterns"
  <2>1. q.at = "org" => f \in OrgFields \cup {"property"}
    BY <1>1 DEF Included, OrgIncluded
  <2> QED
    BY <1>1, <2>1 DEF Carries, OrgRest, OrgWeb, OpNo, RepoPatch, Pages, Scan, RuleFields, Fits
<1>3. q.at = "repo" => /\ f \in RepoPatch => q.op = "settings"
                       /\ f \in Pages => q.op = "pages"
                       /\ f \in Scan <=> q.op = "scanning"
                       /\ f \in {"enabled", "allowed"} => q.op = "permissions"
                       /\ f = "patterns" <=> q.op = "actions"
                       /\ f \in {"permissions", "approve"} => q.op = "defaults"
                       /\ q.op = "default" <=> f = "default"
                       /\ q.op = "reporting" <=> f = "reporting"
                       /\ q.op = "properties" <=> f = "properties"
  <2> SUFFICES ASSUME q.at = "repo"
               PROVE  /\ f \in RepoPatch => q.op = "settings"
                      /\ f \in Pages => q.op = "pages"
                      /\ f \in Scan <=> q.op = "scanning"
                      /\ f \in {"enabled", "allowed"} => q.op = "permissions"
                      /\ f = "patterns" <=> q.op = "actions"
                      /\ f \in {"permissions", "approve"} => q.op = "defaults"
                      /\ q.op = "default" <=> f = "default"
                      /\ q.op = "reporting" <=> f = "reporting"
                      /\ q.op = "properties" <=> f = "properties"
    OBVIOUS
  <2>1. q.op \notin {"rule", "property", "disable", "web"}
    BY DEF Fits
  <2>2. CASE q.op = "settings"
    BY <1>1, <2>2 DEF Carries, RepoPatch, Pages, Scan
  <2>3. CASE q.op \in {"reporting", "topics", "properties", "default"}
    BY <1>1, <2>3 DEF Carries, RepoPatch, Pages, Scan
  <2>4. CASE q.op \in {"pages", "scanning"}
    BY <1>1, <2>4 DEF Carries, RepoPatch, Pages, Scan
  <2>5. CASE q.op \in {"permissions", "repositories", "actions", "defaults", "approval"}
    BY <1>1, <2>5 DEF Carries, RepoPatch, Pages, Scan
  <2> QED
    BY <1>1, <2>1, <2>2, <2>3, <2>4, <2>5 DEF OpNo
<1> QED
    BY <1>1, <1>2, <1>3

\* In their order: the organization before the repository, and so on.
LEMMA EarlierIsDone ==
    ASSUME TodoInv, todo # <<>>, NEW q, IsPending(q), q # Now
    PROVE  /\ q.at = "org" => Now.at = "org"
           /\ q.at = Now.at /\ Now.op # "property" => q.op = "property" \/ OpNo[Now.op] < OpNo[q.op]
           /\ Now.op = "property" => q.at # "org"
<1>1. /\ Fits(q) /\ Fits(Now)
      /\ \/ PatchNo(Now) < PatchNo(q)
         \/ PatchNo(Now) = PatchNo(q) /\ OpNo[Now.op] < OpNo[q.op]
    BY NowFacts
<1>2. /\ q.op = "property" => q.at = "org"
      /\ Now.op = "property" => Now.at = "org"
      /\ q.at \in {"org", "repo", "rule"} /\ Now.at \in {"org", "repo", "rule"}
    BY <1>1 DEF Fits
<1>3. q.op = "property" /\ Now.op = "property" => ~(OpNo[Now.op] < OpNo[q.op])
    BY DEF OpNo
<1> QED
    BY <1>1, <1>2, <1>3 DEF PatchNo

\* Before the first request for the repository the organization is as configured, as
\* far as it matters.
LEMMA OrgIsDone ==
    ASSUME TodoInv, OrgInv, todo # <<>>, Now.at # "org", NEW f \in Relevant
    PROVE  org[f] = config.org[f]
<1>1. pc = "applying"
    BY DEF TodoInv
<1>2. \A q : IsPending(q) => q.at # "org"
    BY EarlierIsDone
<1> QED
    BY <1>1, <1>2 DEF OrgInv, Coming, Sends, IsPending

\* So it is for the settings of the repository that other requests rely on.
LEMMA RepoIsDone ==
    ASSUME TodoInv, RepoInv, todo # <<>>, Now.at = "repo"
    PROVE  /\ Now.op # "settings" => repo.private = Expected.private
           /\ Now.op = "actions" => repo.allowed = Expected.allowed
           /\ Now.op = "scanning" => "setup" \in DOMAIN Now.data \/ repo.setup = Expected.setup
           /\ "push" \in DOMAIN Now.data =>
                  \/ "scanning" \in DOMAIN Now.data \/ repo.scanning = Expected.scanning
                  \/ "scanning" \in TakenForApplied
<1>1. IsPending(Now) /\ Fits(Now) /\ \A q : IsPending(q) => Fits(q)
    BY NowFacts
<1>2. ASSUME NEW f \in RepoPatch \cup Scan \cup {"enabled", "allowed"}, NEW op,
             f \in RepoPatch => op = "settings", f \in Scan => op = "scanning",
             f \in {"enabled", "allowed"} => op = "permissions", Coming("repo", f)
      PROVE  \/ Now.op = op /\ f \in DOMAIN Now.data
             \/ OpNo[Now.op] < OpNo[op]
  <2>1. PICK q : IsPending(q) /\ q.at = "repo" /\ f \in DOMAIN q.data
    BY <1>2 DEF Coming, Sends, IsPending
  <2>2. q.op = op
    BY <2>1, <1>1, <1>2, FieldFacts
  <2>3. CASE q = Now
    BY <2>1, <2>2, <2>3
  <2>4. CASE q # Now
    BY <2>1, <2>2, <2>4, <1>2, EarlierIsDone, <1>1 DEF Fits
  <2> QED
    BY <2>3, <2>4
<1>3. Now.op # "settings" => ~Coming("repo", "private")
    BY <1>1, <1>2 DEF RepoPatch, Scan, Fits, OpNo
<1>4. Now.op = "actions" => ~Coming("repo", "allowed")
    BY <1>1, <1>2 DEF RepoPatch, Scan, OpNo
<1>5. Now.op = "scanning" /\ Coming("repo", "setup") => "setup" \in DOMAIN Now.data
    BY <1>1, <1>2 DEF RepoPatch, Scan, OpNo
<1>6. Now.op = "settings" /\ Coming("repo", "scanning") => "scanning" \in DOMAIN Now.data
    BY <1>1, <1>2 DEF RepoPatch, Scan, OpNo
<1>7. Now.op = "actions" => "patterns" \in DOMAIN Now.data
    BY <1>1, FieldFacts DEF Fits
<1>8. "push" \in DOMAIN Now.data => Now.op = "settings"
    BY <1>1, FieldFacts DEF RepoPatch
<1> QED
    BY <1>1, <1>3, <1>4, <1>5, <1>6, <1>7, <1>8 DEF RepoInv, InStep

\* The values that are sent are allowed.
LEMMA NothingIsMalformed ==
    ASSUME LiveInv, IsValid(config), NEW q, Fits(q)
    PROVE  ~Malformed(q) /\ ("discussions" \in DOMAIN q.data /\ q.at = "org" => q.data.discussions # "sourceless")
<1>1. IsConfiguration(config) /\ DOMAIN config.org = OrgFields \cup {"plan", "property"}
    BY DEF LiveInv, IsConfiguration, IsSettings
<1>2. ASSUME NEW f \in DOMAIN q.data PROVE q.data[f] # "malformed"
  <2>1. q.data[f] = Want(q.at)[f] /\ f \in Included(q.at)
    BY FieldFacts
  <2>2. CASE q.at = "org"
    <3>1. f \in DOMAIN config.org
        BY <2>1, <2>2, <1>1 DEF Included, OrgIncluded
    <3> QED
        BY <3>1, <2>1, <2>2, <1>1, ValidFacts DEF Want
  <2>3. CASE q.at # "org"
    BY <2>1, <2>3, <1>1, ValidFacts DEF Want, Included
  <2> QED
    BY <2>2, <2>3
<1> QED
    BY <1>1, <1>2, FieldFacts, ValidFacts DEF Malformed, Want

\* A request for the organization or a rule is accepted.
LEMMA OrgAccepted ==
    ASSUME LiveInv, TodoInv, OrgInv, IsValid(config), todo # <<>>, Now.at # "repo"
    PROVE  Accepted(Now)
<1>1. IsPending(Now) /\ Fits(Now) /\ pc = "applying" /\ IsConfiguration(config)
    BY NowFacts DEF TodoInv, LiveInv
<1>2. ~Malformed(Now) /\ ("discussions" \in DOMAIN Now.data /\ Now.at = "org" => Now.data.discussions # "sourceless")
    BY <1>1, NothingIsMalformed
<1>3. ASSUME Now.at = "org", Now.op = "actions" PROVE org.allowed = "selected"
  <2>1. "patterns" \in DOMAIN Now.data
    BY <1>1, <1>3, FieldFacts DEF Fits
  <2>2. "patterns" \in OrgIncluded(config.org)
    BY <1>1, <1>3, <2>1, FieldFacts DEF Included
  <2>3. config.org.repositories # "none" /\ config.org.allowed \notin {"all", "local_only"}
    BY <2>2 DEF OrgIncluded, OrgFlow, FlowIncluded
  <2>4. "allowed" \in Relevant
    BY <2>3 DEF Relevant
  <2>5. ~Coming("org", "allowed")
    <3>1. SUFFICES ASSUME NEW q, IsPending(q), q.at = "org", "allowed" \in DOMAIN q.data PROVE FALSE
        BY DEF Coming, Sends, IsPending
    <3>2. Fits(q) /\ q.op = "permissions"
        BY <3>1, NowFacts, FieldFacts
    <3>3. OpNo["actions"] < OpNo["permissions"]
        BY <3>1, <3>2, <1>3, EarlierIsDone
    <3> QED
        BY <3>3 DEF OpNo
  <2>6. org.allowed = config.org.allowed
    BY <2>4, <2>5, <1>1 DEF OrgInv
  <2>7. config.org.allowed \in Levels \cup {"malformed"} /\ "allowed" \in DOMAIN config.org
    BY <1>1 DEF IsConfiguration, IsSettings, OrgFields, OrgFlow
  <2>8. config.org.allowed # "malformed"
    BY <1>1, <2>7, ValidFacts
  <2> QED
    BY <2>3, <2>6, <2>7, <2>8 DEF Levels
<1> QED
    BY <1>2, <1>3 DEF Accepted


\* A request for the repository is accepted, with two exceptions.
LEMMA RepoAccepted ==
    ASSUME LiveInv, TodoInv, OrgInv, RepoInv, IsValid(config), todo # <<>>, Now.at = "repo", ~Accepted(Now)
    PROVE  \/ /\ Now.op = "scanning" /\ repo.enabled # "on" /\ Expected.setup = "on"
              /\ repo.setup # "on" \/ repo.suite # Expected.suite
           \/ "push" \in DOMAIN Now.data /\ "scanning" \in TakenForApplied
<1> DEFINE n == After(Now)
           data == Now.data
<1>1. /\ IsPending(Now) /\ Fits(Now) /\ IsConfiguration(config) /\ DOMAIN repo = RepoFields
      /\ \A q : IsPending(q) => Fits(q)
    BY NowFacts DEF LiveInv, IsSettings
<1>2. /\ DOMAIN data \subseteq RepoIncluded(Expected) /\ Pairwise(DOMAIN data)
      /\ \A f \in DOMAIN data : data[f] = Expected[f] /\ data[f] # Unset /\ f \in RepoFields
    BY <1>1, IncludedFacts DEF Fits, Included, Want
<1>3. \A f \in RepoFields : n[f] = IF f \in DOMAIN data THEN Expected[f] ELSE repo[f]
    BY <1>1, <1>2 DEF After
<1> HIDE DEF n
<1>4. /\ {"private", "forking", "title", "message", "scanning", "push", "visibility", "branch", "path", "setup",
          "enabled", "allowed", "patterns", "permissions", "approve", "signoff", "suite"} \subseteq RepoFields
    BY DEF RepoFields, RepoPatch, RepoOwn, RepoFlow, Pages, Scan
<1>5. n.private = Expected.private
  <2>1. CASE Now.op # "settings"
    <3>1. "private" \notin DOMAIN data
        BY <2>1, <1>1, FieldFacts DEF RepoPatch
    <3> QED
        BY <3>1, <2>1, <1>3, <1>4, RepoIsDone
  <2>2. CASE Now.op = "settings"
    <3>1. ASSUME Coming("repo", "private") PROVE "private" \in DOMAIN data
      <4>1. PICK q : IsPending(q) /\ q.at = "repo" /\ "private" \in DOMAIN q.data
        BY <3>1 DEF Coming, Sends, IsPending
      <4>2. q.op = "settings"
        BY <4>1, <1>1, FieldFacts DEF RepoPatch
      <4>3. q = Now
        <5>1. ~(OpNo["settings"] < OpNo["settings"])
            BY DEF OpNo
        <5> QED
            BY <4>1, <4>2, <2>2, <5>1, EarlierIsDone
      <4> QED
        BY <4>1, <4>3
    <3> QED
        BY <3>1, <1>1, <1>3, <1>4 DEF RepoInv, InStep
  <2> QED
    BY <2>1, <2>2
<1>6. \A f \in Relevant : org[f] = config.org[f]
    BY OrgIsDone
<1>7. /\ org.signoff = config.org.signoff /\ org.fork = config.org.fork
      /\ org.private_pages = config.org.private_pages /\ org.repositories = config.org.repositories
      /\ org.property = config.org.property
      /\ config.org.repositories = "selected" => org.picked = config.org.picked
      /\ config.org.repositories # "none" => /\ org.allowed = config.org.allowed
                                             /\ org.permissions = config.org.permissions
                                             /\ org.approve = config.org.approve
    BY <1>6 DEF Relevant
<1>8. Admits(config.org) => Admits(org) /\ config.org.repositories # "none"
    BY <1>7 DEF Admits
<1>9. ASSUME "push" \in DOMAIN data => "scanning" \notin TakenForApplied PROVE SettingsAccepted(n, DOMAIN data)
  <2>1. "signoff" \in DOMAIN data => org.signoff # "on"
    BY <1>1, <1>2, <1>7, ExpectedFacts
  <2>2. "forking" \in DOMAIN data /\ n.private = "on" /\ org.fork = "off" => n.forking = "off"
    BY <1>1, <1>3, <1>4, <1>5, <1>7, ValidFacts
  <2>3. DOMAIN data \cap {"title", "message"} # {} =>
            {"title", "message"} \subseteq DOMAIN data /\ (n.title = "COMMIT_OR_PR_TITLE" => n.message = "COMMIT_MESSAGES")
    <3>1. "title" \in DOMAIN data <=> "message" \in DOMAIN data
        BY <1>2 DEF Pairwise
    <3> QED
        BY <3>1, <1>1, <1>3, <1>4, ValidFacts
  <2>4. ASSUME "push" \in DOMAIN data, n.push = "on" PROVE n.scanning = "on"
    <3>1. Expected.push = "on" /\ Expected.scanning = "on"
        BY <2>4, <1>1, <1>3, <1>4, ValidFacts
    <3>2. "scanning" \in DOMAIN data \/ repo.scanning = Expected.scanning
        BY <2>4, <1>9, RepoIsDone
    <3> QED
        BY <3>1, <3>2, <1>3, <1>4
  <2> QED
    BY <2>1, <2>2, <2>3, <2>4 DEF SettingsAccepted
<1>10. PagesAccepted(n, DOMAIN data)
  <2>1. ASSUME "visibility" \in DOMAIN data, n.visibility = "private"
        PROVE  n.private = "on" /\ org.private_pages = "on"
    <3>1. Expected.build # "disabled"
        BY <2>1, <1>2, IncludedFacts DEF Pages
    <3> QED
        BY <3>1, <2>1, <1>1, <1>3, <1>4, <1>5, <1>7, ValidFacts
  <2> QED
    BY <2>1, <1>2 DEF PagesAccepted, Pairwise
<1>11. FlowAccepted(n, DOMAIN data)
  <2>1. "enabled" \in DOMAIN data => Admits(org)
    BY <1>1, <1>2, <1>8, ExpectedFacts
  <2>2. ASSUME NEW f \in DOMAIN data, f \in {"allowed", "patterns", "permissions", "approve"}
        PROVE  config.org.repositories # "none"
    <3>1. Expected.enabled = "on"
        BY <2>2, <1>2, IncludedFacts DEF RepoFlow
    <3> QED
        BY <3>1, <1>1, <1>8, ExpectedFacts DEF Unset
  <2>3. ASSUME "allowed" \in DOMAIN data \/ "patterns" \in DOMAIN data
        PROVE  /\ Expected.allowed = config.repo.allowed
               /\ Level(config.org.allowed) < Level(config.repo.allowed)
               /\ Level(config.org.allowed) \in Nat
    <3>1. ~Restricts(config.org, config.repo.allowed) /\ Expected.allowed = config.repo.allowed
        BY <2>3, <1>1, <1>2, ExpectedFacts
    <3>2. \A v : Level(v) \in Nat
        BY DEF Level
    <3> QED
        BY <3>1, <3>2 DEF Restricts
  <2>4. ASSUME "allowed" \in DOMAIN data PROVE Level(n.allowed) >= Level(org.allowed)
    <3>1. n.allowed = config.repo.allowed /\ org.allowed = config.org.allowed
        BY <2>2, <2>3, <2>4, <1>3, <1>4, <1>7
    <3>2. \A v : Level(v) \in Nat
        BY DEF Level
    <3> QED
        BY <2>3, <2>4, <3>1, <3>2
  <2>5. ASSUME "patterns" \in DOMAIN data PROVE n.allowed = "selected"
    <3>1. Now.op = "actions" /\ "allowed" \notin DOMAIN data
      <4>1. Now.op = "actions"
        BY <2>5, <1>1, FieldFacts
      <4> QED
        BY <4>1, <1>1, FieldFacts
    <3>2. n.allowed = Expected.allowed
        BY <3>1, <1>3, <1>4, RepoIsDone
    <3>3. Expected.allowed \notin {"all", "local_only"}
        BY <2>5, <1>2, IncludedFacts
    <3>4. config.repo.allowed \in Levels \cup {"malformed"} /\ Level("malformed") = 0
        BY <1>1 DEF IsConfiguration, Level
    <3> QED
        BY <3>2, <3>3, <3>4, <2>3, <2>5 DEF Levels
  <2>6. "permissions" \in DOMAIN data => org.permissions # "read"
    BY <2>2, <1>1, <1>2, <1>7, ExpectedFacts
  <2>7. "approve" \in DOMAIN data => org.approve # "off"
    BY <2>2, <1>1, <1>2, <1>7, ExpectedFacts
  <2> QED
    BY <2>1, <2>4, <2>5, <2>6, <2>7 DEF FlowAccepted
<1>12. ~Malformed(Now)
    BY <1>1, NothingIsMalformed
<1>13. Now.op = "reporting" => repo.private = "off"
  <2>1. SUFFICES ASSUME Now.op = "reporting" PROVE repo.private = "off"
    OBVIOUS
  <2>2. "reporting" \in DOMAIN data
    BY <2>1, <1>1, FieldFacts DEF Fits
  <2>3. Expected.private # "on"
    BY <2>2, <1>2, IncludedFacts
  <2>4. Expected.private \in {"on", "off"}
    BY <1>1, ExpectedFacts DEF IsConfiguration, Switches
  <2> QED
    BY <2>1, <2>3, <2>4, RepoIsDone
<1>14. Now.op = "properties" /\ data.properties # "none" => org.property # "undefined"
  <2>1. SUFFICES ASSUME Now.op = "properties", data.properties # "none" PROVE org.property # "undefined"
    OBVIOUS
  <2>2. "properties" \in DOMAIN data
    BY <2>1, <1>1, FieldFacts DEF Fits
  <2> QED
    BY <2>1, <2>2, <1>1, <1>2, <1>7, ValidFacts
<1>15. ASSUME Now.op = "scanning", n.setup = "on", RepoEffective(org, repo).enabled # "on"
       PROVE  /\ repo.enabled # "on" /\ Expected.setup = "on"
              /\ repo.setup # "on" \/ repo.suite # Expected.suite
  <2>1. Expected.setup = "on"
    BY <1>15, <1>3, <1>4, RepoIsDone
  <2>2. repo.setup # "on" \/ repo.suite # Expected.suite
    BY <2>1, <1>15, <1>1 DEF RepoInv
  <2>3. Admits(org)
    BY <2>1, <1>1, <1>8, ValidFacts
  <2>4. RepoEffective(org, repo).enabled = FlowEffective(org, repo, "enabled")
    BY <1>1, <1>4 DEF RepoEffective, RepoFlow, Pages, Ignored, RuleFields
  <2>5. FlowEffective(org, repo, "enabled") = IF Admits(org) /\ repo.enabled = "on" THEN "on" ELSE "off"
    BY DEF FlowEffective
  <2> QED
    BY <2>1, <2>2, <2>3, <2>4, <2>5, <1>15
<1> QED
    BY <1>9, <1>10, <1>11, <1>12, <1>13, <1>14, <1>15 DEF Accepted, n

-----------------------------------------------------------------------------
(* Settings: what a plan consists of.                                      *)

\* The requests for workflows.
LEMMA FlowPart ==
    ASSUME NEW at \in {"org", "repo"}, NEW values, NEW sent, sent \subseteq Included(at),
           at = "org" => sent \subseteq OrgFlow, at = "repo" => sent \subseteq RepoFlow,
           \A f \in sent : values[f] = Want(at)[f] /\ values[f] # Unset
    PROVE  /\ Ordered(FlowRequests(at, values, sent), IF at = "org" THEN 1 ELSE 3, 9, 14)
           /\ FieldsOf(FlowRequests(at, values, sent)) \subseteq sent
           /\ sent \ {"patterns", "policy"} \subseteq FieldsOf(FlowRequests(at, values, sent))
           /\ at = "org" => sent \subseteq FieldsOf(FlowRequests(at, values, sent))
           /\ "patterns" \in sent /\ values.allowed = "selected" => "patterns" \in FieldsOf(FlowRequests(at, values, sent))
           /\ "policy" \in sent /\ values.private = "off" => "policy" \in FieldsOf(FlowRequests(at, values, sent))
<1> DEFINE no == IF at = "org" THEN 1 ELSE 3
           s1 == Part(at, "permissions", values, sent \cap {"repositories", "enabled", "allowed"})
           s2 == Part(at, "repositories", values, sent \cap {"picked"})
           s3 == IF at = "org" \/ "allowed" \notin sent \/ values.allowed = "selected"
                 THEN Part(at, "actions", values, sent \cap {"patterns"}) ELSE <<>>
           s4 == Part(at, "defaults", values, sent \cap {"permissions", "approve"})
           s5 == IF at = "org" \/ values.private = "off"
                 THEN Part(at, "approval", values, sent \cap {"policy"}) ELSE <<>>
<1>1. ASSUME NEW op \in {"permissions", "repositories", "actions", "defaults", "approval"},
             NEW fields, fields \subseteq sent, fields \subseteq Carries(at, op),
             NEW a \in Nat, NEW b \in Nat, a < OpNo[op], OpNo[op] <= b
      PROVE  Ordered(Part(at, op, values, fields), no, a, b) /\ FieldsOf(Part(at, op, values, fields)) = fields
  <2>1. op \in DOMAIN OpNo
    BY DEF OpNo
  <2>2. no = PatchNo([at |-> at, op |-> op])
    BY DEF PatchNo
  <2>3. at = "repo" => Pairwise(fields)
    BY <1>1 DEF Pairwise, RepoFlow
  <2>4. fields \subseteq Carries(at, op) \cap Included(at) /\ \A f \in fields : values[f] = Want(at)[f] /\ values[f] # Unset
    BY <1>1
  <2> HIDE DEF no
  <2> QED
    BY <1>1, <2>1, <2>2, <2>3, <2>4, PartIsOrdered
<1> HIDE DEF no
<1>2. Ordered(s1, no, 9, 10) /\ FieldsOf(s1) = sent \cap {"repositories", "enabled", "allowed"}
    BY <1>1 DEF Carries, OpNo
<1>3. Ordered(s2, no, 10, 11) /\ FieldsOf(s2) = sent \cap {"picked"}
    BY <1>1 DEF Carries, OpNo
<1>4. /\ Ordered(s3, no, 11, 12) /\ FieldsOf(s3) \subseteq sent
      /\ "patterns" \in sent /\ (at = "org" \/ values.allowed = "selected") => "patterns" \in FieldsOf(s3)
  <2> DEFINE part == Part(at, "actions", values, sent \cap {"patterns"})
  <2>1. Ordered(part, no, 11, 12) /\ FieldsOf(part) = sent \cap {"patterns"}
    BY <1>1 DEF Carries, OpNo
  <2>2. Ordered(<<>>, no, 11, 12) /\ FieldsOf(<<>>) = {}
    BY NothingIsOrdered
  <2>3. (s3 = part \/ s3 = <<>>) /\ (at = "org" \/ values.allowed = "selected" => s3 = part)
    OBVIOUS
  <2> HIDE DEF part, s3
  <2> QED
    BY <2>1, <2>2, <2>3
<1>5. Ordered(s4, no, 12, 13) /\ FieldsOf(s4) = sent \cap {"permissions", "approve"}
    BY <1>1 DEF Carries, OpNo
<1>6. /\ Ordered(s5, no, 13, 14) /\ FieldsOf(s5) \subseteq sent
      /\ "policy" \in sent /\ (at = "org" \/ values.private = "off") => "policy" \in FieldsOf(s5)
  <2> DEFINE part == Part(at, "approval", values, sent \cap {"policy"})
  <2>1. Ordered(part, no, 13, 14) /\ FieldsOf(part) = sent \cap {"policy"}
    BY <1>1 DEF Carries, OpNo
  <2>2. Ordered(<<>>, no, 13, 14) /\ FieldsOf(<<>>) = {}
    BY NothingIsOrdered
  <2>3. (s5 = part \/ s5 = <<>>) /\ (at = "org" \/ values.private = "off" => s5 = part)
    OBVIOUS
  <2> HIDE DEF part, s5
  <2> QED
    BY <2>1, <2>2, <2>3
<1> HIDE DEF s1, s2, s3, s4, s5
<1>7. Ordered(s1 \o s2, no, 9, 11) /\ FieldsOf(s1 \o s2) = FieldsOf(s1) \cup FieldsOf(s2)
  <2>1. Ordered(s1, no, 9, 10) /\ Ordered(s2, no, 10, 11)
    BY <1>2, <1>3
  <2> QED
    BY <2>1, OrderedConcat
<1>8. Ordered((s1 \o s2) \o s3, no, 9, 12) /\ FieldsOf((s1 \o s2) \o s3) = FieldsOf(s1 \o s2) \cup FieldsOf(s3)
    BY <1>4, <1>7, OrderedConcat
<1>9. /\ Ordered(((s1 \o s2) \o s3) \o s4, no, 9, 13)
      /\ FieldsOf(((s1 \o s2) \o s3) \o s4) = FieldsOf((s1 \o s2) \o s3) \cup FieldsOf(s4)
    BY <1>5, <1>8, OrderedConcat
<1>10. /\ Ordered((((s1 \o s2) \o s3) \o s4) \o s5, no, 9, 14)
       /\ FieldsOf((((s1 \o s2) \o s3) \o s4) \o s5) = FieldsOf(((s1 \o s2) \o s3) \o s4) \cup FieldsOf(s5)
    BY <1>6, <1>9, OrderedConcat
<1>11. FlowRequests(at, values, sent) = (((s1 \o s2) \o s3) \o s4) \o s5
    BY DEF FlowRequests, s1, s2, s3, s4, s5
<1>12. /\ sent \subseteq {"repositories", "enabled", "allowed", "picked", "permissions", "approve", "patterns", "policy"}
       /\ FieldsOf((((s1 \o s2) \o s3) \o s4) \o s5)
              = FieldsOf(s1) \cup FieldsOf(s2) \cup FieldsOf(s3) \cup FieldsOf(s4) \cup FieldsOf(s5)
    BY <1>7, <1>8, <1>9, <1>10 DEF OrgFlow, RepoFlow
<1> HIDE DEF no
<1>13. /\ FieldsOf((((s1 \o s2) \o s3) \o s4) \o s5) \subseteq sent
       /\ sent \ {"patterns", "policy"} \subseteq FieldsOf((((s1 \o s2) \o s3) \o s4) \o s5)
       /\ at = "org" => sent \subseteq FieldsOf((((s1 \o s2) \o s3) \o s4) \o s5)
    BY <1>2, <1>3, <1>4, <1>5, <1>6, <1>12
<1> QED
    BY <1>4, <1>6, <1>10, <1>11, <1>12, <1>13 DEF no

\* The patch of the organization.
LEMMA OrgPatch ==
    ASSUME IsConfiguration(config), NEW d, d \subseteq OrgIncluded(config.org)
    PROVE  /\ Ordered(OrgRequests(d), 1, 0, 14)
           /\ d \cap (OrgRest \cup OrgWeb) \subseteq FieldsOf(OrgRequests(d))
           /\ d \cap OrgFlow # {} => OrgIncluded(config.org) \cap OrgFlow \subseteq FieldsOf(OrgRequests(d))
<1> DEFINE sent == FlowSent(config.org, OrgIncluded(config.org) \cap OrgFlow, d \cap OrgFlow)
           s1 == Part("org", "settings", config.org, d \cap OrgRest)
           s2 == Part("org", "disable", config.org, d \cap {"configs"})
           s3 == Part("org", "web", config.org, d \cap OrgWeb)
           s4 == FlowRequests("org", config.org, sent)
<1>1. /\ OrgIncluded(config.org) \subseteq OrgFields /\ OrgIncluded(config.org) \subseteq Included("org")
      /\ \A f \in OrgIncluded(config.org) : config.org[f] # Unset
      /\ Want("org") = config.org
    BY DEF OrgIncluded, IsConfiguration, IsSettings, Included, Want
<1>2. ASSUME NEW op \in {"settings", "disable", "web"},
             NEW fields, fields \subseteq d, fields \subseteq Carries("org", op),
             NEW a \in Nat, NEW b \in Nat, a < OpNo[op], OpNo[op] <= b
      PROVE  Ordered(Part("org", op, config.org, fields), 1, a, b) /\ FieldsOf(Part("org", op, config.org, fields)) = fields
  <2>1. op \in DOMAIN OpNo
    BY DEF OpNo
  <2>2. 1 = PatchNo([at |-> "org", op |-> op])
    BY DEF PatchNo
  <2>4. fields \subseteq Carries("org", op) \cap Included("org")
    BY <1>1, <1>2
  <2>5. \A f \in fields : config.org[f] = Want("org")[f] /\ config.org[f] # Unset
    BY <1>1, <1>2
  <2> QED
    BY <1>2, <2>1, <2>2, <2>4, <2>5, PartIsOrdered
<1>3. Ordered(s1, 1, 0, 1) /\ FieldsOf(s1) = d \cap OrgRest
    BY <1>2 DEF Carries, OpNo
<1>4. Ordered(s2, 1, 1, 2)
    BY <1>2 DEF Carries, OpNo
<1>5. Ordered(s3, 1, 2, 9) /\ FieldsOf(s3) = d \cap OrgWeb
  <2>1. Carries("org", "web") = OrgWeb /\ OpNo["web"] = 3
    BY DEF Carries, OpNo
  <2>2. d \cap OrgWeb \subseteq d /\ d \cap OrgWeb \subseteq Carries("org", "web")
    BY <2>1
  <2> QED
    BY <1>2, <2>1, <2>2
<1>6. /\ sent \subseteq OrgFlow /\ sent \subseteq Included("org")
      /\ \A f \in sent : config.org[f] = Want("org")[f] /\ config.org[f] # Unset
      /\ d \cap OrgFlow # {} => sent = OrgIncluded(config.org) \cap OrgFlow
    BY <1>1 DEF FlowSent
<1> HIDE DEF sent
<1>7. Ordered(s4, 1, 9, 14) /\ sent \subseteq FieldsOf(s4)
    BY <1>6, FlowPart
<1> HIDE DEF s1, s2, s3, s4
<1>8. Ordered(s1 \o s2, 1, 0, 2) /\ FieldsOf(s1 \o s2) = FieldsOf(s1) \cup FieldsOf(s2)
    BY <1>3, <1>4, OrderedConcat
<1>9. Ordered((s1 \o s2) \o s3, 1, 0, 9) /\ FieldsOf((s1 \o s2) \o s3) = FieldsOf(s1 \o s2) \cup FieldsOf(s3)
    BY <1>5, <1>8, OrderedConcat
<1>10. /\ Ordered(((s1 \o s2) \o s3) \o s4, 1, 0, 14)
       /\ FieldsOf(((s1 \o s2) \o s3) \o s4) = FieldsOf((s1 \o s2) \o s3) \cup FieldsOf(s4)
    BY <1>7, <1>9, OrderedConcat
<1>11. OrgRequests(d) = ((s1 \o s2) \o s3) \o s4
    BY DEF OrgRequests, s1, s2, s3, s4, sent
<1> QED
    BY <1>3, <1>5, <1>6, <1>7, <1>8, <1>9, <1>10, <1>11

\* The patch of the repository.
LEMMA PatchOfRepo ==
    ASSUME IsConfiguration(config), NEW cr, NEW released \in SUBSET {"signoff"},
           released # {} => Expected.signoff # Unset,
           \A f \in {"title", "message", "branch", "path"} : cr[f] # Unset
    PROVE  LET e == Differing(Expected, cr, RepoIncluded(Expected)) \cup released
               s == RepoRequests(cr, released)
           IN  /\ Ordered(s, 3, 0, 14)
               /\ e \cap (RepoPatch \cup RepoOwn) \subseteq FieldsOf(s)
               /\ e \cap RepoFlow # {} =>
                      \A f \in RepoIncluded(Expected) \cap RepoFlow :
                          /\ Expected[f] # Unset
                          /\ f = "patterns" => Expected.allowed = "selected"
                          /\ f = "policy" => Expected.private = "off"
                          => f \in FieldsOf(s)
               /\ FieldsOf(s) \cap (Scan \cup {"push"}) \subseteq e
               /\ "patterns" \in FieldsOf(s) => "allowed" \in FieldsOf(s)
<1> DEFINE e == Differing(Expected, cr, RepoIncluded(Expected)) \cup released
           all == e \cup Companions(e)
           values == Values(cr, e)
           sent == FlowSent(Expected, RepoIncluded(Expected) \cap RepoFlow, e \cap RepoFlow)
           s1 == Part("repo", "settings", values, all \cap RepoPatch)
           s2 == Part("repo", "reporting", values, all \cap {"reporting"})
           s3 == Part("repo", "topics", values, all \cap {"topics"})
           s4 == Part("repo", "properties", values, all \cap {"properties"})
           s5 == Part("repo", "pages", values, all \cap Pages)
           s6 == Part("repo", "scanning", values, all \cap Scan)
           s7 == Part("repo", "default", values, all \cap {"default"})
           s8 == FlowRequests("repo", Expected, sent)
<1>1. /\ Want("repo") = Expected /\ Included("repo") = RepoIncluded(Expected)
      /\ DOMAIN Expected = RepoFields /\ RepoIncluded(Expected) \subseteq RepoFields
    BY ExpectedFacts DEF Want, Included, RepoIncluded
<1>2. /\ e \subseteq RepoIncluded(Expected)
      /\ \A f \in e : Expected[f] # Unset
      /\ \A f \in RepoIncluded(Expected) \ e : Expected[f] = Unset \/ cr[f] = Unset \/ Expected[f] = cr[f]
  <2>1. "signoff" \in RepoIncluded(Expected)
    BY AlwaysIncluded DEF RepoPatch
  <2> QED
    BY <2>1 DEF Differing
<1> HIDE DEF e
<1>3. /\ Companions(e) \subseteq RepoIncluded(Expected)
      /\ Companions(e) \subseteq {"title", "message", "branch", "path"}
      /\ e \subseteq all /\ all \subseteq e \cup {"title", "message", "branch", "path"}
      /\ "title" \in all <=> "message" \in all
      /\ "branch" \in all <=> "path" \in all
  <2>1. /\ {"title", "message"} \subseteq RepoIncluded(Expected)
        /\ "branch" \in RepoIncluded(Expected) <=> "path" \in RepoIncluded(Expected)
    BY AlwaysIncluded DEF RepoPatch
  <2> QED
    BY <2>1, <1>2 DEF Companions
<1>4. \A f \in all : values[f] = Expected[f] /\ values[f] # Unset /\ f \in RepoIncluded(Expected)
  <2>1. SUFFICES ASSUME NEW f \in all PROVE values[f] = Expected[f] /\ values[f] # Unset /\ f \in RepoIncluded(Expected)
    OBVIOUS
  <2>2. f \in RepoIncluded(Expected) /\ f \in RepoFields
    BY <1>1, <1>2, <1>3
  <2>3. values[f] = IF f \in e THEN Expected[f] ELSE cr[f]
    BY <1>1, <2>2 DEF Values
  <2>4. CASE f \in e
    BY <2>2, <2>3, <2>4, <1>2
  <2>5. CASE f \notin e
    <3>1. f \in {"title", "message", "branch", "path"}
        BY <2>5, <1>3
    <3>2. Expected[f] # Unset
        BY <2>2, <3>1, ExpectedFacts
    <3> QED
        BY <2>2, <2>3, <2>5, <3>1, <3>2, <1>2
  <2> QED
    BY <2>4, <2>5
<1> HIDE DEF all, values
<1>5. ASSUME NEW op \in {"settings", "reporting", "topics", "properties", "pages", "scanning", "default"},
             NEW fields, fields = all \cap Carries("repo", op),
             NEW a \in Nat, NEW b \in Nat, a < OpNo[op], OpNo[op] <= b
      PROVE  Ordered(Part("repo", op, values, fields), 3, a, b) /\ FieldsOf(Part("repo", op, values, fields)) = fields
  <2>1. op \in DOMAIN OpNo
    BY DEF OpNo
  <2>2. 3 = PatchNo([at |-> "repo", op |-> op])
    BY DEF PatchNo
  <2>3. Pairwise(fields)
    <3>1. {"title", "message"} \subseteq Carries("repo", op) \/ {"title", "message"} \cap Carries("repo", op) = {}
        BY DEF Carries, RepoPatch, Pages, Scan
    <3>2. {"branch", "path"} \subseteq Carries("repo", op) \/ {"branch", "path"} \cap Carries("repo", op) = {}
        BY DEF Carries, RepoPatch, Pages, Scan
    <3> QED
        BY <3>1, <3>2, <1>3, <1>5 DEF Pairwise
  <2>4. fields \subseteq Carries("repo", op) \cap Included("repo")
    BY <1>1, <1>4, <1>5
  <2>5. \A f \in fields : values[f] = Want("repo")[f] /\ values[f] # Unset
    BY <1>1, <1>4, <1>5
  <2> QED
    BY <1>5, <2>1, <2>2, <2>3, <2>4, <2>5, PartIsOrdered
<1>6. /\ Carries("repo", "settings") = RepoPatch /\ Carries("repo", "reporting") = {"reporting"}
      /\ Carries("repo", "topics") = {"topics"} /\ Carries("repo", "properties") = {"properties"}
      /\ Carries("repo", "pages") = Pages /\ Carries("repo", "scanning") = Scan
      /\ Carries("repo", "default") = {"default"}
      /\ OpNo["settings"] = 1 /\ OpNo["reporting"] = 4 /\ OpNo["topics"] = 5 /\ OpNo["properties"] = 6
      /\ OpNo["pages"] = 7 /\ OpNo["scanning"] = 8 /\ OpNo["default"] = 9
    BY DEF Carries, OpNo
<1>7. Ordered(s1, 3, 0, 1) /\ FieldsOf(s1) = all \cap RepoPatch
    BY <1>5, <1>6
<1>8. Ordered(s2, 3, 1, 4) /\ FieldsOf(s2) = all \cap {"reporting"}
    BY <1>5, <1>6
<1>9. Ordered(s3, 3, 4, 5) /\ FieldsOf(s3) = all \cap {"topics"}
    BY <1>5, <1>6
<1>10. Ordered(s4, 3, 5, 6) /\ FieldsOf(s4) = all \cap {"properties"}
    BY <1>5, <1>6
<1>11. Ordered(s5, 3, 6, 7) /\ FieldsOf(s5) = all \cap Pages
    BY <1>5, <1>6
<1>12. Ordered(s6, 3, 7, 8) /\ FieldsOf(s6) = all \cap Scan
    BY <1>5, <1>6
<1>13. Ordered(s7, 3, 8, 9) /\ FieldsOf(s7) = all \cap {"default"}
    BY <1>5, <1>6
<1>14. /\ sent \subseteq RepoFlow /\ sent \subseteq Included("repo")
       /\ \A f \in sent : Expected[f] = Want("repo")[f] /\ Expected[f] # Unset
       /\ "patterns" \in sent => "allowed" \in sent
       /\ e \cap RepoFlow # {} => \A f \in RepoIncluded(Expected) \cap RepoFlow : Expected[f] # Unset => f \in sent
  <2>1. ASSUME "patterns" \in sent PROVE "allowed" \in sent
    <3>1. e \cap RepoFlow # {} /\ "patterns" \in RepoIncluded(Expected) /\ Expected.patterns # Unset
        BY <2>1 DEF FlowSent
    <3>2. Expected.enabled = "on"
        BY <3>1, IncludedFacts DEF RepoFlow
    <3>3. "allowed" \in RepoIncluded(Expected) /\ "allowed" \in RepoFlow
        BY <3>2, AlwaysIncluded DEF RepoFlow
    <3>4. Expected.allowed # Unset
        BY <3>1, <3>3, <1>1, ExpectedFacts DEF IsConfiguration, IsSettings
    <3> QED
        BY <3>1, <3>3, <3>4 DEF FlowSent
  <2> QED
    BY <2>1, <1>1 DEF FlowSent
<1> HIDE DEF sent
<1>15. /\ Ordered(s8, 3, 9, 14) /\ FieldsOf(s8) \subseteq sent
       /\ sent \ {"patterns", "policy"} \subseteq FieldsOf(s8)
       /\ "patterns" \in sent /\ Expected.allowed = "selected" => "patterns" \in FieldsOf(s8)
       /\ "policy" \in sent /\ Expected.private = "off" => "policy" \in FieldsOf(s8)
    BY <1>14, FlowPart
<1>16. RepoRequests(cr, released) = ((((((s1 \o s2) \o s3) \o s4) \o s5) \o s6) \o s7) \o s8
    BY DEF RepoRequests, e, all, values, sent
<1> HIDE DEF s1, s2, s3, s4, s5, s6, s7, s8
<1>17. Ordered(s1 \o s2, 3, 0, 4) /\ FieldsOf(s1 \o s2) = FieldsOf(s1) \cup FieldsOf(s2)
  <2>1. Ordered(s1, 3, 0, 1) /\ Ordered(s2, 3, 1, 4)
    BY <1>7, <1>8
  <2>2. 0 \in Nat /\ 1 \in Nat /\ 4 \in Nat /\ 0 <= 1 /\ 1 <= 4
    OBVIOUS
  <2> QED
    BY <2>1, <2>2, OrderedConcat, Zenon
<1> DEFINE t2 == s1 \o s2
<1> HIDE DEF t2
<1>18. Ordered(t2 \o s3, 3, 0, 5) /\ FieldsOf(t2 \o s3) = FieldsOf(t2) \cup FieldsOf(s3)
  <2>1. Ordered(t2, 3, 0, 4) /\ Ordered(s3, 3, 4, 5)
    BY <1>17, <1>9 DEF t2
  <2>2. 0 \in Nat /\ 4 \in Nat /\ 5 \in Nat /\ 0 <= 4 /\ 4 <= 5
    OBVIOUS
  <2> QED
    BY <2>1, <2>2, OrderedConcat, Zenon
<1> DEFINE t3 == t2 \o s3
<1> HIDE DEF t3
<1>19. Ordered(t3 \o s4, 3, 0, 6) /\ FieldsOf(t3 \o s4) = FieldsOf(t3) \cup FieldsOf(s4)
  <2>1. Ordered(t3, 3, 0, 5) /\ Ordered(s4, 3, 5, 6)
    BY <1>18, <1>10 DEF t3
  <2>2. 0 \in Nat /\ 5 \in Nat /\ 6 \in Nat /\ 0 <= 5 /\ 5 <= 6
    OBVIOUS
  <2> QED
    BY <2>1, <2>2, OrderedConcat, Zenon
<1> DEFINE t4 == t3 \o s4
<1> HIDE DEF t4
<1>20. Ordered(t4 \o s5, 3, 0, 7) /\ FieldsOf(t4 \o s5) = FieldsOf(t4) \cup FieldsOf(s5)
  <2>1. Ordered(t4, 3, 0, 6) /\ Ordered(s5, 3, 6, 7)
    BY <1>19, <1>11 DEF t4
  <2>2. 0 \in Nat /\ 6 \in Nat /\ 7 \in Nat /\ 0 <= 6 /\ 6 <= 7
    OBVIOUS
  <2> QED
    BY <2>1, <2>2, OrderedConcat, Zenon
<1> DEFINE t5 == t4 \o s5
<1> HIDE DEF t5
<1>21. Ordered(t5 \o s6, 3, 0, 8) /\ FieldsOf(t5 \o s6) = FieldsOf(t5) \cup FieldsOf(s6)
  <2>1. Ordered(t5, 3, 0, 7) /\ Ordered(s6, 3, 7, 8)
    BY <1>20, <1>12 DEF t5
  <2>2. 0 \in Nat /\ 7 \in Nat /\ 8 \in Nat /\ 0 <= 7 /\ 7 <= 8
    OBVIOUS
  <2> QED
    BY <2>1, <2>2, OrderedConcat, Zenon
<1> DEFINE t6 == t5 \o s6
<1> HIDE DEF t6
<1>22. Ordered(t6 \o s7, 3, 0, 9) /\ FieldsOf(t6 \o s7) = FieldsOf(t6) \cup FieldsOf(s7)
  <2>1. Ordered(t6, 3, 0, 8) /\ Ordered(s7, 3, 8, 9)
    BY <1>21, <1>13 DEF t6
  <2>2. 0 \in Nat /\ 8 \in Nat /\ 9 \in Nat /\ 0 <= 8 /\ 8 <= 9
    OBVIOUS
  <2> QED
    BY <2>1, <2>2, OrderedConcat, Zenon
<1> DEFINE t7 == t6 \o s7
<1> HIDE DEF t7
<1>23. Ordered(t7 \o s8, 3, 0, 14) /\ FieldsOf(t7 \o s8) = FieldsOf(t7) \cup FieldsOf(s8)
  <2>1. Ordered(t7, 3, 0, 9) /\ Ordered(s8, 3, 9, 14)
    BY <1>22, <1>15 DEF t7
  <2>2. 0 \in Nat /\ 9 \in Nat /\ 14 \in Nat /\ 0 <= 9 /\ 9 <= 14
    OBVIOUS
  <2> QED
    BY <2>1, <2>2, OrderedConcat, Zenon
<1> DEFINE s == RepoRequests(cr, released)
<1>24. s = t7 \o s8
    BY <1>16 DEF t7, t6, t5, t4, t3, t2
<1> HIDE DEF s
<1>25. FieldsOf(s) = (all \cap (RepoPatch \cup {"reporting", "topics", "properties", "default"} \cup Pages \cup Scan))
                      \cup FieldsOf(s8)
    BY <1>7, <1>8, <1>9, <1>10, <1>11, <1>12, <1>13, <1>17, <1>18, <1>19, <1>20, <1>21, <1>22, <1>23, <1>24
       DEF t7, t6, t5, t4, t3, t2
<1>26. /\ RepoFlow \cap (Scan \cup {"push"}) = {} /\ {"title", "message", "branch", "path"} \cap (Scan \cup {"push"}) = {}
       /\ "patterns" \notin RepoPatch \cup {"reporting", "topics", "properties", "default"} \cup Pages \cup Scan
    BY DEF RepoFlow, Scan, RepoPatch, Pages
<1>27. e \cap (RepoPatch \cup RepoOwn) \subseteq FieldsOf(s)
    BY <1>3, <1>25 DEF RepoOwn
<1>28. FieldsOf(s) \cap (Scan \cup {"push"}) \subseteq e
    BY <1>3, <1>14, <1>15, <1>25, <1>26
<1>29. "patterns" \in FieldsOf(s) => "allowed" \in FieldsOf(s)
    BY <1>14, <1>15, <1>25, <1>26
<1>30. ASSUME e \cap RepoFlow # {}, NEW f \in RepoIncluded(Expected) \cap RepoFlow, Expected[f] # Unset,
              f = "patterns" => Expected.allowed = "selected", f = "policy" => Expected.private = "off"
       PROVE  f \in FieldsOf(s)
    BY <1>14, <1>15, <1>25, <1>30
<1> QED
    BY <1>23, <1>24, <1>27, <1>28, <1>29, <1>30 DEF e, s

\* The plan: what is in it, and what certainly is.
LEMMA PlanFacts ==
    ASSUME IsConfiguration(config), NEW co, NEW cr,
           \A f \in {"title", "message", "branch", "path"} : cr[f] # Unset
    PROVE  LET d == OrgChanges(co)
               e == Differing(Expected, cr, RepoIncluded(Expected))
               p == Patches(co, cr)
           IN  /\ Arranged(p, 0, 4)
               /\ \A f \in d \cap (OrgRest \cup OrgWeb) : Sends(p, "org", f)
               /\ d \cap OrgFlow # {} => \A f \in OrgIncluded(config.org) \cap OrgFlow : Sends(p, "org", f)
               /\ config.org.property # co.property => Sends(p, "org", "property")
               /\ \A f \in (e \cup Released(d)) \cap (RepoPatch \cup RepoOwn) : Sends(p, "repo", f)
               /\ e \cap RepoFlow # {} =>
                      \A f \in RepoIncluded(Expected) \cap RepoFlow :
                          /\ Expected[f] # Unset
                          /\ f = "patterns" => Expected.allowed = "selected"
                          /\ f = "policy" => Expected.private = "off"
                          => Sends(p, "repo", f)
               /\ \A f \in e \cap RuleFields : Sends(p, "rule", f)
               /\ \A q : InPlan(p, q) /\ q.at = "repo" => DOMAIN q.data \cap (Scan \cup {"push"}) \subseteq e
               /\ Sends(p, "repo", "patterns") => Sends(p, "repo", "allowed")
<1> DEFINE d == OrgChanges(co)
           e == Differing(Expected, cr, RepoIncluded(Expected))
           released == Released(d)
           s1 == OrgRequests(d)
           s2 == PropertyRequests(co)
           s3 == RepoRequests(cr, released)
           s4 == RuleRequests(cr)
<1>1. /\ d \subseteq OrgIncluded(config.org)
      /\ released \in SUBSET {"signoff"}
      /\ released # {} => Expected.signoff # Unset
  <2>1. config.org.signoff = "off" => Expected.signoff # Unset
    <3>1. /\ DOMAIN config.repo = RepoFields /\ config.repo.signoff # Unset /\ "signoff" \in RepoFields
          /\ "allowed" \in RepoFields
        BY DEF IsConfiguration, IsSettings, RepoFields, RepoPatch, RepoFlow
    <3> QED
        BY <3>1 DEF Expected, CoercedFlow, CoercedRepo
  <2> QED
    BY <2>1 DEF OrgChanges, Differing, Released
<1>2. /\ Ordered(s1, 1, 0, 14) /\ d \cap (OrgRest \cup OrgWeb) \subseteq FieldsOf(s1)
      /\ d \cap OrgFlow # {} => OrgIncluded(config.org) \cap OrgFlow \subseteq FieldsOf(s1)
    BY <1>1, OrgPatch
<1>3. Ordered(s2, 2, 0, 14) /\ (config.org.property # co.property => "property" \in FieldsOf(s2))
  <2> DEFINE part == Part("org", "property", config.org, {"property"})
  <2>1. "property" \in DOMAIN OpNo /\ OpNo["property"] = 1 /\ 2 = PatchNo([at |-> "org", op |-> "property"])
        /\ {"property"} \subseteq Carries("org", "property") \cap Included("org") /\ Want("org") = config.org
    BY DEF OpNo, PatchNo, Carries, Included, Want
  <2>2. config.org.property # Unset
    BY DEF IsConfiguration, IsSettings
  <2>3. Ordered(part, 2, 0, 14) /\ FieldsOf(part) = {"property"}
    BY <2>1, <2>2, PartIsOrdered
  <2>4. s2 = IF config.org.property = co.property THEN <<>> ELSE part
    BY DEF PropertyRequests, Part, Unless
  <2> HIDE DEF part, s2
  <2> QED
    BY <2>3, <2>4, NothingIsOrdered
<1>4. /\ Ordered(s3, 3, 0, 14) /\ (e \cup released) \cap (RepoPatch \cup RepoOwn) \subseteq FieldsOf(s3)
      /\ (e \cup released) \cap RepoFlow # {} =>
             \A f \in RepoIncluded(Expected) \cap RepoFlow :
                 /\ Expected[f] # Unset
                 /\ f = "patterns" => Expected.allowed = "selected"
                 /\ f = "policy" => Expected.private = "off"
                 => f \in FieldsOf(s3)
      /\ FieldsOf(s3) \cap (Scan \cup {"push"}) \subseteq e \cup released
      /\ "patterns" \in FieldsOf(s3) => "allowed" \in FieldsOf(s3)
  <2> HIDE DEF released
  <2> QED
    BY <1>1, PatchOfRepo
<1>5. Ordered(s4, 4, 0, 14) /\ FieldsOf(s4) = e \cap RuleFields
  <2> DEFINE fields == e \cap RuleFields
  <2>1. "rule" \in DOMAIN OpNo /\ OpNo["rule"] = 1 /\ 4 = PatchNo([at |-> "rule", op |-> "rule"])
        /\ Carries("rule", "rule") = RuleFields /\ Included("rule") = RepoIncluded(Expected) /\ Want("rule") = Expected
    BY DEF OpNo, PatchNo, Carries, Included, Want
  <2>2. fields \subseteq Carries("rule", "rule") \cap Included("rule")
    BY <2>1 DEF Differing
  <2>3. \A f \in fields : Expected[f] = Want("rule")[f] /\ Expected[f] # Unset
    BY <2>1 DEF Differing
  <2>4. s4 = Part("rule", "rule", Expected, fields)
    BY DEF RuleRequests
  <2> HIDE DEF fields, s4
  <2>5. Ordered(Part("rule", "rule", Expected, fields), 4, 0, 14) /\ FieldsOf(Part("rule", "rule", Expected, fields)) = fields
    BY <2>1, <2>2, <2>3, PartIsOrdered
  <2> QED
    BY <2>4, <2>5 DEF fields
<1> HIDE DEF d, e, released, s1, s2, s3, s4
<1> DEFINE t1 == IfAny(s1)  t2 == IfAny(s2)  t3 == IfAny(s3)  t4 == IfAny(s4)
           p == ((t1 \o t2) \o t3) \o t4
<1>6. /\ Arranged(t1, 0, 1)
      /\ \A q : InPlan(t1, q) => PatchNo(q) = 1 /\ DOMAIN q.data \subseteq FieldsOf(s1)
      /\ \A f \in FieldsOf(s1) : \E q : InPlan(t1, q) /\ f \in DOMAIN q.data
    BY <1>2, PatchIsArranged
<1>7. /\ Arranged(t2, 1, 2)
      /\ \A q : InPlan(t2, q) => PatchNo(q) = 2 /\ DOMAIN q.data \subseteq FieldsOf(s2)
      /\ \A f \in FieldsOf(s2) : \E q : InPlan(t2, q) /\ f \in DOMAIN q.data
    BY <1>3, PatchIsArranged
<1>8. /\ Arranged(t3, 2, 3)
      /\ \A q : InPlan(t3, q) => PatchNo(q) = 3 /\ DOMAIN q.data \subseteq FieldsOf(s3)
      /\ \A f \in FieldsOf(s3) : \E q : InPlan(t3, q) /\ f \in DOMAIN q.data
    BY <1>4, PatchIsArranged
<1>9. /\ Arranged(t4, 3, 4)
      /\ \A q : InPlan(t4, q) => PatchNo(q) = 4
      /\ \A f \in FieldsOf(s4) : \E q : InPlan(t4, q) /\ f \in DOMAIN q.data
    BY <1>5, PatchIsArranged
<1> HIDE DEF t1, t2, t3, t4
<1>10. Arranged(t1 \o t2, 0, 2) /\ \A q : InPlan(t1 \o t2, q) <=> InPlan(t1, q) \/ InPlan(t2, q)
  <2>1. Arranged(t1, 0, 1) /\ Arranged(t2, 1, 2)
    BY <1>6, <1>7
  <2>2. 0 \in Nat /\ 1 \in Nat /\ 2 \in Nat /\ 0 <= 1 /\ 1 <= 2
    OBVIOUS
  <2> QED
    BY <2>1, <2>2, ArrangedConcat
<1> DEFINE u2 == t1 \o t2
<1> HIDE DEF u2
<1>11. Arranged(u2 \o t3, 0, 3) /\ \A q : InPlan(u2 \o t3, q) <=> InPlan(u2, q) \/ InPlan(t3, q)
  <2>1. Arranged(u2, 0, 2) /\ Arranged(t3, 2, 3)
    BY <1>10, <1>8 DEF u2
  <2>2. 0 \in Nat /\ 2 \in Nat /\ 3 \in Nat /\ 0 <= 2 /\ 2 <= 3
    OBVIOUS
  <2> QED
    BY <2>1, <2>2, ArrangedConcat
<1> DEFINE u3 == u2 \o t3
<1> HIDE DEF u3
<1>12. Arranged(u3 \o t4, 0, 4) /\ \A q : InPlan(u3 \o t4, q) <=> InPlan(u3, q) \/ InPlan(t4, q)
  <2>1. Arranged(u3, 0, 3) /\ Arranged(t4, 3, 4)
    BY <1>11, <1>9 DEF u3
  <2>2. 0 \in Nat /\ 3 \in Nat /\ 4 \in Nat /\ 0 <= 3 /\ 3 <= 4
    OBVIOUS
  <2> QED
    BY <2>1, <2>2, ArrangedConcat
<1>13. p = u3 \o t4 /\ Patches(co, cr) = p
    BY DEF Patches, u3, u2, t1, t2, t3, t4, s1, s2, s3, s4, released, d
<1> HIDE DEF p
<1>14. Arranged(p, 0, 4) /\ \A q : InPlan(p, q) <=> InPlan(t1, q) \/ InPlan(t2, q) \/ InPlan(t3, q) \/ InPlan(t4, q)
    BY <1>10, <1>11, <1>12, <1>13 DEF u3, u2
<1>15. \A q : InPlan(p, q) => Fits(q)
    BY <1>14 DEF Arranged, Ordered, InPlan
<1>16. \A q : InPlan(p, q) => /\ PatchNo(q) \in {1, 2} <=> q.at = "org"
                              /\ PatchNo(q) = 3 <=> q.at = "repo"
                              /\ PatchNo(q) = 4 <=> q.at = "rule"
    BY <1>15 DEF Fits, PatchNo
<1>17. \A f \in FieldsOf(s1) \cup FieldsOf(s2) : Sends(p, "org", f)
    BY <1>6, <1>7, <1>14, <1>16 DEF Sends
<1>18. \A f \in FieldsOf(s3) : Sends(p, "repo", f)
    BY <1>8, <1>14, <1>16 DEF Sends
<1>19. \A q : InPlan(p, q) /\ q.at = "repo" => DOMAIN q.data \subseteq FieldsOf(s3)
    BY <1>6, <1>7, <1>8, <1>9, <1>14, <1>16
<1>23. \A f \in FieldsOf(s4) : Sends(p, "rule", f)
    BY <1>9, <1>14, <1>16 DEF Sends
<1>20. Sends(p, "repo", "patterns") => Sends(p, "repo", "allowed")
    BY <1>4, <1>18, <1>19 DEF Sends
<1>21. "signoff" \notin Scan \cup {"push"}
    BY DEF Scan
<1>22. \A q : InPlan(p, q) /\ q.at = "repo" => DOMAIN q.data \cap (Scan \cup {"push"}) \subseteq e
    BY <1>1, <1>4, <1>19, <1>21
<1> QED
    BY <1>2, <1>3, <1>4, <1>5, <1>13, <1>14, <1>17, <1>18, <1>20, <1>22, <1>23 DEF d, e, released

\* What a run compares the configuration with agrees with what there is, as far as it matters.
LEMMA CurrentFacts ==
    ASSUME LiveInv, pc = "idle", NEW co, NEW cr,
           co = IF local THEN base.org ELSE OrgRead,
           cr = IF local THEN CoercedRepo(base.org, base.repo) ELSE RepoRead
    PROVE  /\ \A f \in {"signoff", "fork", "private_pages", "repositories", "property"} : co[f] = org[f]
           /\ org.repositories = "selected" => co.picked = org.picked
           /\ org.repositories # "none" => \A f \in {"allowed", "permissions", "approve"} : co[f] = org[f]
           /\ \A f \in {"title", "message", "branch", "path"} : cr[f] # Unset
           /\ cr.private = repo.private /\ cr.setup = repo.setup
           /\ repo.setup # "off" => cr.suite = repo.suite
           /\ cr.push # Unset => \/ cr.scanning = repo.scanning
                                 \/ /\ local /\ cr.scanning = base.repo.scanning
                                    /\ RepoEffective(base.org, base.repo).scanning # base.repo.scanning
<1>1. /\ DOMAIN org = OrgFields \cup {"plan", "property"} /\ DOMAIN repo = RepoFields
      /\ DOMAIN base.org = OrgFields \cup {"plan", "property"} /\ DOMAIN base.repo = RepoFields
      /\ \A f \in DOMAIN org : org[f] # Unset /\ base.org[f] # Unset
      /\ \A f \in DOMAIN repo : repo[f] # Unset /\ base.repo[f] # Unset
      /\ local \in BOOLEAN
    BY DEF LiveInv, IsSettings
<1>2. {"signoff", "fork", "private_pages", "repositories", "property", "picked", "allowed", "permissions", "approve"}
        \subseteq OrgFields \cup {"property"}
    BY DEF OrgFields, OrgFlow, OrgRest
<1>3. {"title", "message", "branch", "path", "private", "setup", "suite", "push", "scanning"} \subseteq RepoFields
    BY DEF RepoFields, RepoPatch, RepoOwn, Pages, Scan
<1>4. ASSUME NEW o, DOMAIN o = OrgFields \cup {"plan", "property"}
      PROVE  /\ \A f \in {"signoff", "fork", "private_pages", "repositories", "property"} : OrgEffective(o)[f] = o[f]
             /\ o.repositories = "selected" => OrgEffective(o).picked = o.picked
             /\ o.repositories # "none" => \A f \in {"allowed", "permissions", "approve"} : OrgEffective(o)[f] = o[f]
    BY <1>2, <1>4 DEF OrgEffective, OrgFlow
<1>5. ASSUME NEW o, NEW r, DOMAIN r = RepoFields
      PROVE  /\ RepoEffective(o, r).private = r.private /\ RepoEffective(o, r).setup = r.setup
             /\ RepoEffective(o, r).title = r.title /\ RepoEffective(o, r).message = r.message
             /\ r.setup # "off" => RepoEffective(o, r).suite = r.suite
             /\ r.private = "on" => RepoEffective(o, r).push = Unset /\ RepoEffective(o, r).scanning = Unset
             /\ r.private # "on" => RepoEffective(o, r).scanning = r.scanning
             /\ RepoEffective(o, r).branch \in {Unset, r.branch} /\ RepoEffective(o, r).path \in {Unset, r.path}
    BY <1>3, <1>5 DEF RepoEffective, RepoFlow, Ignored, RuleFields
<1>6. CASE local
  <2>1. OrgEffective(org) = OrgEffective(base.org) /\ RepoEffective(org, repo) = RepoEffective(base.org, base.repo)
    BY <1>6 DEF LiveInv, Behaves
  <2>2. /\ \A f \in {"signoff", "fork", "private_pages", "repositories", "property"} : base.org[f] = org[f]
        /\ org.repositories = "selected" => base.org.picked = org.picked
        /\ org.repositories # "none" => \A f \in {"allowed", "permissions", "approve"} : base.org[f] = org[f]
    <3>1. \A f \in {"signoff", "fork", "private_pages", "repositories", "property"} : base.org[f] = org[f]
        BY <1>1, <1>4, <2>1
    <3>2. base.org.repositories = org.repositories
        BY <3>1
    <3> QED
        BY <1>1, <1>4, <2>1, <3>1, <3>2
  <2>3. \A f \in {"title", "message", "branch", "path", "private", "setup", "suite", "push", "scanning"} :
            cr[f] = base.repo[f]
    BY <1>1, <1>3, <1>6 DEF CoercedRepo
  <2>4. /\ base.repo.private = repo.private /\ base.repo.setup = repo.setup
        /\ repo.setup # "off" => base.repo.suite = repo.suite
    BY <1>1, <1>5, <2>1
  <2>5. base.repo.scanning = repo.scanning \/ RepoEffective(base.org, base.repo).scanning # base.repo.scanning
    <3>1. base.repo.private # "on" => base.repo.scanning = repo.scanning
        BY <1>1, <1>5, <2>1, <2>4
    <3>2. base.repo.private = "on" => RepoEffective(base.org, base.repo).scanning = Unset
        BY <1>1, <1>5
    <3> QED
        BY <1>1, <1>3, <3>1, <3>2
  <2> QED
    BY <1>1, <1>2, <1>3, <1>6, <2>2, <2>3, <2>4, <2>5
<1>7. CASE ~local
  <2>1. /\ \A f \in OrgFields \cup {"property"} : f \notin {"picked", "policy"} => OrgRead[f] = FlowRead(f, OrgEffective(org)[f])
        /\ OrgRead.picked = PickedRead
    BY <1>1, <1>2 DEF OrgRead
  <2>2. /\ \A f \in {"signoff", "fork", "private_pages", "repositories", "property"} : OrgRead[f] = org[f]
        /\ org.repositories = "selected" => OrgRead.picked = org.picked
        /\ org.repositories # "none" => \A f \in {"allowed", "permissions", "approve"} : OrgRead[f] = org[f]
        /\ OrgRead.picked # Unset
    <3>1. \A f \in {"signoff", "fork", "private_pages", "repositories", "property", "allowed", "permissions", "approve"} :
              OrgRead[f] = OrgEffective(org)[f]
        BY <1>2, <2>1 DEF FlowRead
    <3> QED
        BY <1>1, <1>2, <1>4, <2>1, <3>1 DEF PickedRead, Unset
  <2>3. /\ \A f \in {"title", "message", "private", "setup", "push", "scanning"} : RepoRead[f] = RepoEffective(org, repo)[f] \/ f = "setup"
        /\ RepoRead.setup = ScanRead("setup", RepoEffective(org, repo).setup)
        /\ RepoRead.suite = ScanRead("suite", RepoEffective(org, repo).suite)
        /\ RepoRead.branch = PagesRead("branch", RepoEffective(org, repo).branch)
        /\ RepoRead.path = PagesRead("path", RepoEffective(org, repo).path)
    BY <1>1, <1>3 DEF RepoRead, IsAsked, Pages, Scan, RepoFlow, RuleFields
  <2>4. /\ \A f \in {"title", "message", "branch", "path"} : RepoRead[f] # Unset
        /\ RepoRead.private = repo.private /\ RepoRead.setup = repo.setup
        /\ repo.setup # "off" => RepoRead.suite = repo.suite
        /\ RepoRead.push # Unset => RepoRead.scanning = repo.scanning
    BY <1>1, <1>3, <1>5, <2>3 DEF PagesRead, ScanRead, Unset
  <2> QED
    BY <1>1, <1>2, <1>7, <2>2, <2>4
<1> QED
    BY <1>1, <1>6, <1>7

\* A plan establishes what the requests rely on.
LEMMA PlanKeepsAccept == ASSUME AcceptInv, PlanRun PROVE AcceptInv'
<1> DEFINE co == IF local THEN base.org ELSE OrgRead
           cr == IF local THEN CoercedRepo(base.org, base.repo) ELSE RepoRead
           d == OrgChanges(co)
           e == Differing(Expected, cr, RepoIncluded(Expected))
           p == Patches(co, cr)
<1>1. /\ LiveInv /\ TodoInv /\ UndisturbedInv /\ pc = "idle" /\ pc' = "applying"
      /\ IsConfiguration(config)
      /\ UNCHANGED <<org, repo, branches, config, base, local>>
      /\ past'.refused = past.refused /\ past'.disturbed = past.disturbed
      /\ "refused" \in DOMAIN past' /\ "disturbed" \in DOMAIN past'
    BY DEF AcceptInv, PlanRun, LiveInv
<1>2. todo' = p
    BY DEF PlanRun
<1>3. Expected' = Expected /\ Relevant' = Relevant /\ TakenForApplied' = TakenForApplied /\ Undisturbed' = Undisturbed
      /\ (IsValid(config)' <=> IsValid(config))
    BY <1>1 DEF Expected, Relevant, TakenForApplied, Undisturbed
<1>4. LiveInv'
    BY <1>1 DEF LiveInv
<1>5. /\ \A f \in {"signoff", "fork", "private_pages", "repositories", "property"} : co[f] = org[f]
      /\ org.repositories = "selected" => co.picked = org.picked
      /\ org.repositories # "none" => \A f \in {"allowed", "permissions", "approve"} : co[f] = org[f]
      /\ \A f \in {"title", "message", "branch", "path"} : cr[f] # Unset
      /\ cr.private = repo.private /\ cr.setup = repo.setup
      /\ repo.setup # "off" => cr.suite = repo.suite
      /\ cr.push # Unset => \/ cr.scanning = repo.scanning
                            \/ /\ local /\ cr.scanning = base.repo.scanning
                               /\ RepoEffective(base.org, base.repo).scanning # base.repo.scanning
    BY <1>1, CurrentFacts
<1> HIDE DEF co, cr
<1>6. /\ Arranged(p, 0, 4)
      /\ \A f \in d \cap OrgRest : Sends(p, "org", f)
      /\ d \cap OrgFlow # {} =>
             \A f \in OrgIncluded(config.org) \cap {"repositories", "picked", "allowed", "permissions", "approve"} :
                 Sends(p, "org", f)
      /\ config.org.property # co.property => Sends(p, "org", "property")
      /\ \A f \in e \cap (RepoPatch \cup Scan) : Sends(p, "repo", f)
      /\ \A q : InPlan(p, q) /\ q.at = "repo" => DOMAIN q.data \cap (Scan \cup {"push"}) \subseteq e
      /\ Sends(p, "repo", "patterns") => Sends(p, "repo", "allowed")
  <2>1. /\ Arranged(p, 0, 4)
        /\ \A f \in d \cap (OrgRest \cup OrgWeb) : Sends(p, "org", f)
        /\ d \cap OrgFlow # {} => \A f \in OrgIncluded(config.org) \cap OrgFlow : Sends(p, "org", f)
        /\ config.org.property # co.property => Sends(p, "org", "property")
        /\ \A f \in (e \cup Released(d)) \cap (RepoPatch \cup RepoOwn) : Sends(p, "repo", f)
        /\ \A q : InPlan(p, q) /\ q.at = "repo" => DOMAIN q.data \cap (Scan \cup {"push"}) \subseteq e
        /\ Sends(p, "repo", "patterns") => Sends(p, "repo", "allowed")
    BY <1>1, <1>5, PlanFacts
  <2>2. {"repositories", "picked", "allowed", "permissions", "approve"} \subseteq OrgFlow /\ Scan \subseteq RepoOwn
    BY DEF OrgFlow, RepoOwn
  <2> HIDE DEF p, d, e
  <2> QED
    BY <2>1, <2>2
<1> HIDE DEF p
<1>7. /\ \A q : IsPending(q)' <=> InPlan(p, q)
      /\ \A at, f : Coming(at, f)' <=> Sends(p, at, f)
    BY <1>2 DEF IsPending, Coming, Sends, InPlan
<1>8. TodoInv'
  <2>1. \A q : Fits(q)' <=> Fits(q)
    BY <1>1, <1>3 DEF Fits, Want, Included
  <2>2. Arranged(todo, 0, 4)'
    BY <1>2, <1>6, <2>1 DEF Arranged, Ordered
  <2> QED
    BY <1>1, <2>2 DEF TodoInv
<1>9. /\ \A f \in DOMAIN config.org : config.org[f] # Unset
      /\ DOMAIN config.org = OrgFields \cup {"plan", "property"}
      /\ \A f \in RepoFields : repo[f] # Unset
      /\ \A f \in DOMAIN org : org[f] # Unset
      /\ DOMAIN org = OrgFields \cup {"plan", "property"}
    BY <1>1 DEF LiveInv, IsConfiguration, IsSettings
<1>10. OrgInv'
  <2>1. \A f \in OrgIncluded(config.org) \ {"configs"} : co[f] # config.org[f] /\ co[f] # Unset => f \in d
    BY <1>9 DEF OrgChanges, Differing, OrgIncluded
  <2>2. {"signoff", "fork", "private_pages", "repositories"} \subseteq OrgIncluded(config.org)
        /\ {"signoff", "fork", "private_pages"} \subseteq OrgRest
        /\ {"repositories", "picked", "allowed", "permissions", "approve"} \subseteq OrgFlow
        /\ {"signoff", "fork", "private_pages", "repositories", "picked", "allowed", "permissions", "approve"}
              \subseteq DOMAIN org
    BY <1>9 DEF OrgIncluded, OrgFields, OrgRest, OrgFlow, FlowIncluded
  <2> HIDE DEF d
  <2>3. \A f \in {"signoff", "fork", "private_pages"} : org[f] = config.org[f] \/ Sends(p, "org", f)
    BY <1>5, <1>6, <1>9, <2>1, <2>2
  <2>4. org.property = config.org.property \/ Sends(p, "org", "property")
    BY <1>5, <1>6
  <2>5. org.repositories # config.org.repositories => d \cap OrgFlow # {}
    BY <1>5, <1>9, <2>1, <2>2
  <2>6. ASSUME NEW f \in {"repositories", "picked", "allowed", "permissions", "approve"},
               f \in OrgIncluded(config.org), f = "picked" => config.org.repositories = "selected",
               f \in {"allowed", "permissions", "approve"} => config.org.repositories # "none"
        PROVE  org[f] = config.org[f] \/ Sends(p, "org", f)
    <3>1. CASE org.repositories # config.org.repositories
        BY <2>5, <2>6, <3>1, <1>6
    <3>2. CASE org.repositories = config.org.repositories
      <4>1. co[f] = org[f]
        BY <2>6, <3>2, <1>5
      <4>2. org[f] # config.org[f] => f \in d \cap OrgFlow
        BY <4>1, <2>1, <2>2, <2>6, <1>9
      <4> QED
        BY <4>2, <2>6, <1>6
    <3> QED
        BY <3>1, <3>2
  <2>7. /\ config.org.repositories = "selected" => "picked" \in OrgIncluded(config.org)
        /\ config.org.repositories # "none" => {"allowed", "permissions", "approve"} \subseteq OrgIncluded(config.org)
    BY DEF OrgIncluded, OrgFields, OrgFlow, FlowIncluded
  <2>8. \A f \in Relevant : org[f] = config.org[f] \/ Sends(p, "org", f)
    BY <2>2, <2>3, <2>4, <2>6, <2>7 DEF Relevant
  <2> QED
    BY <1>1, <1>3, <1>7, <2>8 DEF OrgInv
<1>11. /\ {"private", "setup", "suite", "scanning", "push"} \subseteq RepoFields
       /\ {"private", "scanning", "push"} \subseteq RepoPatch
       /\ {"setup", "suite"} \subseteq Scan
       /\ \A f \in {"private", "setup", "suite", "scanning"} : Expected[f] # Unset
       /\ {"private", "setup"} \subseteq RepoIncluded(Expected)
       /\ Expected.private # "on" => "scanning" \in RepoIncluded(Expected)
       /\ Expected.setup # "off" => "suite" \in RepoIncluded(Expected)
  <2>1. /\ {"private", "setup", "suite", "scanning", "push"} \subseteq RepoFields
        /\ {"private", "scanning", "push"} \subseteq RepoPatch
        /\ {"setup", "suite"} \subseteq Scan
    BY DEF RepoFields, RepoPatch, RepoOwn, Scan
  <2> QED
    BY <2>1, <1>1, ExpectedFacts, AlwaysIncluded
<1>12. \A f \in RepoIncluded(Expected) : Expected[f] # Unset /\ cr[f] # Unset /\ cr[f] # Expected[f] => f \in e
    BY DEF Differing
<1>13. \A f \in e : f \in RepoIncluded(Expected) /\ cr[f] # Unset /\ cr[f] # Expected[f]
    BY DEF Differing
<1> HIDE DEF e
<1>14. RepoInv'
  <2>1. SUFFICES ASSUME NEW q, InPlan(p, q), q.at = "repo"
                 PROVE  /\ repo.private = Expected.private \/ Sends(p, "repo", "private")
                        /\ "patterns" \in DOMAIN q.data => Sends(p, "repo", "allowed")
                        /\ q.op = "scanning" => /\ repo.setup = Expected.setup \/ Sends(p, "repo", "setup")
                                                /\ repo.setup # Expected.setup \/ repo.suite # Expected.suite
                        /\ "push" \in DOMAIN q.data =>
                               \/ repo.scanning = Expected.scanning \/ Sends(p, "repo", "scanning")
                               \/ "scanning" \in TakenForApplied
    BY <1>1, <1>3, <1>7 DEF RepoInv, InStep
  <2>2. Fits(q)
    BY <2>1, <1>6 DEF Arranged, Ordered, InPlan
  <2>3. repo.private = Expected.private \/ Sends(p, "repo", "private")
    BY <1>5, <1>6, <1>9, <1>11, <1>12
  <2>4. "patterns" \in DOMAIN q.data => Sends(p, "repo", "allowed")
    BY <1>6, <2>1 DEF Sends
  <2>5. repo.setup = Expected.setup \/ Sends(p, "repo", "setup")
    BY <1>5, <1>6, <1>9, <1>11, <1>12
  <2>6. ASSUME q.op = "scanning" PROVE repo.setup # Expected.setup \/ repo.suite # Expected.suite
    <3>1. PICK f \in DOMAIN q.data : f \in Scan
        BY <2>1, <2>2, <2>6 DEF Fits, Carries
    <3>2. f \in e /\ (f = "setup" \/ f = "suite")
        BY <3>1, <1>6, <2>1 DEF Scan
    <3>3. f = "suite" => Expected.setup # "off"
        BY <3>2, <1>13, IncludedFacts
    <3> QED
        BY <3>2, <3>3, <1>5, <1>13
  <2>7. ASSUME "push" \in DOMAIN q.data
        PROVE  \/ repo.scanning = Expected.scanning \/ Sends(p, "repo", "scanning")
               \/ "scanning" \in TakenForApplied
    <3>1. "push" \in e
        BY <2>1, <2>7, <1>6
    <3>2. cr.push # Unset /\ Expected.private # "on"
        BY <3>1, <1>13, IncludedFacts
    <3>3. \/ cr.scanning = Expected.scanning \/ cr.scanning = Unset
          \/ Sends(p, "repo", "scanning")
        BY <3>2, <1>6, <1>11, <1>12
    <3>4. CASE cr.scanning = repo.scanning
        BY <3>3, <3>4, <1>9, <1>11
    <3>5. CASE local /\ cr.scanning = base.repo.scanning /\ RepoEffective(base.org, base.repo).scanning # base.repo.scanning
      <4>1. cr.scanning # Unset
        BY <3>5, <1>1, <1>11 DEF LiveInv, IsSettings
      <4>2. Expected.scanning = config.repo.scanning
        BY <1>1, ExpectedFacts
      <4> QED
        BY <3>3, <3>5, <4>1, <4>2, <1>11 DEF TakenForApplied
    <3> QED
        BY <3>2, <3>4, <3>5, <1>5
  <2> QED
    BY <2>3, <2>4, <2>5, <2>6, <2>7
<1>15. StuckInv /\ Undisturbed => StuckInv'
  <2>1. SUFFICES ASSUME StuckInv, Undisturbed, NEW r \in past.refused, r.op = "scanning"
                 PROVE  /\ repo.enabled # "on" /\ Expected.setup = "on"
                        /\ repo.setup # "on" \/ repo.suite # Expected.suite
                        /\ \E q : InPlan(p, q) /\ q.op = "scanning"
    BY <1>1, <1>3, <1>7 DEF StuckInv
  <2>2. /\ repo.enabled # "on" /\ Expected.setup = "on"
        /\ repo.setup # "on" \/ repo.suite # Expected.suite
    BY <2>1 DEF StuckInv
  <2>3. Sends(p, "repo", "setup") \/ Sends(p, "repo", "suite")
    <3>1. CASE repo.setup # "on"
        BY <3>1, <2>2, <1>5, <1>6, <1>9, <1>11, <1>12
    <3>2. CASE repo.setup = "on"
        BY <3>2, <2>2, <1>5, <1>6, <1>9, <1>11, <1>12
    <3> QED
        BY <3>1, <3>2
  <2>4. PICK q : InPlan(p, q) /\ q.at = "repo" /\ ("setup" \in DOMAIN q.data \/ "suite" \in DOMAIN q.data)
    BY <2>3 DEF Sends
  <2>5. Fits(q)
    BY <2>4, <1>6 DEF Arranged, Ordered, InPlan
  <2>6. q.op = "scanning"
    BY <2>4, <2>5, <1>11, FieldFacts
  <2> QED
    BY <2>2, <2>4, <2>6
<1>16. RefusedInv => RefusedInv'
    BY <1>1, <1>3 DEF RefusedInv
<1>17. UndisturbedInv'
    BY <1>1, <1>3, <1>10, <1>14, <1>15, <1>16 DEF UndisturbedInv
<1> QED
    BY <1>4, <1>8, <1>17 DEF AcceptInv

-----------------------------------------------------------------------------
(* Settings: the steps.                                                    *)

\* A step that leaves the configuration alone leaves what is read of it alone.
LEMMA SameConfiguration ==
    ASSUME UNCHANGED <<config, base, local>>
    PROVE  /\ Expected' = Expected /\ Relevant' = Relevant /\ TakenForApplied' = TakenForApplied
           /\ IsValid(config)' <=> IsValid(config)
           /\ \A q : Fits(q)' <=> Fits(q)
BY DEF Expected, Relevant, TakenForApplied, Fits, Want, Included

\* Code scanning is a setting of a repository.
LEMMA ScanningIsOfRepo == ASSUME NEW q, Fits(q), q.op = "scanning" PROVE q.at = "repo"
<1>1. PICK f : f \in DOMAIN q.data /\ f \in Scan /\ f \in Included(q.at) /\ q.at \in {"org", "repo", "rule"}
    BY DEF Fits, Carries
<1>2. f \notin OrgIncluded(config.org) \cup {"property"}
    BY <1>1 DEF OrgIncluded, OrgFields, OrgRest, OrgWeb, OrgFlow, Scan
<1> QED
    BY <1>1, <1>2 DEF Fits, Included

\* The settings of the repository that the invariant speaks of.
Watched == {"private", "allowed", "setup", "suite", "scanning", "enabled"}

\* A request for the repository or its rule was sent.
LEMMA RepoStep ==
    ASSUME AcceptInv, Sent, Now.at # "org", UNCHANGED org,
           DOMAIN repo' = RepoFields, \A f \in RepoFields : repo'[f] # Unset,
           branches' # {} => repo'.default \in branches',
           \A f \in Watched : repo'[f] = IF Now.at = "repo" /\ f \in DOMAIN Now.data THEN Expected[f] ELSE repo[f]
    PROVE  AcceptInv'
<1>1. /\ LiveInv /\ TodoInv /\ UndisturbedInv /\ pc = "applying" /\ todo # <<>> /\ Advance /\ Accepted(Now)
      /\ UNCHANGED <<config, base, local, pc, times, past>>
    BY DEF AcceptInv, Sent, Sending
<1>2. /\ Expected' = Expected /\ Relevant' = Relevant /\ TakenForApplied' = TakenForApplied
      /\ Undisturbed' = Undisturbed
  <2>1. IsValid(config)' <=> IsValid(config)
    BY <1>1, SameConfiguration
  <2> QED
    BY <1>1, <2>1, SameConfiguration DEF Undisturbed
<1>3. /\ TodoInv'
      /\ \A q : IsPending(q)' => IsPending(q) /\ q # Now
      /\ \A q : IsPending(q) /\ q # Now => IsPending(q)'
    BY <1>1, AdvanceFacts
<1>4. /\ IsPending(Now) /\ \A q : IsPending(q) => Fits(q)
    BY <1>1, NowFacts
<1>5. LiveInv'
    BY <1>1 DEF LiveInv, IsSettings
<1>6. SUFFICES ASSUME Undisturbed PROVE OrgInv' /\ RepoInv' /\ StuckInv' /\ RefusedInv'
    BY <1>2, <1>3, <1>5 DEF AcceptInv, UndisturbedInv
<1>7. OrgInv /\ RepoInv /\ StuckInv /\ RefusedInv /\ IsValid(config)
    BY <1>1, <1>6 DEF UndisturbedInv, Undisturbed
<1>8. OrgInv'
    BY <1>1, <1>2, <1>7, OrgIsDone DEF OrgInv
<1>9. ASSUME NEW f \in Watched, InStep(f) PROVE InStep(f)'
  <2>1. CASE repo[f] = Expected[f]
    BY <2>1, <1>2 DEF InStep
  <2>2. CASE Coming("repo", f)
    <3>1. PICK q : IsPending(q) /\ q.at = "repo" /\ f \in DOMAIN q.data
        BY <2>2 DEF Coming, Sends, IsPending
    <3>2. CASE q = Now
        BY <3>1, <3>2, <1>2 DEF InStep
    <3>3. CASE q # Now
      <4>1. Coming("repo", f)'
        BY <3>1, <3>3, <1>3 DEF Coming, Sends, IsPending
      <4> QED
        BY <4>1 DEF InStep
    <3> QED
        BY <3>2, <3>3
  <2> QED
    BY <1>9, <2>1, <2>2 DEF InStep
<1>10. {"setup", "suite"} = Scan /\ {"setup", "suite", "enabled", "private", "allowed", "scanning"} \subseteq Watched
    BY DEF Scan, Watched
<1>11. \A f \in {"setup", "suite"} : Now.at = "repo" /\ f \in DOMAIN Now.data => Now.op = "scanning"
    BY <1>4, <1>10, FieldFacts
<1>12. ASSUME NEW q, IsPending(q), q # Now, q.op = "scanning"
       PROVE  /\ q.at = "repo" /\ (Now.at = "repo" => Now.op \notin {"scanning", "permissions"})
  <2>1. q.at = "repo"
    BY <1>4, <1>12, ScanningIsOfRepo
  <2>2. Now.at = "repo" => OpNo[Now.op] < OpNo["scanning"]
    BY <1>1, <1>4, <1>12, <2>1, EarlierIsDone DEF Fits
  <2> QED
    BY <2>1, <2>2 DEF OpNo
<1>13. RepoInv'
  <2>1. SUFFICES ASSUME NEW q, IsPending(q), q # Now, q.at = "repo"
                 PROVE  /\ InStep("private")'
                        /\ "patterns" \in DOMAIN q.data => InStep("allowed")'
                        /\ q.op = "scanning" => InStep("setup")' /\ (repo'.setup # Expected.setup \/ repo'.suite # Expected.suite)
                        /\ "push" \in DOMAIN q.data => InStep("scanning")' \/ "scanning" \in TakenForApplied
    BY <1>2, <1>3 DEF RepoInv
  <2>2. q.op = "scanning" => repo'.setup = repo.setup /\ repo'.suite = repo.suite
    BY <2>1, <1>10, <1>11, <1>12
  <2> QED
    BY <2>1, <2>2, <1>7, <1>9, <1>10 DEF RepoInv
<1>14. StuckInv'
  <2>1. SUFFICES ASSUME NEW r \in past.refused, r.op = "scanning"
                 PROVE  /\ repo'.enabled # "on" /\ Expected.setup = "on"
                        /\ repo'.setup # "on" \/ repo'.suite # Expected.suite
                        /\ Coming("repo", "enabled")' => \E q : IsPending(q)' /\ q.op = "scanning"
    BY <1>1, <1>2 DEF StuckInv
  <2>2. /\ repo.enabled # "on" /\ Expected.setup = "on"
        /\ repo.setup # "on" \/ repo.suite # Expected.suite
        /\ Coming("repo", "enabled") => \E q : IsPending(q) /\ q.op = "scanning"
    BY <2>1, <1>7 DEF StuckInv
  <2>3. ~(Now.at = "repo" /\ "enabled" \in DOMAIN Now.data)
    <3>1. SUFFICES ASSUME Now.at = "repo", "enabled" \in DOMAIN Now.data PROVE FALSE
        OBVIOUS
    <3>2. Now.op = "permissions"
        BY <3>1, <1>4, FieldFacts
    <3>3. Coming("repo", "enabled")
        BY <3>1, <1>4 DEF Coming, Sends, IsPending
    <3>4. PICK q : IsPending(q) /\ q.op = "scanning"
        BY <3>3, <2>2
    <3> QED
        BY <3>1, <3>2, <3>4, <1>12
  <2>4. ~(Now.at = "repo" /\ Now.op = "scanning")
    <3>1. SUFFICES ASSUME Now.at = "repo", Now.op = "scanning" PROVE FALSE
        OBVIOUS
    <3>2. "setup" \in DOMAIN Now.data \/ repo.setup = Expected.setup
        BY <3>1, <1>1, <1>7, RepoIsDone
    <3>3. "setup" \in RepoFields /\ DOMAIN repo = RepoFields /\ "enabled" \in RepoFields
        BY <1>1 DEF LiveInv, IsSettings, RepoFields, RepoOwn, RepoFlow, Scan
    <3>4. \A f \in DOMAIN Now.data : Now.data[f] = Expected[f]
        BY <3>1, <1>4 DEF Fits, Want
    <3>5. After(Now).setup = "on"
        BY <3>2, <3>3, <3>4, <2>2 DEF After
    <3>6. RepoEffective(org, repo).enabled = "on"
        BY <3>1, <3>5, <1>1 DEF Accepted
    <3>7. RepoEffective(org, repo).enabled = FlowEffective(org, repo, "enabled")
        BY <3>3 DEF RepoEffective, RepoFlow, Pages, Ignored, RuleFields
    <3> QED
        BY <3>6, <3>7, <2>2 DEF FlowEffective
  <2>5. repo'.enabled = repo.enabled /\ repo'.setup = repo.setup /\ repo'.suite = repo.suite
    BY <2>3, <2>4, <1>10, <1>11
  <2>6. ASSUME Coming("repo", "enabled")' PROVE \E q : IsPending(q)' /\ q.op = "scanning"
    <3>1. Coming("repo", "enabled")
        BY <2>6, <1>3 DEF Coming, Sends, IsPending
    <3>2. PICK q : IsPending(q) /\ q.op = "scanning"
        BY <3>1, <2>2
    <3>3. q # Now
        BY <3>2, <2>4, <1>4, ScanningIsOfRepo
    <3> QED
        BY <3>2, <3>3, <1>3
  <2> QED
    BY <2>2, <2>5, <2>6
<1>15. RefusedInv'
    BY <1>1, <1>2, <1>7 DEF RefusedInv
<1> QED
    BY <1>8, <1>13, <1>14, <1>15

\* A request for the organization was sent.
LEMMA OrgStep ==
    ASSUME AcceptInv, Sent, Now.at = "org", UNCHANGED <<repo, branches>>, DOMAIN org' = DOMAIN org,
           \A f \in DOMAIN org : org'[f] = IF f \in DOMAIN Now.data THEN Now.data[f] ELSE org[f]
    PROVE  AcceptInv'
<1>1. /\ LiveInv /\ TodoInv /\ UndisturbedInv /\ pc = "applying" /\ todo # <<>> /\ Advance
      /\ UNCHANGED <<config, base, local, pc, times, past>>
    BY DEF AcceptInv, Sent, Sending
<1>2. /\ Expected' = Expected /\ Relevant' = Relevant /\ TakenForApplied' = TakenForApplied
      /\ Undisturbed' = Undisturbed
  <2>1. IsValid(config)' <=> IsValid(config)
    BY <1>1, SameConfiguration
  <2> QED
    BY <1>1, <2>1, SameConfiguration DEF Undisturbed
<1>3. /\ TodoInv'
      /\ \A q : IsPending(q)' => IsPending(q) /\ q # Now
      /\ \A q : IsPending(q) /\ q # Now => IsPending(q)'
    BY <1>1, AdvanceFacts
<1>4. /\ IsPending(Now) /\ Fits(Now) /\ \A q : IsPending(q) => Fits(q)
    BY <1>1, NowFacts
<1>5. \A f \in DOMAIN Now.data : Now.data[f] = config.org[f] /\ Now.data[f] # Unset
    BY <1>4 DEF Fits, Want
<1>6. LiveInv'
    BY <1>1, <1>5 DEF LiveInv, IsSettings
<1>7. SUFFICES ASSUME Undisturbed PROVE OrgInv' /\ RepoInv' /\ StuckInv' /\ RefusedInv'
    BY <1>2, <1>3, <1>6 DEF AcceptInv, UndisturbedInv
<1>8. OrgInv /\ RepoInv /\ StuckInv /\ RefusedInv
    BY <1>1, <1>7 DEF UndisturbedInv
<1>9. OrgInv'
  <2>1. SUFFICES ASSUME NEW f \in Relevant PROVE org'[f] = config.org[f] \/ Coming("org", f)'
    BY <1>1, <1>2 DEF OrgInv
  <2>2. f \in DOMAIN org
    BY <1>1 DEF LiveInv, IsSettings, Relevant, OrgFields, OrgRest, OrgFlow
  <2>3. CASE org[f] = config.org[f]
    BY <2>2, <2>3, <1>5
  <2>4. CASE Coming("org", f)
    <3>1. PICK q : IsPending(q) /\ q.at = "org" /\ f \in DOMAIN q.data
        BY <2>4 DEF Coming, Sends, IsPending
    <3>2. CASE q = Now
        BY <3>1, <3>2, <2>2, <1>5
    <3>3. CASE q # Now
        BY <3>1, <3>3, <1>3 DEF Coming, Sends, IsPending
    <3> QED
        BY <3>2, <3>3
  <2> QED
    BY <2>1, <2>3, <2>4, <1>1, <1>8 DEF OrgInv
<1>10. \A f : Coming("repo", f)' <=> Coming("repo", f)
    BY <1>3 DEF Coming, Sends, IsPending
<1>11. RepoInv'
    BY <1>2, <1>3, <1>8, <1>10 DEF RepoInv, InStep
<1>12. StuckInv'
  <2>1. \A q : IsPending(q) /\ q.op = "scanning" => IsPending(q)'
    BY <1>3, <1>4, ScanningIsOfRepo
  <2> QED
    BY <2>1, <1>1, <1>2, <1>8, <1>10 DEF StuckInv
<1>13. RefusedInv'
    BY <1>1, <1>2, <1>8 DEF RefusedInv
<1> QED
    BY <1>9, <1>11, <1>12, <1>13

\* Settings of the organization are written.
LEMMA UpdateOrgKeepsAccept == ASSUME AcceptInv, UpdateOrg PROVE AcceptInv'
<1>1. DOMAIN org' = DOMAIN org /\ \A f \in DOMAIN org : org'[f] = IF f \in DOMAIN Now.data THEN Now.data[f] ELSE org[f]
    BY DEF UpdateOrg
<1> QED
    BY <1>1, OrgStep DEF UpdateOrg

\* The definition of a property is written.
LEMMA UpdatePropertyKeepsAccept == ASSUME AcceptInv, UpdateProperty PROVE AcceptInv'
<1>1. TodoInv /\ todo # <<>> /\ Now.op = "property"
    BY DEF AcceptInv, UpdateProperty, Sent, Sending
<1>2. Fits(Now)
    BY <1>1, NowFacts
<1>3. Now.at = "org" /\ DOMAIN Now.data = {"property"}
    BY <1>1, <1>2 DEF Fits, Carries
<1>4. DOMAIN org' = DOMAIN org /\ \A f \in DOMAIN org : org'[f] = IF f \in DOMAIN Now.data THEN Now.data[f] ELSE org[f]
    BY <1>3 DEF UpdateProperty
<1> QED
    BY <1>3, <1>4, OrgStep DEF UpdateProperty

\* What a request for the repository makes of its settings.
LEMMA AfterFacts ==
    ASSUME LiveInv, NEW q, Fits(q), q.at # "org"
    PROVE  /\ DOMAIN After(q) = RepoFields /\ \A f \in RepoFields : After(q)[f] # Unset
           /\ \A f \in RepoFields : After(q)[f] = IF f \in DOMAIN q.data THEN Expected[f] ELSE repo[f]
           /\ \A f \in Watched \cup {"default"} : f \in RepoFields \ RuleFields
           /\ \A f \in RepoFields : f \in DOMAIN q.data /\ f \notin RuleFields => q.at = "repo"
           /\ "default" \in DOMAIN q.data => q.op = "default"
           /\ q.op = "default" => DOMAIN q.data = {"default"}
<1>1. /\ DOMAIN repo = RepoFields /\ \A f \in RepoFields : repo[f] # Unset
      /\ \A f \in DOMAIN q.data : q.data[f] = Expected[f] /\ q.data[f] # Unset
    BY DEF LiveInv, IsSettings, Fits, Want
<1>2. \A f \in Watched \cup {"default"} : f \in RepoFields \ RuleFields
    BY DEF Watched, RepoFields, RepoPatch, RepoOwn, RepoFlow, Scan, RuleFields
<1>3. q.at = "rule" => DOMAIN q.data \subseteq RuleFields
    BY DEF Fits, Carries
<1>4. q.at \in {"repo", "rule"}
    BY DEF Fits
<1>5. q.at = "repo" /\ "default" \in DOMAIN q.data => q.op = "default"
    BY FieldFacts
<1>6. q.op = "default" => DOMAIN q.data = {"default"}
    BY DEF Fits, Carries
<1>7. "default" \notin RuleFields
    BY DEF RuleFields
<1> QED
    BY <1>1, <1>2, <1>3, <1>4, <1>5, <1>6, <1>7 DEF After

\* The common part of the requests that change what the repository keeps.
LEMMA AfterKeepsAccept ==
    ASSUME AcceptInv, Sent, Now.at = "repo", UNCHANGED org, repo' = After(Now),
           branches' # {} => repo'.default \in branches'
    PROVE  AcceptInv'
<1>1. LiveInv /\ TodoInv /\ todo # <<>>
    BY DEF AcceptInv, Sent, Sending
<1>2. Fits(Now)
    BY <1>1, NowFacts
<1>3. /\ DOMAIN After(Now) = RepoFields /\ \A f \in RepoFields : After(Now)[f] # Unset
      /\ \A f \in Watched : After(Now)[f] = IF f \in DOMAIN Now.data THEN Expected[f] ELSE repo[f]
    BY <1>1, <1>2, AfterFacts
<1> HIDE DEF After
<1> QED
    BY <1>3, RepoStep

\* Settings of the repository, or of its code scanning, are written.
LEMMA UpdateRepoKeepsAccept ==
    ASSUME AcceptInv, UpdateRepo \/ UpdateScanning
    PROVE  AcceptInv'
<1>1. LiveInv /\ TodoInv /\ todo # <<>> /\ repo' = After(Now) /\ UNCHANGED <<org, branches>> /\ Now.op # "default" /\ Sent
    BY DEF AcceptInv, UpdateRepo, UpdateScanning, Sent, Sending
<1>2. Fits(Now)
    BY <1>1, NowFacts
<1>3. Now.at = "repo"
    BY <1>1, <1>2, ScanningIsOfRepo DEF UpdateRepo, UpdateScanning
<1>4. repo'.default = repo.default
    BY <1>1, <1>2, <1>3, AfterFacts
<1>5. branches' # {} => repo'.default \in branches'
    BY <1>1, <1>4 DEF LiveInv
<1> QED
    BY <1>1, <1>3, <1>5, AfterKeepsAccept

\* Pages are written, unless the repository is empty.
LEMMA UpdatePagesKeepsAccept == ASSUME AcceptInv, UpdatePages PROVE AcceptInv'
<1>1. /\ LiveInv /\ TodoInv /\ todo # <<>> /\ UNCHANGED <<org, branches>> /\ Sent /\ Now.op = "pages"
      /\ repo' = repo \/ repo' = After(Now)
    BY DEF AcceptInv, UpdatePages, Sent, Sending
<1>2. Fits(Now)
    BY <1>1, NowFacts
<1>3. Now.at = "repo"
  <2>1. PICK f : f \in DOMAIN Now.data /\ f \in Pages /\ f \in Included(Now.at) /\ Now.at \in {"org", "repo", "rule"}
    BY <1>1, <1>2 DEF Fits, Carries
  <2>2. f \notin OrgIncluded(config.org) \cup {"property"}
    BY <2>1 DEF OrgIncluded, OrgFields, OrgRest, OrgWeb, OrgFlow, Pages
  <2> QED
    BY <1>1, <1>2, <2>1, <2>2 DEF Fits, Included
<1>4. CASE repo' = After(Now)
  <2>1. repo'.default = repo.default
    BY <1>1, <1>2, <1>3, <1>4, AfterFacts
  <2>2. branches' # {} => repo'.default \in branches'
    BY <1>1, <2>1 DEF LiveInv
  <2> QED
    BY <1>1, <1>3, <1>4, <2>2, AfterKeepsAccept
<1>5. CASE repo' = repo
  <2>1. DOMAIN repo = RepoFields /\ \A f \in RepoFields : repo[f] # Unset
    BY <1>1 DEF LiveInv, IsSettings
  <2>2. \A f \in Watched : f \notin DOMAIN Now.data
    BY <1>1, <1>2, <1>3 DEF Fits, Carries, Pages, Watched
  <2>3. branches' # {} => repo'.default \in branches'
    BY <1>1, <1>5 DEF LiveInv
  <2> QED
    BY <1>1, <1>3, <1>5, <2>1, <2>2, <2>3, RepoStep
<1> QED
    BY <1>1, <1>4, <1>5

\* The default branch changes, or is renamed.
LEMMA UpdateDefaultKeepsAccept == ASSUME AcceptInv, UpdateDefaultBranch PROVE AcceptInv'
<1>1. /\ LiveInv /\ TodoInv /\ todo # <<>> /\ UNCHANGED org /\ Sent /\ Now.op = "default"
      /\ IF branches = {} THEN UNCHANGED <<repo, branches>>
         ELSE /\ repo' = After(Now)
              /\ Now.data.default \in branches'
    BY DEF AcceptInv, UpdateDefaultBranch, Sent, Sending
<1>2. Fits(Now)
    BY <1>1, NowFacts
<1>3. Now.at = "repo"
  <2>1. DOMAIN Now.data = {"default"}
    BY <1>1, <1>2 DEF Fits, Carries
  <2>2. "default" \notin OrgIncluded(config.org) \cup {"property"}
    BY DEF OrgIncluded, OrgFields, OrgRest, OrgWeb, OrgFlow
  <2> QED
    BY <1>1, <1>2, <2>1, <2>2 DEF Fits, Included
<1>4. CASE branches # {}
  <2>1. repo' = After(Now) /\ DOMAIN Now.data = {"default"} /\ After(Now).default = Expected.default
    BY <1>1, <1>2, <1>3, <1>4, AfterFacts
  <2>2. Now.data.default = Expected.default
    BY <1>2, <1>3, <2>1 DEF Fits, Want
  <2>3. branches' # {} => repo'.default \in branches'
    BY <1>1, <1>4, <2>1, <2>2
  <2> QED
    BY <1>1, <1>3, <2>1, <2>3, AfterKeepsAccept
<1>5. CASE branches = {}
  <2>1. DOMAIN repo = RepoFields /\ \A f \in RepoFields : repo[f] # Unset
    BY <1>1 DEF LiveInv, IsSettings
  <2>2. \A f \in Watched : f \notin DOMAIN Now.data
    BY <1>1, <1>2, <1>3 DEF Fits, Carries, Watched
  <2> QED
    BY <1>1, <1>3, <1>5, <2>1, <2>2, RepoStep
<1> QED
    BY <1>4, <1>5

\* The branch protection rule is written.
LEMMA UpdateRuleKeepsAccept == ASSUME AcceptInv, UpdateRule PROVE AcceptInv'
<1>1. LiveInv /\ TodoInv /\ todo # <<>> /\ UNCHANGED <<org, branches>> /\ Sent /\ Now.at = "rule" /\ repo' = RuleAfter(Now)
    BY DEF AcceptInv, UpdateRule, Sent, Sending
<1>2. Fits(Now)
    BY <1>1, NowFacts
<1>3. /\ DOMAIN After(Now) = RepoFields /\ \A f \in RepoFields : After(Now)[f] # Unset
      /\ \A f \in Watched \cup {"default"} : f \in RepoFields \ RuleFields /\ After(Now)[f] = repo[f]
  <2>1. \A f \in Watched \cup {"default"} : f \in RepoFields /\ f \notin RuleFields /\ f \notin DOMAIN Now.data
    BY <1>1, <1>2, AfterFacts
  <2> QED
    BY <1>1, <1>2, <2>1, AfterFacts
<1> HIDE DEF After
<1>4. "count" \in RuleFields
    BY DEF RuleFields
<1>5. /\ DOMAIN repo' = RepoFields /\ \A f \in RepoFields : repo'[f] # Unset
      /\ \A f \in Watched \cup {"default"} : repo'[f] = repo[f]
    BY <1>1, <1>3, <1>4 DEF RuleAfter, Unset
<1>6. branches' # {} => repo'.default \in branches'
    BY <1>1, <1>5 DEF LiveInv
<1> QED
    BY <1>1, <1>5, <1>6, RepoStep

\* What is refused is the request for code scanning, or push protection.
LEMMA RefuseKeepsAccept == ASSUME AcceptInv, Refuse PROVE AcceptInv'
<1>1. /\ LiveInv /\ TodoInv /\ UndisturbedInv /\ pc = "applying" /\ todo # <<>> /\ todo' = Tail(todo)
      /\ Now.at # "rule" /\ ~Accepted(Now)
      /\ UNCHANGED <<org, repo, branches, config, base, local, pc, times>>
      /\ past'.refused = past.refused \cup {Now} /\ past'.disturbed = past.disturbed
      /\ "refused" \in DOMAIN past' /\ "disturbed" \in DOMAIN past'
    BY DEF AcceptInv, LiveInv, Refuse, Sending
<1>2. /\ Expected' = Expected /\ Relevant' = Relevant /\ TakenForApplied' = TakenForApplied
      /\ Undisturbed' = Undisturbed
  <2>1. IsValid(config)' <=> IsValid(config)
    BY <1>1, SameConfiguration
  <2> QED
    BY <1>1, <2>1, SameConfiguration DEF Undisturbed
<1>3. TodoInv' /\ \A q : IsPending(q)' => IsPending(q) /\ PatchNo(Now) < PatchNo(q)
    BY <1>1, SkipFacts
<1>4. Fits(Now) /\ \A q : IsPending(q) => Fits(q)
    BY <1>1, NowFacts
<1>5. LiveInv'
    BY <1>1 DEF LiveInv
<1>6. SUFFICES ASSUME Undisturbed PROVE OrgInv' /\ RepoInv' /\ StuckInv' /\ RefusedInv'
    BY <1>2, <1>3, <1>5 DEF AcceptInv, UndisturbedInv
<1>7. OrgInv /\ RepoInv /\ StuckInv /\ RefusedInv /\ IsValid(config)
    BY <1>1, <1>6 DEF UndisturbedInv, Undisturbed
<1>8. Now.at = "repo"
    BY <1>1, <1>4, <1>7, OrgAccepted DEF Fits
<1>9. \/ /\ Now.op = "scanning" /\ repo.enabled # "on" /\ Expected.setup = "on"
         /\ repo.setup # "on" \/ repo.suite # Expected.suite
      \/ "push" \in DOMAIN Now.data /\ "scanning" \in TakenForApplied
    BY <1>1, <1>7, <1>8, RepoAccepted
<1>10. \A q : IsPending(q)' => q.at # "repo"
  <2>1. SUFFICES ASSUME NEW q, IsPending(q), PatchNo(Now) < PatchNo(q), q.at = "repo" PROVE FALSE
    BY <1>3
  <2>2. Now.op # "property" /\ q.op # "property"
    BY <2>1, <1>4, <1>8 DEF Fits
  <2> QED
    BY <2>1, <2>2, <1>8 DEF PatchNo
<1>11. OrgInv'
    BY <1>1, <1>2, <1>7, <1>8, OrgIsDone DEF OrgInv
<1>12. RepoInv'
    BY <1>10 DEF RepoInv
<1>13. StuckInv'
  <2>1. "push" \in DOMAIN Now.data => Now.op = "settings"
    BY <1>4, <1>8, FieldFacts DEF RepoPatch
  <2>2. ~Coming("repo", "enabled")'
    BY <1>10 DEF Coming, Sends, IsPending
  <2> QED
    BY <1>1, <1>2, <1>7, <1>9, <2>1, <2>2 DEF StuckInv
<1>14. RefusedInv'
    BY <1>1, <1>2, <1>7, <1>9 DEF RefusedInv
<1> QED
    BY <1>11, <1>12, <1>13, <1>14

\* A mutation is refused: not as long as nothing went wrong.
LEMMA OverlookKeepsAccept == ASSUME AcceptInv, Overlook PROVE AcceptInv'
<1>1. /\ LiveInv /\ TodoInv /\ UndisturbedInv /\ pc = "applying" /\ todo # <<>> /\ Advance
      /\ Now.at = "rule" /\ ~Accepted(Now)
      /\ UNCHANGED <<org, repo, branches, config, base, local, pc, times>>
      /\ past'.disturbed = past.disturbed /\ "refused" \in DOMAIN past' /\ "disturbed" \in DOMAIN past'
    BY DEF AcceptInv, LiveInv, Overlook, Sending
<1>2. TodoInv' /\ LiveInv'
    BY <1>1, AdvanceFacts DEF LiveInv
<1>3. Undisturbed' = Undisturbed
    BY <1>1, SameConfiguration DEF Undisturbed
<1>4. ~Undisturbed
    BY <1>1, OrgAccepted DEF UndisturbedInv, Undisturbed
<1> QED
    BY <1>2, <1>3, <1>4 DEF AcceptInv, UndisturbedInv

\* After something went wrong only the order of what is left matters.
LEMMA GoesWrongKeepsAccept == ASSUME AcceptInv, GoesWrong PROVE AcceptInv'
<1>1. /\ LiveInv /\ TodoInv /\ pc = "applying" /\ todo # <<>>
      /\ todo' = <<>> \/ todo' = Tail(todo)
      /\ UNCHANGED <<org, repo, branches, config, base, local, pc>>
      /\ past'.disturbed /\ "refused" \in DOMAIN past' /\ "disturbed" \in DOMAIN past'
    BY DEF AcceptInv, LiveInv, GoesWrong, Sending
<1>2. TodoInv'
  <2>1. CASE todo' = <<>>
    <3>1. <<>> \in Seq(Seq({}))
        OBVIOUS
    <3>2. Arranged(<<>>, 0, 4)'
        BY <3>1 DEF Arranged
    <3> QED
        BY <2>1, <3>2 DEF TodoInv, Arranged
  <2>2. CASE todo' = Tail(todo)
    BY <1>1, <2>2, SkipFacts
  <2> QED
    BY <1>1, <2>1, <2>2
<1>3. LiveInv'
    BY <1>1 DEF LiveInv
<1>4. ~Undisturbed'
    BY <1>1 DEF Undisturbed
<1> QED
    BY <1>2, <1>3, <1>4 DEF AcceptInv, UndisturbedInv

\* Between two runs nothing is left to send.
LEMMA PauseKeepsAccept == ASSUME AcceptInv, Finish \/ Again PROVE AcceptInv'
<1>1. /\ LiveInv /\ TodoInv /\ UndisturbedInv /\ todo = <<>> /\ pc' # "applying" /\ (pc' = "idle" => ~local)
      /\ UNCHANGED <<org, repo, branches, config, base, local, todo>>
      /\ past'.refused = past.refused /\ past'.disturbed = past.disturbed
      /\ "refused" \in DOMAIN past' /\ "disturbed" \in DOMAIN past'
    BY DEF AcceptInv, LiveInv, TodoInv, Finish, Again
<1>2. /\ Expected' = Expected /\ TakenForApplied' = TakenForApplied /\ Undisturbed' = Undisturbed
      /\ \A q : Fits(q)' <=> Fits(q)
  <2>1. IsValid(config)' <=> IsValid(config)
    BY <1>1, SameConfiguration
  <2> QED
    BY <1>1, <2>1, SameConfiguration DEF Undisturbed
<1>3. LiveInv'
    BY <1>1 DEF LiveInv
<1>4. TodoInv'
    BY <1>1, <1>2 DEF TodoInv, Arranged, Ordered
<1>5. \A q : ~IsPending(q)'
    BY <1>1 DEF IsPending, InPlan
<1>6. OrgInv' /\ RepoInv'
    BY <1>1, <1>5 DEF OrgInv, RepoInv
<1>7. StuckInv => StuckInv'
    BY <1>1, <1>2, <1>5 DEF StuckInv, Coming, Sends, IsPending
<1>8. RefusedInv => RefusedInv'
    BY <1>1, <1>2 DEF RefusedInv
<1> QED
    BY <1>1, <1>2, <1>3, <1>4, <1>6, <1>7, <1>8 DEF AcceptInv, UndisturbedInv

\* Before the first run nothing is sent or refused.
LEMMA InitAccepts == SetInit => AcceptInv
<1> SUFFICES ASSUME SetInit PROVE AcceptInv
    OBVIOUS
<1>1. PICK c \in Cases : /\ org = c.org /\ repo = c.repo /\ branches = c.branches
                         /\ config = c.config /\ base = c.base /\ local = c.local
    BY DEF SetInit
<1>2. /\ IsSettings(c) /\ IsConfiguration(config) /\ IsSettings(base) /\ local \in BOOLEAN
      /\ local => Behaves(c, base)
      /\ branches # {} => repo.default \in branches
    BY <1>1, CasesAssumption
<1>3. IsSettings([org |-> org, repo |-> repo]) /\ (local => Behaves([org |-> org, repo |-> repo], base))
    BY <1>1, <1>2 DEF IsSettings, Behaves
<1>4. /\ pc = "idle" /\ todo = <<>> /\ past.refused = {} /\ "refused" \in DOMAIN past /\ "disturbed" \in DOMAIN past
    BY DEF SetInit
<1>5. LiveInv
    BY <1>2, <1>3, <1>4 DEF LiveInv
<1>6. TodoInv
  <2>1. <<>> \in Seq(Seq({}))
    OBVIOUS
  <2> QED
    BY <1>4, <2>1 DEF TodoInv, Arranged
<1>7. \A q : ~IsPending(q)
    BY <1>4 DEF IsPending, InPlan
<1>8. OrgInv /\ RepoInv /\ StuckInv /\ RefusedInv
    BY <1>4, <1>7 DEF OrgInv, RepoInv, StuckInv, RefusedInv
<1> QED
    BY <1>5, <1>6, <1>8 DEF AcceptInv, UndisturbedInv

\* What the requests of a plan rely on holds when they are sent: for every setting, whatever
\* the organization, its repository and the earlier configuration were.
THEOREM AcceptInvariance == SetSpec => []AcceptInv
<1>1. ASSUME AcceptInv, [SetNext]_setVars PROVE AcceptInv'
  <2>1. CASE PlanRun
    BY <1>1, <2>1, PlanKeepsAccept
  <2>2. CASE UpdateOrg
    BY <1>1, <2>2, UpdateOrgKeepsAccept
  <2>3. CASE UpdateProperty
    BY <1>1, <2>3, UpdatePropertyKeepsAccept
  <2>4. CASE UpdateRepo \/ UpdateScanning
    BY <1>1, <2>4, UpdateRepoKeepsAccept
  <2>5. CASE UpdatePages
    BY <1>1, <2>5, UpdatePagesKeepsAccept
  <2>6. CASE UpdateDefaultBranch
    BY <1>1, <2>6, UpdateDefaultKeepsAccept
  <2>7. CASE UpdateRule
    BY <1>1, <2>7, UpdateRuleKeepsAccept
  <2>8. CASE Refuse
    BY <1>1, <2>8, RefuseKeepsAccept
  <2>9. CASE Overlook
    BY <1>1, <2>9, OverlookKeepsAccept
  <2>10. CASE GoesWrong
    BY <1>1, <2>10, GoesWrongKeepsAccept
  <2>11. CASE Finish \/ Again
    BY <1>1, <2>11, PauseKeepsAccept
  <2>12. CASE UNCHANGED setVars
    <3>1. UNCHANGED <<org, repo, branches, config, base, local, pc, todo, times, past>>
        BY <2>12 DEF setVars
    <3> QED
        BY <1>1, <3>1 DEF AcceptInv, LiveInv, TodoInv, UndisturbedInv, Undisturbed, OrgInv, RepoInv, StuckInv, RefusedInv,
           InStep, Coming, Sends, IsPending, InPlan, Arranged, Ordered, Fits, Want, Included, Relevant,
           Expected, TakenForApplied
  <2> QED
    BY <1>1, <2>1, <2>2, <2>3, <2>4, <2>5, <2>6, <2>7, <2>8, <2>9, <2>10, <2>11, <2>12 DEF SetNext
<1> QED
    BY InitAccepts, <1>1, PTL DEF SetSpec

\* What the organization does not let the repository do is off.
LEMMA StuckIsOff == ASSUME NEW o, repo.enabled # "on" PROVE FlowEffective(o, repo, "enabled") = "off"
BY DEF FlowEffective

\* ValidIsAccepted, for every setting and any number of runs: the two exceptions are the only ones.
THEOREM ValidIsNeverRefused == SetSpec => []ValidIsAccepted
<1>1. AcceptInv => ValidIsAccepted
    BY StuckIsOff DEF AcceptInv, UndisturbedInv, Undisturbed, StuckInv, RefusedInv, ValidIsAccepted
<1> QED
    BY AcceptInvariance, <1>1, PTL

\* The number of runs and of failures.
TimesInv == /\ times = [runs |-> times.runs, failures |-> times.failures]
            /\ times.runs \in 0 .. MaxRuns /\ times.failures \in 0 .. MaxFailures

\* The type invariant of Settings.
THEOREM SettingsTypeCorrect == SetSpec => []SetTypeOK
<1>1. SetInit => TimesInv
    BY BoundsAssumption DEF SetInit, TimesInv
<1>2. ASSUME TimesInv, [SetNext]_setVars PROVE TimesInv'
  <2>1. \/ UNCHANGED times
        \/ times.runs < MaxRuns /\ times' = [times EXCEPT !.runs = @ + 1]
        \/ times.failures < MaxFailures /\ times' = [times EXCEPT !.failures = @ + 1]
    BY <1>2 DEF SetNext, PlanRun, UpdateOrg, UpdateProperty, UpdateRepo, UpdateScanning, UpdatePages,
       UpdateDefaultBranch, UpdateRule, Refuse, Overlook, GoesWrong, Finish, Again, Sent, setVars
  <2> QED
    BY <1>2, <2>1, BoundsAssumption DEF TimesInv
<1>3. SetSpec => []TimesInv
    BY <1>1, <1>2, PTL DEF SetSpec
<1>4. ASSUME AcceptInv, TimesInv PROVE SetTypeOK
  <2>1. PICK S : todo \in Seq(Seq(S))
    BY <1>4 DEF AcceptInv, TodoInv, Arranged
  <2>2. ASSUME NEW i \in DOMAIN todo
        PROVE  todo[i] # <<>> /\ \A j \in DOMAIN todo[i] : DOMAIN todo[i][j].data # {}
    <3>1. i \in 1 .. Len(todo) /\ todo[i] \in Seq(S)
        BY <2>1
    <3>2. DOMAIN todo[i] = 1 .. Len(todo[i])
        BY <3>1
    <3>3. todo[i] # <<>> /\ \A j \in 1 .. Len(todo[i]) : Fits(todo[i][j])
        BY <3>1, <1>4 DEF AcceptInv, TodoInv, Arranged, Ordered
    <3> QED
        BY <3>2, <3>3 DEF Fits
  <2> QED
    BY <2>2, <1>4, BoundsAssumption DEF AcceptInv, LiveInv, IsSettings, TimesInv, SetTypeOK
<1> QED
    BY AcceptInvariance, <1>3, <1>4, PTL

-----------------------------------------------------------------------------
(* Settings: what a run settles.                                           *)

\* A setting of the repository is as expected, or as good as that.
Agrees(f) ==
    \/ repo[f] = Expected[f]
    \/ f = "enabled" /\ repo[f] # "on" /\ Expected[f] # "on"
    \/ f = "properties" /\ config.org.property = "required" /\ repo[f] = "none" /\ Expected[f] = "usual"

\* An empty repository is skipped.
Skipped(f) == branches = {} /\ f \in Pages \cup {"default"}

\* It is, or it will be.
Has(f) == Agrees(f) \/ Coming("repo", f) \/ Coming("rule", f) \/ Skipped(f)
OrgHas(f) == org[f] = config.org[f] \/ Coming("org", f) \/ (f = "configs" /\ config.org.configs = "off")

\* What the setting is makes no difference under the configuration.
Moot(f) ==
    \/ f = "projects" /\ config.org.projects = "off"
    \/ f = "signoff" /\ config.org.signoff = "on"
    \/ f = "discussions" /\ config.org.discussions = "on"
    \/ f = "forking" /\ (Expected.private = "off" \/ config.org.fork = "off")
    \/ f \in {"scanning", "push", "reporting"} /\ Expected.private = "on"
    \/ f = "properties" /\ config.org.property = "undefined"
    \/ f = "visibility" /\ (config.org.plan # "enterprise" \/ org.plan # config.org.plan \/ Expected.build = "disabled")
    \/ f \in {"branch", "path"} /\ Expected.build # "legacy"
    \/ f = "suite" /\ Expected.setup = "off"
    \/ f \in Ignored(config.repo)
    \/ f \in RepoFlow /\ ~Admits(config.org)
    \/ f \in RepoFlow \ {"enabled"} /\ config.repo.enabled # "on"
    \/ f \in {"allowed", "patterns"} /\ Restricts(config.org, config.repo.allowed)
    \/ f = "patterns" /\ config.repo.allowed # "selected"
    \/ f = "permissions" /\ config.org.permissions = "read"
    \/ f = "approve" /\ config.org.approve = "off"
    \/ f = "policy" /\ Expected.private # "off"

\* Settings that make others matter or not: they are always read as they are.
Masks == {"private", "build", "setup", "reviews", "force", "status", "deploy", "restricted", "lock"}

\* What an organization o lets be seen of a workflow setting that is to be as configured.
Unhidden(o, f) ==
    /\ Admits(o)
    /\ f \in {"allowed", "patterns"} => Level(config.repo.allowed) > Level(o.allowed)
    /\ f = "permissions" => o.permissions # "read"
    /\ f = "approve" => o.approve # "off"
    /\ f = "policy" => "policy" \notin past.unseen \cup TakenForApplied
Shown(f) == IF f \in RepoFlow THEN Unhidden(past.before, f) ELSE f \in Masks \/ f \notin Excepted

\* The fields fall into groups.
LEMMA Fields ==
    /\ RepoFields = {"private", "signoff", "projects", "discussions", "forking", "description", "title", "message",
              "scanning", "push", "reporting", "topics", "properties", "default", "build", "branch", "path",
              "visibility", "setup", "suite"} \cup RepoFlow \cup RuleFields
    /\ RepoFlow = {"enabled", "allowed", "patterns", "permissions", "approve", "policy"}
    /\ RepoFlow \cap RuleFields = {}
    /\ {"private", "signoff", "projects", "discussions", "forking", "description", "title", "message",
              "scanning", "push", "reporting", "topics", "properties", "default", "build", "branch", "path",
              "visibility", "setup", "suite"} \cap (RepoFlow \cup RuleFields) = {}
    /\ \A r : Ignored(r) \subseteq RuleFields
    /\ Pages = {"build", "branch", "path", "visibility"} /\ Scan = {"setup", "suite"}
    /\ {"enabled", "allowed", "patterns", "permissions", "approve", "policy"} \cup RuleFields \subseteq RepoFields
BY DEF RepoFields, RepoPatch, RepoOwn, RepoFlow, RuleFields, Pages, Scan, Ignored

\* What holds of a setting of the repository when both levels have a say.
LEMMA EffectiveFacts ==
    ASSUME NEW o, NEW r, DOMAIN r = RepoFields
    PROVE  LET E == RepoEffective(o, r) IN
           /\ \A f \in {"private", "build", "setup", "description", "title", "message", "topics", "default"} : E[f] = r[f]
           /\ E.signoff = (IF o.signoff = "on" THEN "on" ELSE r.signoff)
           /\ E.projects = (IF o.projects = "off" THEN "off" ELSE r.projects)
           /\ E.discussions = (IF o.discussions = "on" THEN "on" ELSE r.discussions)
           /\ E.forking = (IF r.private = "off" THEN "on" ELSE IF o.fork = "off" THEN "off" ELSE r.forking)
           /\ \A f \in {"scanning", "push", "reporting"} : E[f] = IF r.private = "on" THEN Unset ELSE r[f]
           /\ E.properties = (CASE o.property = "undefined" -> "none"
                                [] o.property = "required" /\ r.properties = "none" -> "usual"
                                [] OTHER -> r.properties)
           /\ E.visibility = (IF o.plan # "enterprise" \/ r.build = "disabled" THEN Unset ELSE r.visibility)
           /\ \A f \in {"branch", "path"} : E[f] = IF r.build # "legacy" THEN Unset ELSE r[f]
           /\ E.suite = (IF r.setup = "off" THEN Unset ELSE r.suite)
           /\ \A f \in RepoFlow : E[f] = FlowEffective(o, r, f)
           /\ \A f \in RuleFields : E[f] = IF f \in Ignored(r) THEN Unset ELSE r[f]
<1>1. /\ DOMAIN RepoEffective(o, r) = RepoFields
      /\ \A f \in RepoFields : RepoEffective(o, r)[f] =
            CASE f = "signoff" -> IF o.signoff = "on" THEN "on" ELSE r.signoff
              [] f = "projects" -> IF o.projects = "off" THEN "off" ELSE r.projects
              [] f = "discussions" -> IF o.discussions = "on" THEN "on" ELSE r.discussions
              [] f = "forking" -> IF r.private = "off" THEN "on" ELSE IF o.fork = "off" THEN "off" ELSE r.forking
              [] f \in {"scanning", "push", "reporting"} /\ r.private = "on" -> Unset
              [] f = "properties" -> CASE o.property = "undefined" -> "none"
                                       [] o.property = "required" /\ r.properties = "none" -> "usual"
                                       [] OTHER -> r.properties
              [] f = "visibility" /\ (o.plan # "enterprise" \/ r.build = "disabled") -> Unset
              [] f \in {"branch", "path"} /\ r.build # "legacy" -> Unset
              [] f = "suite" /\ r.setup = "off" -> Unset
              [] f \in RepoFlow -> FlowEffective(o, r, f)
              [] f \in Ignored(r) -> Unset
              [] OTHER -> r[f]
    BY DEF RepoEffective
<1> DEFINE E == RepoEffective(o, r)
<1> HIDE DEF E
<1>2. \A f \in {"private", "build", "setup", "description", "title", "message", "topics", "default"} : E[f] = r[f]
    BY <1>1, Fields DEF E
<1>3. /\ E.signoff = (IF o.signoff = "on" THEN "on" ELSE r.signoff)
      /\ E.projects = (IF o.projects = "off" THEN "off" ELSE r.projects)
      /\ E.discussions = (IF o.discussions = "on" THEN "on" ELSE r.discussions)
      /\ E.forking = (IF r.private = "off" THEN "on" ELSE IF o.fork = "off" THEN "off" ELSE r.forking)
    BY <1>1, Fields DEF E
<1>4. /\ \A f \in {"scanning", "push", "reporting"} : E[f] = IF r.private = "on" THEN Unset ELSE r[f]
      /\ E.properties = (CASE o.property = "undefined" -> "none"
                           [] o.property = "required" /\ r.properties = "none" -> "usual"
                           [] OTHER -> r.properties)
    BY <1>1, Fields DEF E
<1>5. /\ E.visibility = (IF o.plan # "enterprise" \/ r.build = "disabled" THEN Unset ELSE r.visibility)
      /\ \A f \in {"branch", "path"} : E[f] = IF r.build # "legacy" THEN Unset ELSE r[f]
      /\ E.suite = (IF r.setup = "off" THEN Unset ELSE r.suite)
    BY <1>1, Fields DEF E
<1>6. \A f \in RepoFlow : E[f] = FlowEffective(o, r, f)
    BY <1>1, Fields DEF E
<1>7. \A f \in RuleFields : E[f] = IF f \in Ignored(r) THEN Unset ELSE r[f]
  <2>1. \A f \in RuleFields : f \in RepoFields /\ f \notin RepoFlow
          /\ f \notin {"private", "signoff", "projects", "discussions", "forking", "description", "title", "message",
              "scanning", "push", "reporting", "topics", "properties", "default", "build", "branch", "path",
              "visibility", "setup", "suite"}
    BY Fields
  <2> QED
    BY <1>1, <2>1 DEF E
<1> QED
    BY <1>2, <1>3, <1>4, <1>5, <1>6, <1>7 DEF E

\* What is expected of the settings, one by one.
LEMMA ExpectedValues ==
    ASSUME IsConfiguration(config)
    PROVE  /\ \A f \in {"private", "forking", "description", "title", "message", "scanning", "push", "reporting", "topics",
                        "default", "build", "branch", "path", "setup", "suite", "policy"} \cup RuleFields :
                  Expected[f] = config.repo[f]
           /\ config.org.projects # "off" => Expected.projects = config.repo.projects
           /\ config.org.signoff # "on" => Expected.signoff = config.repo.signoff
           /\ config.org.plan = "enterprise" => Expected.visibility = config.repo.visibility
           /\ config.org.discussions # "on" => Expected.discussions = config.repo.discussions
           /\ Expected.properties = IF config.org.property = "required" /\ config.repo.properties = "none"
                                    THEN "usual" ELSE config.repo.properties
           /\ Admits(config.org) => Expected.enabled = config.repo.enabled
           /\ ~Restricts(config.org, config.repo.allowed) =>
                  Expected.allowed = config.repo.allowed /\ Expected.patterns = config.repo.patterns
           /\ config.org.permissions # "read" => Expected.permissions = config.repo.permissions
           /\ config.org.approve # "off" => Expected.approve = config.repo.approve
<1> DEFINE c == CoercedRepo(config.org, config.repo)
           o == config.org
           r == config.repo
<1>1. DOMAIN r = RepoFields
    BY DEF IsConfiguration, IsSettings
<1>2. /\ DOMAIN c = RepoFields
      /\ \A f \in RepoFields : c[f] =
            CASE f = "projects"   /\ o.projects = "off"       -> Unset
              [] f = "signoff"    /\ o.signoff = "on"         -> Unset
              [] f = "visibility" /\ o.plan # "enterprise"    -> Unset
              [] f = "properties" /\ o.property = "required" /\ r[f] = "none" -> "usual"
              [] f = "discussions" /\ o.discussions = "on"    -> "on"
              [] OTHER -> r[f]
    BY <1>1 DEF CoercedRepo
<1> HIDE DEF c
<1>3. /\ \A f \in RepoFields \ {"projects", "signoff", "visibility", "properties", "discussions"} : c[f] = r[f]
      /\ o.projects # "off" => c.projects = r.projects
      /\ o.signoff # "on" => c.signoff = r.signoff
      /\ o.plan = "enterprise" => c.visibility = r.visibility
      /\ o.discussions # "on" => c.discussions = r.discussions
      /\ c.properties = IF o.property = "required" /\ r.properties = "none" THEN "usual" ELSE r.properties
    BY <1>2, Fields
<1>4. c.allowed = r.allowed
    BY <1>3, Fields
<1>5. \A f \in RepoFields : Expected[f] =
            CASE f = "enabled" /\ ~Admits(o) -> Unset
              [] f \in {"allowed", "patterns"} /\ Restricts(o, r.allowed) -> Unset
              [] f = "permissions" /\ o.permissions = "read" -> Unset
              [] f = "approve" /\ o.approve = "off" -> Unset
              [] OTHER -> c[f]
    BY <1>2, <1>4 DEF Expected, CoercedFlow, c
<1>6. \A f \in RepoFields \ {"enabled", "allowed", "patterns", "permissions", "approve"} : Expected[f] = c[f]
    BY <1>5
<1>7. /\ Admits(o) => Expected.enabled = c.enabled
      /\ ~Restricts(o, r.allowed) => Expected.allowed = c.allowed /\ Expected.patterns = c.patterns
      /\ o.permissions # "read" => Expected.permissions = c.permissions
      /\ o.approve # "off" => Expected.approve = c.approve
    BY <1>5, Fields
<1>8. \A f \in {"private", "forking", "description", "title", "message", "scanning", "push", "reporting", "topics",
               "default", "build", "branch", "path", "setup", "suite", "policy"} \cup RuleFields :
            Expected[f] = config.repo[f]
  <2>1. {"private", "forking", "description", "title", "message", "scanning", "push", "reporting", "topics",
               "default", "build", "branch", "path", "setup", "suite", "policy"} \cup RuleFields
          \subseteq RepoFields \ {"projects", "signoff", "visibility", "properties", "discussions",
                                  "enabled", "allowed", "patterns", "permissions", "approve"}
    <3>1. RuleFields \cap {"projects", "signoff", "visibility", "properties", "discussions",
                                  "enabled", "allowed", "patterns", "permissions", "approve"} = {}
        BY DEF RuleFields
    <3> QED
        BY <3>1, Fields
  <2> QED
    BY <2>1, <1>3, <1>6
<1>9. /\ \A f \in {"projects", "signoff", "visibility", "discussions", "properties"} : Expected[f] = c[f]
      /\ \A f \in {"enabled", "allowed", "patterns", "permissions", "approve"} : c[f] = r[f]
    BY <1>3, <1>6, Fields
<1> QED
    BY <1>3, <1>7, <1>8, <1>9

\* What makes a difference is compared, with the value that is configured.
LEMMA NotMootFacts ==
    ASSUME IsConfiguration(config), NEW f \in RepoFields, ~Moot(f)
    PROVE  /\ f \in RepoIncluded(Expected) /\ Expected[f] # Unset
           /\ f # "properties" => Expected[f] = config.repo[f]
           /\ f = "patterns" => Expected.allowed = "selected"
           /\ f = "policy" => Expected.private = "off"
<1>1. \A g \in RepoFields : config.repo[g] # Unset
    BY DEF IsConfiguration, IsSettings
<1>2. Ignored(Expected) = Ignored(config.repo)
  <2>1. \A g \in RuleFields : Expected[g] = config.repo[g]
    BY ExpectedValues
  <2>2. {"reviews", "dismissal", "force", "status", "deploy", "restricted", "lock"} \subseteq RuleFields
    BY DEF RuleFields
  <2>3. \A g \in {"reviews", "dismissal", "force", "status", "deploy", "restricted", "lock"} : Expected[g] = config.repo[g]
    BY <2>1, <2>2
  <2> HIDE DEF Expected
  <2> QED
    BY <2>3 DEF Ignored
<1>3. CASE f \in RuleFields
  <2>1. f \notin Ignored(Expected) /\ Expected[f] = config.repo[f] /\ f \notin RepoFlow
        /\ f \notin {"scanning", "push", "reporting", "suite", "patterns", "policy"} \cup Pages
    BY <1>2, <1>3, ExpectedValues, Fields DEF Moot
  <2>2. f \in RepoIncluded(Expected)
    BY <2>1, Fields DEF RepoIncluded, RuleIncluded
  <2> QED
    BY <2>1, <2>2, <1>1
<1>4. CASE f \in RepoFlow
  <2>1. Admits(config.org) /\ Expected.enabled = config.repo.enabled /\ config.repo.enabled \in {"on", "off"}
    BY <1>4, ExpectedValues DEF Moot, IsConfiguration, Switches
  <2>2. Expected[f] = config.repo[f] /\ (f = "patterns" => Expected.allowed = "selected") /\ (f = "policy" => Expected.private = "off")
    BY <1>4, <2>1, ExpectedValues, Fields DEF Moot
  <2>3. f = "enabled" \/ Expected.enabled = "on"
    BY <1>4, <2>1 DEF Moot
  <2>4. RepoFlowIncluded(Expected, f)
    BY <2>1, <2>2, <2>3 DEF RepoFlowIncluded, FlowIncluded
  <2>5. f \in RepoIncluded(Expected)
    BY <2>4, <1>4, Fields DEF RepoIncluded
  <2> QED
    BY <2>2, <2>5, <1>1, Fields
<1>5. CASE f \notin RuleFields \cup RepoFlow
  <2>1. f \in {"private", "signoff", "projects", "discussions", "forking", "description", "title", "message",
              "scanning", "push", "reporting", "topics", "properties", "default", "build", "branch", "path",
              "visibility", "setup", "suite"}
    BY <1>5, Fields
  <2>2. Expected[f] # Unset /\ (f # "properties" => Expected[f] = config.repo[f])
    BY <2>1, <1>1, ExpectedValues, Fields DEF Moot, Unset
  <2>3. /\ f \in {"scanning", "push", "reporting"} => Expected.private # "on"
        /\ f \in {"branch", "path"} => Expected.build = "legacy"
        /\ f = "visibility" => Expected.build # "disabled"
        /\ f = "suite" => Expected.setup # "off"
    BY DEF Moot
  <2>4. f \in RepoIncluded(Expected)
    BY <2>3, <1>5, Fields DEF RepoIncluded
  <2> QED
    BY <2>1, <2>2, <2>4
<1> QED
    BY <1>3, <1>4, <1>5

\* The organization behaves as configured, once its settings are.
LEMMA OrgIsSettled ==
    ASSUME IsSettings([org |-> org, repo |-> repo]), IsConfiguration(config), IsValid(config),
           \A f \in OrgIncluded(config.org) \cup {"property"} :
               org[f] = config.org[f] \/ (f = "configs" /\ config.org.configs = "off")
    PROVE  /\ OrgSettled
           /\ \A f \in {"signoff", "projects", "fork", "discussions", "repositories", "property", "private_pages"} : org[f] = config.org[f]
           /\ Admits(org) <=> Admits(config.org)
           /\ Admits(config.org) =>
                  /\ org.repositories # "none"
                  /\ \A f \in {"allowed", "permissions", "approve", "policy"} : org[f] = config.org[f]
                  /\ config.org.allowed = "selected" => org.patterns = config.org.patterns
<1>1. /\ DOMAIN org = OrgFields \cup {"plan", "property"} /\ DOMAIN config.org = OrgFields \cup {"plan", "property"}
      /\ config.org.allowed \in Levels
  <2>1. DOMAIN org = OrgFields \cup {"plan", "property"} /\ DOMAIN config.org = OrgFields \cup {"plan", "property"}
        /\ config.org.allowed \in Levels \cup {"malformed"}
    BY DEF IsConfiguration, IsSettings
  <2>2. config.org.allowed # "malformed"
    BY <2>1, ValidFacts DEF OrgFields, OrgFlow
  <2> QED
    BY <2>1, <2>2
<1>2. /\ OrgRest \cup OrgWeb \cup {"repositories"} \subseteq OrgIncluded(config.org)
      /\ \A f \in OrgFlow : config.org.repositories # "none" /\ (f = "picked" => config.org.repositories = "selected")
                             /\ (f = "patterns" => config.org.allowed \notin {"all", "local_only"})
                             => f \in OrgIncluded(config.org)
    BY DEF OrgIncluded, FlowIncluded, OrgFields, OrgRest, OrgWeb, OrgFlow
<1>3. \A f \in (OrgRest \ {"configs"}) \cup OrgWeb \cup {"repositories", "property"} : org[f] = config.org[f]
    BY <1>2 DEF OrgWeb
<1>4. /\ org.repositories = config.org.repositories
      /\ config.org.repositories = "selected" => org.picked = config.org.picked
      /\ config.org.repositories # "none" =>
             /\ \A f \in {"allowed", "permissions", "approve", "policy"} : org[f] = config.org[f]
             /\ config.org.allowed = "selected" => org.patterns = config.org.patterns
    BY <1>2, <1>3 DEF OrgFlow
<1>5. ASSUME NEW f \in DOMAIN org \ {"plan"}
      PROVE  OrgEffective(org)[f] = OrgEffective(config.org)[f] \/ (f = "configs" /\ config.org.configs = "off")
  <2>1. \A o : DOMAIN o = DOMAIN org =>
            OrgEffective(o)[f] = IF \/ f \in OrgFlow \ {"repositories"} /\ o.repositories = "none"
                                    \/ f = "picked" /\ o.repositories # "selected"
                                    \/ f = "patterns" /\ o.allowed # "selected"
                                 THEN Unset ELSE o[f]
    BY <1>5 DEF OrgEffective
  <2>2. CASE f \notin OrgFlow
    <3>1. f \in OrgRest \cup OrgWeb \cup {"property"} /\ f \notin {"picked", "patterns"}
        BY <2>2, <1>1, <1>5 DEF OrgFields, OrgFlow
    <3>2. org[f] = config.org[f] \/ (f = "configs" /\ config.org.configs = "off")
        BY <3>1, <1>2
    <3> QED
        BY <3>1, <3>2, <2>1, <2>2, <1>1
  <2>3. CASE f \in OrgFlow
    BY <2>1, <2>3, <1>1, <1>4 DEF OrgFlow, Levels
  <2> QED
    BY <2>2, <2>3
<1>6. OrgSettled
    BY <1>5 DEF OrgSettled
<1>7. \A f \in {"signoff", "projects", "fork", "discussions", "repositories", "property", "private_pages"} : org[f] = config.org[f]
    BY <1>3 DEF OrgRest, OrgWeb
<1> QED
    BY <1>4, <1>6, <1>7 DEF Admits

\* So does the repository, in a setting that is as expected or makes no difference.
LEMMA RepoIsSettled ==
    ASSUME IsSettings([org |-> org, repo |-> repo]), IsConfiguration(config), IsValid(config),
           \A g \in OrgIncluded(config.org) \cup {"property"} :
               org[g] = config.org[g] \/ (g = "configs" /\ config.org.configs = "off"),
           \A g \in {"private", "build", "setup"} : Agrees(g) \/ Skipped(g),
           NEW f \in RepoFields, Moot(f) \/ Agrees(f) \/ Skipped(f),
           f \in RepoFlow => Moot("enabled") \/ Agrees("enabled"),
           f = "patterns" => Moot("allowed") \/ Agrees("allowed")
    PROVE  RepoSettled(f)
<1> DEFINE r == config.repo
           o == config.org
<1>1. DOMAIN repo = RepoFields /\ DOMAIN r = RepoFields
    BY DEF IsConfiguration, IsSettings
<1>2. /\ \A g \in {"signoff", "projects", "fork", "discussions", "repositories", "property", "private_pages"} : org[g] = o[g]
      /\ Admits(org) <=> Admits(o)
      /\ Admits(o) => /\ \A g \in {"allowed", "permissions", "approve", "policy"} : org[g] = o[g]
                      /\ o.allowed = "selected" => org.patterns = o.patterns
    BY OrgIsSettled
<1>3. /\ Expected.private = r.private /\ Expected.build = r.build /\ Expected.setup = r.setup
      /\ repo.private = r.private /\ repo.setup = r.setup
      /\ repo.build = r.build \/ (branches = {} /\ "build" \in Pages)
    BY ExpectedValues, Fields DEF Agrees, Skipped
<1>4. SUFFICES ASSUME ~(branches = {} /\ f \in Pages \cup {"default"}), f \notin Ignored(repo) \cup Ignored(r),
                      ~(f = "visibility" /\ org.plan # o.plan), ~(f \in {"allowed", "patterns"} /\ Restricts(o, r.allowed))
               PROVE  RepoEffective(org, repo)[f] = RepoEffective(o, r)[f]
    BY DEF RepoSettled
<1>5. Moot(f) \/ Agrees(f)
    BY <1>4 DEF Skipped
<1>6. CASE f \in RuleFields
  <2>1. Agrees(f)
    BY <1>4, <1>5, <1>6, Fields DEF Moot
  <2>2. repo[f] = r[f]
    BY <2>1, <1>6, ExpectedValues, Fields DEF Agrees
  <2> QED
    BY <2>2, <1>1, <1>4, <1>6, EffectiveFacts
<1>7. CASE f \in RepoFlow
  <2>1. RepoEffective(org, repo)[f] = FlowEffective(org, repo, f) /\ RepoEffective(o, r)[f] = FlowEffective(o, r, f)
    BY <1>1, <1>7, EffectiveFacts
  <2>2. CASE ~Admits(o)
    BY <2>1, <2>2, <1>2, <1>7, Fields DEF FlowEffective
  <2>3. CASE Admits(o)
    <3>1. Expected.enabled = r.enabled /\ r.enabled \in {"on", "off"}
        BY <2>3, ExpectedValues DEF IsConfiguration, Switches
    <3>2. repo.enabled = "on" <=> r.enabled = "on"
      <4>1. ~Moot("enabled")
        BY <2>3, Fields DEF Moot
      <4> QED
        BY <4>1, <3>1, <1>7 DEF Agrees
    <3>3. CASE f = "enabled" \/ r.enabled # "on"
        BY <3>2, <3>3, <2>1, <1>2, <1>7, Fields DEF FlowEffective
    <3>4. CASE f # "enabled" /\ r.enabled = "on"
      <4>1. repo.enabled = "on" /\ Admits(org)
        BY <3>2, <3>4, <2>3, <1>2
      <4>2. CASE f = "policy"
        <5>1. r.private = "off" => repo.policy = r.policy
            BY <4>2, <3>4, <2>3, <1>3, <1>5, ExpectedValues, Fields DEF Agrees, Moot
        <5> QED
            BY <5>1, <4>1, <4>2, <3>4, <2>1, <2>3, <1>3 DEF FlowEffective
      <4>3. CASE f = "permissions"
        <5>1. o.permissions = "read" \/ repo.permissions = r.permissions
            BY <4>3, <3>4, <2>3, <1>5, ExpectedValues, Fields DEF Agrees, Moot
        <5> QED
            BY <5>1, <4>1, <4>3, <3>4, <2>1, <2>3, <1>2 DEF FlowEffective
      <4>4. CASE f = "approve"
        <5>1. o.approve = "off" \/ repo.approve = r.approve
            BY <4>4, <3>4, <2>3, <1>5, ExpectedValues, Fields DEF Agrees, Moot
        <5> QED
            BY <5>1, <4>1, <4>4, <3>4, <2>1, <2>3, <1>2 DEF FlowEffective
      <4>5. CASE f \in {"allowed", "patterns"}
        <5>1. ~Moot("allowed") /\ Expected.allowed = r.allowed /\ Expected.patterns = r.patterns
            BY <4>5, <3>4, <2>3, <1>4, ExpectedValues, Fields DEF Moot
        <5>2. repo.allowed = r.allowed
            BY <5>1, <4>5, <1>5 DEF Agrees
        <5>3. f = "patterns" => r.allowed # "selected" \/ repo.patterns = r.patterns
            BY <5>1, <4>5, <3>4, <2>3, <1>4, <1>5, Fields DEF Agrees, Moot
        <5>4. Strictest(org, repo) = repo /\ Strictest(o, r) = r
            BY <5>2, <4>5, <2>3, <1>2, <1>4 DEF Strictest, Restricts
        <5> QED
            BY <5>2, <5>3, <5>4, <4>1, <4>5, <3>4, <2>1, <2>3 DEF FlowEffective
      <4> QED
        BY <4>2, <4>3, <4>4, <4>5, <3>4, <1>7, Fields
    <3> QED
        BY <3>3, <3>4
  <2> QED
    BY <2>2, <2>3
<1>8. CASE f \notin RuleFields \cup RepoFlow
  <2>1. f \in {"private", "signoff", "projects", "discussions", "forking", "description", "title", "message",
              "scanning", "push", "reporting", "topics", "properties", "default", "build", "branch", "path",
              "visibility", "setup", "suite"}
    BY <1>8, Fields
  <2>2. CASE f \in {"private", "description", "title", "message", "topics", "default", "build", "setup"}
    <3>1. repo[f] = r[f]
        BY <2>2, <1>3, <1>5, <1>8, ExpectedValues, Fields DEF Agrees, Moot
    <3> QED
        BY <3>1, <2>2, <1>1, EffectiveFacts
  <2>3. CASE f \in {"signoff", "projects", "discussions"}
    <3>1. \/ repo[f] = r[f]
          \/ f = "signoff" /\ o.signoff = "on"
          \/ f = "projects" /\ o.projects = "off"
          \/ f = "discussions" /\ o.discussions = "on"
        BY <2>3, <1>5, <1>8, ExpectedValues, Fields DEF Agrees, Moot
    <3> QED
        BY <3>1, <2>3, <1>1, <1>2, EffectiveFacts
  <2>4. CASE f \in {"forking", "scanning", "push", "reporting"}
    <3>1. \/ repo[f] = r[f]
          \/ f = "forking" /\ (r.private = "off" \/ o.fork = "off")
          \/ f # "forking" /\ r.private = "on"
        BY <2>4, <1>3, <1>5, <1>8, ExpectedValues, Fields DEF Agrees, Moot
    <3> QED
        BY <3>1, <2>4, <1>1, <1>2, <1>3, EffectiveFacts
  <2>5. CASE f = "properties"
    <3>1. \/ o.property = "undefined" \/ repo.properties = Expected.properties
          \/ o.property = "required" /\ repo.properties = "none" /\ Expected.properties = "usual"
        BY <2>5, <1>5, <1>8, Fields DEF Agrees, Moot
    <3>2. /\ Expected.properties = (IF o.property = "required" /\ r.properties = "none" THEN "usual" ELSE r.properties)
          /\ org.property = o.property
        BY ExpectedValues, <1>2
    <3> QED
        BY <3>1, <3>2, <2>5, <1>1, EffectiveFacts
  <2>6. CASE f \in {"branch", "path", "visibility"}
    <3>1. \/ repo[f] = r[f]
          \/ f = "visibility" /\ (o.plan # "enterprise" \/ r.build = "disabled")
          \/ f # "visibility" /\ r.build # "legacy"
        BY <2>6, <1>3, <1>4, <1>5, <1>8, ExpectedValues, Fields DEF Agrees, Moot
    <3>2. repo.build = r.build /\ (f = "visibility" => org.plan = o.plan)
        BY <2>6, <1>3, <1>4, Fields
    <3> QED
        BY <3>1, <3>2, <2>6, <1>1, EffectiveFacts
  <2>7. CASE f = "suite"
    <3>1. repo.suite = r.suite \/ r.setup = "off"
        BY <2>7, <1>3, <1>5, <1>8, ExpectedValues, Fields DEF Agrees, Moot
    <3> QED
        BY <3>1, <2>7, <1>1, <1>3, EffectiveFacts
  <2> QED
    BY <2>1, <2>2, <2>3, <2>4, <2>5, <2>6, <2>7
<1> QED
    BY <1>6, <1>7, <1>8

\* What a run compares the organization with agrees with what there is.
LEMMA OrgCurrent ==
    ASSUME LiveInv, pc = "idle", NEW co, co = IF local THEN base.org ELSE OrgRead
    PROVE  /\ \A f \in OrgRest \cup OrgWeb \cup {"repositories", "property"} : co[f] = org[f]
           /\ org.repositories = "selected" => co.picked = org.picked
           /\ org.repositories # "none" =>
                  /\ \A f \in {"allowed", "permissions", "approve", "policy"} : co[f] = org[f]
                  /\ org.allowed = "selected" => co.patterns = org.patterns
           /\ \A f \in OrgFields : org[f] # Unset
<1>1. /\ DOMAIN org = OrgFields \cup {"plan", "property"} /\ DOMAIN base.org = OrgFields \cup {"plan", "property"}
      /\ \A f \in DOMAIN org : org[f] # Unset
    BY DEF LiveInv, IsSettings
<1>2. ASSUME NEW o, DOMAIN o = OrgFields \cup {"plan", "property"}
      PROVE  /\ DOMAIN OrgEffective(o) = OrgFields \cup {"plan", "property"}
             /\ \A f \in OrgRest \cup OrgWeb \cup {"repositories", "property"} : OrgEffective(o)[f] = o[f]
             /\ o.repositories = "selected" => OrgEffective(o).picked = o.picked
             /\ o.repositories # "none" =>
                    /\ \A f \in {"allowed", "permissions", "approve", "policy"} : OrgEffective(o)[f] = o[f]
                    /\ o.allowed = "selected" => OrgEffective(o).patterns = o.patterns
    BY <1>2 DEF OrgEffective, OrgFields, OrgRest, OrgWeb, OrgFlow
<1>3. CASE local
  <2>1. OrgEffective(org) = OrgEffective(base.org) /\ co = base.org
    BY <1>3 DEF LiveInv, Behaves
  <2>2. \A f \in OrgRest \cup OrgWeb \cup {"repositories", "property"} : base.org[f] = org[f]
    BY <2>1, <1>1, <1>2
  <2>3. base.org.repositories = org.repositories
    BY <2>2
  <2>4. org.repositories # "none" => \A f \in {"allowed", "permissions", "approve", "policy"} : base.org[f] = org[f]
    BY <2>1, <2>3, <1>1, <1>2
  <2>5. org.repositories # "none" /\ org.allowed = "selected" => base.org.patterns = org.patterns
    BY <2>1, <2>3, <2>4, <1>1, <1>2
  <2>6. org.repositories = "selected" => base.org.picked = org.picked
    BY <2>1, <2>3, <1>1, <1>2
  <2> QED
    BY <2>1, <2>2, <2>4, <2>5, <2>6, <1>1
<1>4. CASE ~local
  <2>1. \A f \in DOMAIN org : OrgRead[f] = CASE f = "picked" -> PickedRead
                                           [] f = "policy" -> org.policy
                                           [] OTHER -> FlowRead(f, OrgEffective(org)[f])
    BY DEF OrgRead
  <2>2. {"repositories", "picked", "policy", "allowed", "permissions", "approve", "patterns"} \subseteq OrgFields
        /\ {"patterns", "picked", "policy"} \cap (OrgRest \cup OrgWeb \cup {"repositories", "property"}) = {}
        /\ OrgRest \cup OrgWeb \subseteq OrgFields
    BY DEF OrgFields, OrgFlow, OrgRest, OrgWeb
  <2>3. \A f \in OrgRest \cup OrgWeb \cup {"repositories", "property"} : OrgRead[f] = org[f]
    BY <2>1, <2>2, <1>1, <1>2 DEF FlowRead
  <2>4. org.repositories = "selected" => OrgRead.picked = org.picked
    BY <2>1, <2>2, <1>1 DEF PickedRead
  <2>5. org.repositories # "none" =>
            /\ \A f \in {"allowed", "permissions", "approve", "policy"} : OrgRead[f] = org[f]
            /\ org.allowed = "selected" => OrgRead.patterns = org.patterns
    BY <2>1, <2>2, <1>1, <1>2 DEF FlowRead
  <2> QED
    BY <1>1, <1>4, <2>3, <2>4, <2>5
<1> QED
    BY <1>3, <1>4

\* The plan has what the organization lacks.
LEMMA OrgIsPlanned ==
    ASSUME LiveInv, pc = "idle", IsValid(config), NEW co, co = IF local THEN base.org ELSE OrgRead,
           NEW cr, \A f \in {"title", "message", "branch", "path"} : cr[f] # Unset
    PROVE  \A f \in OrgIncluded(config.org) \cup {"property"} :
               \/ org[f] = config.org[f]
               \/ Sends(Patches(co, cr), "org", f)
               \/ f = "configs" /\ config.org.configs = "off"
<1> DEFINE d == OrgChanges(co)
           o == config.org
           p == Patches(co, cr)
<1>1. /\ \A f \in OrgRest \cup OrgWeb \cup {"repositories", "property"} : co[f] = org[f]
      /\ org.repositories = "selected" => co.picked = org.picked
      /\ org.repositories # "none" =>
             /\ \A f \in {"allowed", "permissions", "approve", "policy"} : co[f] = org[f]
             /\ org.allowed = "selected" => co.patterns = org.patterns
      /\ \A f \in OrgFields : org[f] # Unset
    BY OrgCurrent
<1>2. /\ IsConfiguration(config) /\ DOMAIN o = OrgFields \cup {"plan", "property"}
      /\ \A f \in DOMAIN o : o[f] # Unset
      /\ o.allowed \in Levels \cup {"malformed"}
    BY DEF LiveInv, IsConfiguration, IsSettings
<1>3. o.allowed \in Levels
    BY <1>2, ValidFacts DEF OrgFields, OrgFlow
<1> HIDE DEF p
<1>4. /\ \A f \in d \cap (OrgRest \cup OrgWeb) : Sends(p, "org", f)
      /\ d \cap OrgFlow # {} => \A f \in OrgIncluded(o) \cap OrgFlow : Sends(p, "org", f)
      /\ o.property # co.property => Sends(p, "org", "property")
    BY <1>2, PlanFacts DEF p
<1>5. /\ OrgIncluded(o) \subseteq OrgFields
      /\ \A f \in OrgIncluded(o) : co[f] # Unset /\ co[f] # o[f] => f \in d \/ (f = "configs" /\ o.configs = "off")
    BY <1>2 DEF OrgChanges, Differing, OrgIncluded
<1>6. /\ OrgFields = OrgRest \cup OrgWeb \cup OrgFlow /\ "configs" \notin OrgFlow
      /\ OrgFlow = {"repositories", "picked", "allowed", "patterns", "permissions", "approve", "policy"}
      /\ "repositories" \in OrgIncluded(o)
      /\ o.repositories # "none" => "allowed" \in OrgIncluded(o)
      /\ \A f \in OrgIncluded(o) : /\ f \in OrgFlow => o.repositories # "none" \/ f = "repositories"
                                   /\ f = "picked" => o.repositories = "selected"
                                   /\ f = "patterns" => o.allowed \notin {"all", "local_only"}
    BY DEF OrgFields, OrgRest, OrgFlow, OrgWeb, OrgIncluded, FlowIncluded
<1> HIDE DEF d
<1>7. ASSUME NEW f \in OrgIncluded(o), f \notin OrgFlow
      PROVE  org[f] = o[f] \/ Sends(p, "org", f) \/ (f = "configs" /\ o.configs = "off")
  <2>1. f \in OrgRest \cup OrgWeb /\ co[f] = org[f] /\ org[f] # Unset
    BY <1>1, <1>5, <1>6, <1>7
  <2> QED
    BY <2>1, <1>4, <1>5, <1>7
<1>8. ASSUME NEW f \in OrgIncluded(o), f \in OrgFlow, d \cap OrgFlow = {}
      PROVE  org[f] = o[f]
  <2>1. \A g \in OrgIncluded(o) \cap OrgFlow : co[g] = Unset \/ co[g] = o[g]
    BY <1>5, <1>6, <1>8
  <2>2. org.repositories = o.repositories
    BY <2>1, <1>1, <1>6
  <2>3. CASE f = "repositories"
    BY <2>2, <2>3
  <2>4. CASE f # "repositories"
    <3>1. o.repositories # "none" /\ org.repositories # "none"
        BY <2>2, <2>4, <1>6, <1>8
    <3>2. org.allowed = o.allowed
        BY <3>1, <2>1, <1>1, <1>6
    <3>3. co[f] = org[f]
        BY <3>1, <3>2, <2>2, <2>4, <1>1, <1>3, <1>6, <1>8 DEF Levels
    <3> QED
        BY <3>3, <2>1, <1>1, <1>5, <1>8
  <2> QED
    BY <2>3, <2>4
<1>9. ASSUME NEW f \in OrgIncluded(o) PROVE org[f] = o[f] \/ Sends(p, "org", f) \/ (f = "configs" /\ o.configs = "off")
    BY <1>4, <1>7, <1>8
<1>10. org["property"] = o["property"] \/ Sends(p, "org", "property")
    BY <1>1, <1>4
<1> QED
    BY <1>9, <1>10 DEF p

\* What is reported of the repository.
LEMMA ReadFacts ==
    ASSUME DOMAIN repo = RepoFields
    PROVE  LET E == RepoEffective(org, repo) IN
           /\ \A f \in RepoFields \ {"policy", "reporting"} : E[f] # Unset => RepoRead[f] = E[f]
           /\ RepoRead.reporting = IF repo.private = "off" THEN E.reporting ELSE Unset
           /\ RepoRead.policy = IF repo.private = "off" THEN repo.policy ELSE Unset
           /\ \A f \in {"signoff", "projects", "discussions", "forking", "scanning", "push", "properties", "visibility",
                        "enabled", "allowed", "permissions", "approve"} : RepoRead[f] = E[f]
           /\ RepoRead.dismissal = IF E.dismissal # Unset THEN E.dismissal ELSE "off"
<1>1. \A f \in RepoFields : RepoRead[f] =
            LET v == RepoEffective(org, repo)[f] IN
            CASE ~IsAsked(f) -> Unset
              [] f \in Pages -> PagesRead(f, v)
              [] f \in Scan -> ScanRead(f, v)
              [] f \in RepoFlow -> RepoFlowRead(f)
              [] f \in RuleFields -> RuleRead(f, v)
              [] OTHER -> v
    BY DEF RepoRead
<1> DEFINE E == RepoEffective(org, repo)
<1> HIDE DEF E
<1>2. /\ \A f \in RepoFlow \ {"policy", "patterns"} : RepoFlowRead(f) = E[f]
      /\ RepoFlowRead("policy") = IF repo.private = "off" THEN repo.policy ELSE Unset
      /\ E.patterns # Unset => RepoFlowRead("patterns") = E.patterns
    BY DEF RepoFlowRead, FlowRead, E
<1>3. \A f \in RepoFields \ {"policy", "reporting"} : E[f] # Unset => RepoRead[f] = E[f]
    BY <1>1, <1>2, Fields DEF IsAsked, PagesRead, ScanRead, RuleRead, E
<1>4. /\ RepoRead.reporting = IF repo.private = "off" THEN E.reporting ELSE Unset
      /\ RepoRead.policy = IF repo.private = "off" THEN repo.policy ELSE Unset
      /\ \A f \in {"enabled", "allowed", "permissions", "approve"} : RepoRead[f] = E[f]
    BY <1>1, <1>2, Fields DEF IsAsked, E
<1>5. \A f \in {"signoff", "projects", "discussions", "forking", "scanning", "push", "properties", "visibility"} : RepoRead[f] = E[f]
    BY <1>1, Fields DEF IsAsked, PagesRead, E
<1>6. RepoRead.dismissal = IF E.dismissal # Unset THEN E.dismissal ELSE "off"
  <2>1. "dismissal" \in RuleFields /\ "dismissal" \notin RuleLists
    BY DEF RuleFields, RuleLists
  <2> QED
    BY <1>1, <2>1, Fields DEF IsAsked, RuleRead, E
<1> QED
    BY <1>3, <1>4, <1>5, <1>6 DEF E

\* The plan has what the repository lacks of a setting that is reported as it is; workflows apart.
LEMMA RestIsPlanned ==
    ASSUME LiveInv, pc = "idle",
           NEW co, co = IF local THEN base.org ELSE OrgRead,
           NEW cr, cr = IF local THEN CoercedRepo(base.org, base.repo) ELSE RepoRead,
           NEW f \in RepoFields \ RepoFlow, ~Moot(f),
           \/ f \in Masks
           \/ f \notin Decided(org) \ {"signoff"} /\ RepoRead[f] = repo[f] /\ f \notin TakenForApplied
    PROVE  Agrees(f) \/ Sends(Patches(co, cr), "repo", f) \/ Sends(Patches(co, cr), "rule", f)
<1> DEFINE d == OrgChanges(co)
           e == Differing(Expected, cr, RepoIncluded(Expected))
           p == Patches(co, cr)
           E == RepoEffective(org, repo)
           B == RepoEffective(base.org, base.repo)
<1>1. /\ IsConfiguration(config) /\ DOMAIN repo = RepoFields /\ DOMAIN base.repo = RepoFields
      /\ \A g \in RepoFields : repo[g] # Unset /\ base.repo[g] # Unset
      /\ DOMAIN org = OrgFields \cup {"plan", "property"} /\ DOMAIN base.org = OrgFields \cup {"plan", "property"}
      /\ config.org.signoff \in {"on", "off"}
    BY DEF LiveInv, IsSettings, IsConfiguration
<1>2. f \in RepoIncluded(Expected) /\ Expected[f] # Unset /\ (f # "properties" => Expected[f] = config.repo[f])
    BY <1>1, NotMootFacts
<1>3. \A g \in {"title", "message", "branch", "path"} : cr[g] # Unset
    BY CurrentFacts
<1> HIDE DEF p
<1>4. /\ \A g \in (e \cup Released(d)) \cap (RepoPatch \cup RepoOwn) : Sends(p, "repo", g)
      /\ \A g \in e \cap RuleFields : Sends(p, "rule", g)
    BY <1>1, <1>3, PlanFacts DEF p
<1>5. cr[f] = Unset \/ cr[f] = Expected[f] \/ Sends(p, "repo", f) \/ Sends(p, "rule", f)
  <2>1. cr[f] # Unset /\ cr[f] # Expected[f] => f \in e
    BY <1>2 DEF Differing
  <2>2. f \in RepoPatch \cup RepoOwn \cup RuleFields
    BY DEF RepoFields
  <2> HIDE DEF e
  <2> QED
    BY <2>1, <2>2, <1>4
<1>6. ASSUME cr[f] = repo[f] PROVE Agrees(f) \/ Sends(p, "repo", f) \/ Sends(p, "rule", f)
    BY <1>1, <1>5, <1>6 DEF Agrees
<1>7. CASE f \in Masks
  <2>1. \A r : f \notin Ignored(r)
    BY <1>7 DEF Ignored, Masks
  <2>2. E[f] = repo[f] /\ B[f] = base.repo[f]
    <3>1. f \in {"private", "build", "setup"} \/ f \in RuleFields
        BY <1>7 DEF Masks, RuleFields
    <3> HIDE DEF E, B
    <3> QED
        BY <2>1, <3>1, <1>1, EffectiveFacts DEF E, B
  <2>3. CASE local
    <3>1. E = B
        BY <2>3 DEF LiveInv, Behaves
    <3>2. cr[f] = base.repo[f]
        BY <2>3, <1>1, <1>7 DEF CoercedRepo, Masks
    <3> QED
        BY <3>1, <3>2, <2>2, <1>6 DEF p
  <2>4. CASE ~local
    <3>1. RepoRead[f] = repo[f]
        BY <2>2, <1>1, <1>7, ReadFacts DEF Masks
    <3> QED
        BY <3>1, <2>4, <1>6 DEF p
  <2> QED
    BY <2>3, <2>4
<1>8. CASE f \notin Masks /\ ~local
    BY <1>6, <1>8 DEF p
<1>9. CASE f \notin Masks /\ local
  <2>1. f \notin Decided(org) \ {"signoff"} /\ RepoRead[f] = repo[f] /\ f \notin TakenForApplied
    BY <1>9
  <2>2. E = B /\ OrgEffective(org) = OrgEffective(base.org) /\ co = base.org /\ cr = CoercedRepo(base.org, base.repo)
    BY <1>9 DEF LiveInv, Behaves
  <2>3. /\ \A g \in {"signoff", "projects", "discussions", "property"} : base.org[g] = org[g]
        /\ base.org.plan = org.plan
    <3>1. \A g \in {"signoff", "projects", "discussions", "property"} : co[g] = org[g]
        BY OrgCurrent DEF OrgRest, OrgWeb
    <3>2. OrgEffective(org).plan = org.plan /\ OrgEffective(base.org).plan = base.org.plan
        BY <1>1 DEF OrgEffective, OrgFlow
    <3> QED
        BY <3>1, <3>2, <2>2
  <2>4. cr[f] = CASE f = "projects" /\ base.org.projects = "off"       -> Unset
                  [] f = "signoff" /\ base.org.signoff = "on"         -> Unset
                  [] f = "visibility" /\ base.org.plan # "enterprise" -> Unset
                  [] f = "properties" /\ base.org.property = "required" /\ base.repo.properties = "none" -> "usual"
                  [] f = "discussions" /\ base.org.discussions = "on" -> "on"
                  [] OTHER -> base.repo[f]
    BY <2>2, <1>1 DEF CoercedRepo
  <2>5. ASSUME cr[f] = base.repo[f], f # "properties" PROVE Agrees(f) \/ Sends(p, "repo", f) \/ Sends(p, "rule", f)
    <3>1. CASE base.repo[f] # config.repo[f]
        BY <2>5, <3>1, <1>1, <1>2, <1>5
    <3>2. CASE base.repo[f] = config.repo[f]
      <4>1. B[f] = base.repo[f]
        BY <2>1, <3>2, <1>9 DEF TakenForApplied
      <4>2. E[f] = base.repo[f] /\ E[f] # Unset
        BY <4>1, <2>2, <1>1
      <4>3. RepoRead[f] = E[f]
        <5>1. CASE f = "reporting"
            BY <5>1, <4>2, <2>1, <1>1, ReadFacts
        <5>2. CASE f # "reporting"
            BY <5>2, <4>2, <1>1, ReadFacts, Fields
        <5> QED
            BY <5>1, <5>2
      <4> QED
        BY <4>2, <4>3, <2>1, <2>5, <1>6
    <3> QED
        BY <3>1, <3>2
  <2>6. CASE f = "signoff" /\ base.org.signoff = "on"
    <3>1. config.org.signoff = "off" /\ co.signoff = "on"
        BY <2>2, <2>6, <1>1 DEF Moot
    <3>2. "signoff" \in d
        BY <3>1 DEF OrgChanges, Differing, OrgIncluded, OrgFields, OrgRest, OrgFlow, FlowIncluded, Unset
    <3>3. "signoff" \in Released(d) /\ "signoff" \in RepoPatch
        BY <3>1, <3>2 DEF Released, RepoPatch
    <3> HIDE DEF d, e
    <3> QED
        BY <3>3, <2>6, <1>4 DEF p
  <2>7. CASE f = "properties"
    <3>1. org.property = config.org.property /\ config.org.property # "undefined"
        BY <2>1, <2>7 DEF Decided, Moot
    <3>2. cr.properties = E.properties
        BY <2>2, <2>3, <2>4, <2>7, <3>1, <1>1, EffectiveFacts
    <3>3. E.properties = IF org.property = "required" /\ repo.properties = "none" THEN "usual" ELSE repo.properties
        BY <3>1, <1>1, EffectiveFacts
    <3>4. E.properties # Unset
        BY <3>3, <1>1, Fields DEF Unset
    <3>5. E.properties = Expected.properties => Agrees("properties")
        BY <3>1, <3>3 DEF Agrees
    <3> QED
        BY <3>2, <3>4, <3>5, <2>7, <1>5 DEF p
  <2>8. CASE f # "properties" /\ ~(f = "signoff" /\ base.org.signoff = "on")
    <3>1. f = "projects" => org.projects # "off"
        BY <2>1 DEF Decided
    <3>2. f = "discussions" => org.discussions # "on"
        BY <2>1 DEF Decided
    <3>3. f = "visibility" => org.plan = "enterprise"
        BY DEF Moot
    <3>4. cr[f] = base.repo[f]
        BY <3>1, <3>2, <3>3, <2>3, <2>4, <2>8
    <3> QED
        BY <3>4, <2>5, <2>8 DEF p
  <2> QED
    BY <2>6, <2>7, <2>8 DEF p
<1> QED
    BY <1>7, <1>8, <1>9

\* Dismissals that are off are reported as off, whether reviews are on or not.
LEMMA DismissalIsPlanned ==
    ASSUME LiveInv, pc = "idle", ~local, ~Moot("dismissal"), repo.dismissal = "off", Expected.dismissal # "off"
    PROVE  Sends(Patches(OrgRead, RepoRead), "rule", "dismissal")
<1>1. IsConfiguration(config) /\ DOMAIN repo = RepoFields /\ "dismissal" \in RuleFields /\ "dismissal" \in RepoFields
    BY DEF LiveInv, IsSettings, RepoFields, RuleFields
<1>2. "dismissal" \in RepoIncluded(Expected) /\ Expected.dismissal # Unset
    BY <1>1, NotMootFacts
<1>3. RepoRead.dismissal = "off"
    BY <1>1, ReadFacts, EffectiveFacts
<1>4. "dismissal" \in Differing(Expected, RepoRead, RepoIncluded(Expected)) \cap RuleFields
    BY <1>1, <1>2, <1>3 DEF Differing, Unset
<1>5. \A f \in {"title", "message", "branch", "path"} : RepoRead[f] # Unset
    BY CurrentFacts
<1> QED
    BY <1>1, <1>4, <1>5, PlanFacts

\* The plan has what the workflow settings lack of the configuration.
LEMMA FlowIsPlanned ==
    ASSUME LiveInv, pc = "idle",
           NEW co, co = IF local THEN base.org ELSE OrgRead,
           NEW cr, cr = IF local THEN CoercedRepo(base.org, base.repo) ELSE RepoRead,
           NEW f \in RepoFlow, ~Moot(f), Admits(org),
           f \in {"allowed", "patterns"} => Level(config.repo.allowed) > Level(org.allowed),
           f = "permissions" => org.permissions # "read",
           f = "approve" => org.approve # "off",
           f = "policy" => RepoRead.policy = repo.policy /\ "policy" \notin TakenForApplied
    PROVE  Agrees(f) \/ Sends(Patches(co, cr), "repo", f)
<1> DEFINE e == Differing(Expected, cr, RepoIncluded(Expected))
           p == Patches(co, cr)
           E == RepoEffective(org, repo)
           B == RepoEffective(base.org, base.repo)
           r == config.repo
<1>1. /\ IsConfiguration(config) /\ DOMAIN repo = RepoFields /\ DOMAIN base.repo = RepoFields
      /\ \A g \in RepoFields : repo[g] # Unset /\ base.repo[g] # Unset
      /\ r.enabled \in {"on", "off"}
    BY DEF LiveInv, IsSettings, IsConfiguration, Switches
<1>2. \A g \in RepoFlow : ~Moot(g) =>
          /\ g \in RepoIncluded(Expected) /\ Expected[g] # Unset /\ Expected[g] = r[g]
          /\ g = "patterns" => Expected.allowed = "selected"
          /\ g = "policy" => Expected.private = "off"
    BY <1>1, NotMootFacts, Fields
<1>3. \A g \in {"title", "message", "branch", "path"} : cr[g] # Unset
    BY CurrentFacts
<1> HIDE DEF p
<1>4. e \cap RepoFlow # {} => Sends(p, "repo", f)
    BY <1>1, <1>2, <1>3, PlanFacts DEF p
<1>5. SUFFICES ASSUME e \cap RepoFlow = {} PROVE Agrees(f)
    BY <1>4 DEF p
<1>6. \A g \in RepoFlow : ~Moot(g) => cr[g] = Unset \/ cr[g] = r[g]
    BY <1>2, <1>5 DEF Differing
<1>7. ~Moot("enabled") /\ (f # "enabled" => r.enabled = "on" /\ Expected.enabled = "on")
      /\ (f = "patterns" => ~Moot("allowed")) /\ "enabled" \in RepoFlow /\ "allowed" \in RepoFlow
      /\ (f = "policy" => r.private = "off")
  <2>1. Admits(config.org) /\ (f # "enabled" => r.enabled = "on") /\ "enabled" \notin Ignored(config.repo)
        /\ "allowed" \notin Ignored(config.repo)
        /\ (f = "policy" => Expected.private = "off") /\ (f = "patterns" => ~Restricts(config.org, config.repo.allowed))
    BY Fields DEF Moot
  <2>2. ~Moot("enabled") /\ (f = "patterns" => ~Moot("allowed"))
    BY <2>1, Fields DEF Moot
  <2> QED
    BY <2>1, <2>2, <1>1, <1>2, ExpectedValues, Fields
<1>8. \A g \in RepoFlow : E[g] = FlowEffective(org, repo, g) /\ B[g] = FlowEffective(base.org, base.repo, g)
    BY <1>1, EffectiveFacts
<1> HIDE DEF E, B
<1>9. ASSUME repo.enabled = "on", f \in {"allowed", "patterns"}, E.allowed = r.allowed
      PROVE  repo.allowed = r.allowed /\ E.patterns = (IF r.allowed = "selected" THEN repo.patterns ELSE Unset)
  <2>1. Strictest(org, repo).allowed = r.allowed
    BY <1>8, <1>9, Fields DEF FlowEffective
  <2>2. \A v : Level(v) \in Nat
    BY DEF Level
  <2>3. Strictest(org, repo) = repo
    <3>1. SUFFICES ASSUME Strictest(org, repo) = org PROVE FALSE
        BY DEF Strictest
    <3> QED
        BY <3>1, <2>1, <2>2, <1>9
  <2> QED
    BY <2>1, <2>3, <1>8, <1>9, Fields DEF FlowEffective
<1>10. CASE ~local
  <2>1. /\ cr = RepoRead
        /\ \A g \in {"enabled", "allowed", "permissions", "approve"} : cr[g] = E[g]
        /\ E.patterns # Unset => cr.patterns = E.patterns
        /\ f = "policy" => cr.policy = repo.policy
    BY <1>1, <1>10, ReadFacts, Fields DEF E
  <2>2. E.enabled = IF repo.enabled = "on" THEN "on" ELSE "off"
    BY <1>8, Fields DEF FlowEffective
  <2>3. repo.enabled = "on" <=> r.enabled = "on"
    BY <2>1, <2>2, <1>1, <1>6, <1>7 DEF Unset
  <2>4. CASE f = "enabled"
    BY <2>3, <2>4, <1>2, <1>7, <1>1 DEF Agrees
  <2>5. CASE f # "enabled"
    <3>1. repo.enabled = "on" /\ Expected[f] = r[f]
        BY <2>3, <2>5, <1>2, <1>7
    <3>2. CASE f \in {"allowed", "patterns"}
      <4>1. E.allowed # Unset
        <5>1. E.allowed = org.allowed \/ E.allowed = repo.allowed
            BY <3>1, <1>8, Fields DEF FlowEffective, Strictest
        <5>2. org.allowed # Unset /\ repo.allowed # Unset
            BY <1>1, Fields DEF LiveInv, IsSettings, OrgFields, OrgFlow
        <5> QED
            BY <5>1, <5>2
      <4>2. E.allowed = r.allowed
        BY <4>1, <3>2, <2>1, <1>6, <1>7
      <4>3. repo.allowed = r.allowed /\ E.patterns = (IF r.allowed = "selected" THEN repo.patterns ELSE Unset)
        BY <4>2, <3>1, <3>2, <1>9
      <4>4. f = "patterns" => repo.patterns = r.patterns
        BY <4>3, <2>1, <1>1, <1>6, Fields DEF Moot
      <4> QED
        BY <4>3, <4>4, <3>1, <3>2 DEF Agrees
    <3>3. CASE f \in {"permissions", "approve"}
      <4>1. E[f] = repo[f]
        BY <3>1, <3>3, <1>8 DEF FlowEffective
      <4> QED
        BY <4>1, <3>1, <3>3, <2>1, <1>1, <1>6, Fields DEF Agrees
    <3>4. CASE f = "policy"
        BY <3>1, <3>4, <2>1, <1>1, <1>6, Fields DEF Agrees
    <3> QED
        BY <3>2, <3>3, <3>4, <2>5, Fields
  <2> QED
    BY <2>4, <2>5
<1>11. CASE local
  <2>1. /\ E = B /\ co = base.org
        /\ \A g \in RepoFlow : cr[g] = base.repo[g]
    BY <1>1, <1>11, Fields DEF E, B, LiveInv, Behaves, CoercedRepo
  <2>2. Admits(base.org) /\ base.org.allowed = org.allowed /\ base.org.permissions = org.permissions
        /\ base.org.approve = org.approve
    <3>1. org.repositories # "none"
        BY DEF Admits
    <3> QED
        BY <2>1, <3>1, OrgCurrent DEF Admits
  <2>3. \A g \in RepoFlow : ~Moot(g) => base.repo[g] = r[g]
    BY <2>1, <1>1, <1>6, Fields
  <2>4. E.enabled = (IF repo.enabled = "on" THEN "on" ELSE "off") /\ B.enabled = IF base.repo.enabled = "on" THEN "on" ELSE "off"
    BY <2>2, <1>8, Fields DEF FlowEffective
  <2>5. repo.enabled = "on" <=> r.enabled = "on"
    BY <2>1, <2>3, <2>4, <1>7
  <2>6. CASE f = "enabled"
    BY <2>5, <2>6, <1>2, <1>7, <1>1 DEF Agrees
  <2>7. CASE f # "enabled"
    <3>1. repo.enabled = "on" /\ base.repo.enabled = "on" /\ Expected[f] = r[f] /\ base.repo[f] = r[f]
        BY <2>3, <2>5, <2>7, <1>2, <1>7
    <3>2. CASE f \in {"allowed", "patterns"}
      <4>1. base.repo.allowed = r.allowed
        BY <3>1, <3>2, <2>3, <1>7
      <4>2. ~Restricts(base.org, base.repo.allowed)
        <5>1. \A v : Level(v) \in Nat
            BY DEF Level
        <5> QED
            BY <4>1, <5>1, <2>2, <3>2 DEF Restricts
      <4>3. B.allowed = r.allowed /\ (r.allowed = "selected" => B.patterns = base.repo.patterns)
        BY <4>1, <4>2, <3>1, <2>2, <1>8, Fields DEF FlowEffective, Strictest
      <4>4. repo.allowed = r.allowed /\ E.patterns = (IF r.allowed = "selected" THEN repo.patterns ELSE Unset)
        BY <4>3, <3>1, <3>2, <2>1, <1>9
      <4>5. f = "patterns" => repo.patterns = r.patterns
        BY <4>3, <4>4, <3>1, <2>1 DEF Moot
      <4> QED
        BY <4>4, <4>5, <3>1, <3>2 DEF Agrees
    <3>3. CASE f \in {"permissions", "approve"}
      <4>1. E[f] = repo[f] /\ B[f] = base.repo[f]
        BY <3>1, <3>3, <2>2, <1>8 DEF FlowEffective
      <4> QED
        BY <4>1, <3>1, <2>1 DEF Agrees
    <3>4. CASE f = "policy"
      <4>1. B.policy = base.repo.policy
        BY <3>1, <3>4, <1>11, <1>1, Fields DEF TakenForApplied, B
      <4>2. E.policy # Unset => E.policy = repo.policy
        BY <1>8, Fields DEF FlowEffective
      <4> QED
        BY <4>1, <4>2, <3>1, <3>4, <2>1, <1>1, Fields DEF Agrees
    <3> QED
        BY <3>2, <3>3, <3>4, <2>7, Fields
  <2> QED
    BY <2>6, <2>7
<1> QED
    BY <1>10, <1>11

-----------------------------------------------------------------------------
(* Settings: what a run without failures leaves behind.                    *)

\* The configuration is valid, and nothing has failed in the run, or the last one.
Valid == IsValid(config) /\ ~past.failed

\* From its plan on, a run brings about all that it was shown.
RunInv ==
    Valid /\ (pc # "idle" \/ past.clean >= 1) =>
        /\ \A f \in OrgIncluded(config.org) \cup {"property"} : OrgHas(f)
        /\ \A f \in RepoFields : Shown(f) => Moot(f) \/ Has(f)
        /\ \/ local \/ Moot("dismissal") \/ repo.dismissal # "off" \/ Expected.dismissal = "off"
           \/ Coming("rule", "dismissal")

\* A second one in a row is shown all that makes a difference.
TwiceInv ==
    Valid /\ (IF pc = "applying" THEN past.clean >= 1 ELSE past.clean >= 2) =>
        \A f \in RepoFields : Moot(f) \/ Has(f)

\* A plan against an earlier configuration has no run before and none after it.
CleanInv ==
    /\ {"failed", "clean", "before", "unseen"} \subseteq DOMAIN past /\ past.clean \in Nat
    /\ pc # "applying" /\ past.clean >= 1 => ~past.failed
    /\ local => past.clean = 0 \/ (pc = "done" /\ past.clean = 1)

SettleInv == CleanInv /\ RunInv /\ TwiceInv

\* The second plan in a row has all that makes a difference.
LEMMA SecondPlan ==
    ASSUME LiveInv, pc = "idle", ~local, IsValid(config),
           \A g \in OrgIncluded(config.org) \cup {"property"} :
               org[g] = config.org[g] \/ (g = "configs" /\ config.org.configs = "off"),
           \A g \in Masks : Agrees(g) \/ Skipped(g),
           Moot("dismissal") \/ repo.dismissal # "off" \/ Expected.dismissal = "off",
           NEW f \in RepoFields, ~Moot(f)
    PROVE  Agrees(f) \/ Skipped(f) \/ Sends(Patches(OrgRead, RepoRead), "repo", f)
             \/ Sends(Patches(OrgRead, RepoRead), "rule", f)
<1> DEFINE p == Patches(OrgRead, RepoRead)
           E == RepoEffective(org, repo)
           r == config.repo
           o == config.org
<1>1. /\ IsConfiguration(config) /\ DOMAIN repo = RepoFields /\ IsSettings([org |-> org, repo |-> repo])
      /\ \A g \in RepoFields : repo[g] # Unset
    BY DEF LiveInv, IsSettings
<1>2. /\ \A g \in {"signoff", "projects", "fork", "discussions", "repositories", "property", "private_pages"} : org[g] = o[g]
      /\ Admits(org) <=> Admits(o)
      /\ Admits(o) => \A g \in {"allowed", "permissions", "approve", "policy"} : org[g] = o[g]
    BY <1>1, OrgIsSettled
<1>3. TakenForApplied = {}
    BY DEF TakenForApplied
<1>4. /\ repo.private = Expected.private /\ repo.setup = Expected.setup
      /\ repo.build = Expected.build \/ branches = {}
      /\ \A g \in {"reviews", "force", "status", "deploy", "restricted", "lock"} : repo[g] = Expected[g]
    BY Fields DEF Masks, Agrees, Skipped
<1>5. /\ \A g \in RuleFields : Expected[g] = r[g]
      /\ Expected.private = r.private /\ r.private \in {"on", "off"} /\ Expected.build = r.build
    BY <1>1, ExpectedValues DEF IsConfiguration, Switches
<1>10. /\ \A g \in {"description", "title", "message", "topics", "default"} : E[g] = repo[g]
       /\ E.signoff = (IF org.signoff = "on" THEN "on" ELSE repo.signoff)
       /\ E.projects = (IF org.projects = "off" THEN "off" ELSE repo.projects)
       /\ E.discussions = (IF org.discussions = "on" THEN "on" ELSE repo.discussions)
       /\ E.forking = (IF repo.private = "off" THEN "on" ELSE IF org.fork = "off" THEN "off" ELSE repo.forking)
       /\ \A g \in {"scanning", "push", "reporting"} : E[g] = IF repo.private = "on" THEN Unset ELSE repo[g]
       /\ E.visibility = (IF org.plan # "enterprise" \/ repo.build = "disabled" THEN Unset ELSE repo.visibility)
       /\ \A g \in {"branch", "path"} : E[g] = IF repo.build # "legacy" THEN Unset ELSE repo[g]
       /\ E.suite = (IF repo.setup = "off" THEN Unset ELSE repo.suite)
    BY <1>1, EffectiveFacts
<1>11. /\ \A g \in RepoFields \ {"policy", "reporting"} : E[g] # Unset => RepoRead[g] = E[g]
       /\ RepoRead.reporting = IF repo.private = "off" THEN E.reporting ELSE Unset
    BY <1>1, ReadFacts
<1> HIDE DEF p, E
<1>6. CASE f \in Masks
    BY <1>6, RestIsPlanned, Fields DEF p, Masks
<1>7. CASE f \in RepoFlow
  <2>1. Admits(o) /\ Admits(org)
    BY <1>2, <1>7 DEF Moot
  <2>2. f \in {"allowed", "patterns"} => Level(r.allowed) > Level(org.allowed)
    <3>1. \A v : Level(v) \in Nat
        BY DEF Level
    <3> QED
        BY <3>1, <2>1, <1>2 DEF Moot, Restricts
  <2>3. (f = "permissions" => org.permissions # "read") /\ (f = "approve" => org.approve # "off")
    BY <2>1, <1>2 DEF Moot
  <2>4. f = "policy" => RepoRead.policy = repo.policy /\ "policy" \notin TakenForApplied
    BY <1>1, <1>3, <1>4, ReadFacts DEF Moot
  <2> QED
    BY <2>1, <2>2, <2>3, <2>4, <1>7, FlowIsPlanned DEF p
<1>8. CASE f = "properties"
  <2>1. RepoRead.properties = E.properties
    BY <1>1, ReadFacts DEF E
  <2>2. org.property = o.property /\ o.property # "undefined"
    BY <1>2, <1>8 DEF Moot
  <2>3. E.properties = IF o.property = "required" /\ repo.properties = "none" THEN "usual" ELSE repo.properties
    BY <2>2, <1>1, EffectiveFacts DEF E
  <2>4. CASE E.properties = Expected.properties
    BY <2>2, <2>3, <2>4, <1>8 DEF Agrees
  <2>5. CASE E.properties # Expected.properties
    <3>1. f \in RepoIncluded(Expected) /\ Expected[f] # Unset
        BY <1>1, NotMootFacts
    <3>2. E.properties # Unset
        BY <2>3, <1>1, <1>8 DEF Unset
    <3>3. f \in Differing(Expected, RepoRead, RepoIncluded(Expected)) \cap (RepoPatch \cup RepoOwn)
        BY <3>1, <3>2, <2>1, <2>5, <1>8 DEF Differing, RepoOwn
    <3>4. \A g \in {"title", "message", "branch", "path"} : RepoRead[g] # Unset
        BY CurrentFacts
    <3> QED
        BY <3>3, <3>4, <1>1, PlanFacts DEF p
  <2> QED
    BY <2>4, <2>5
<1>9. CASE f \notin Masks \cup RepoFlow \cup {"properties"}
  <2>1. f \notin Decided(org) \ {"signoff"}
    BY <1>2, <1>9, Fields DEF Decided, Moot
  <2>2. CASE f \in RuleFields
    <3>1. f \notin Ignored(repo)
      <4>1. f \notin Ignored(r)
        BY DEF Moot
      <4>2. f = "dismissers" => repo.dismissal # "off"
        <5>1. SUFFICES ASSUME f = "dismissers" PROVE repo.dismissal # "off"
            OBVIOUS
        <5>2. "dismissers" \in RuleFields /\ "dismissal" \in RuleFields
            BY DEF RuleFields
        <5>3. r.reviews # "off" /\ r.dismissal # "off"
            BY <4>1, <5>1, <5>2 DEF Ignored
        <5>4. ~Moot("dismissal")
            BY <5>2, <5>3, Fields DEF Moot, Ignored
        <5> QED
            BY <5>2, <5>3, <5>4, <1>5
      <4>3. {"reviews", "force", "status", "deploy", "restricted", "lock"} \subseteq RuleFields
        BY DEF RuleFields
      <4>4. \A g \in {"reviews", "force", "status", "deploy", "restricted", "lock"} : repo[g] = r[g]
        BY <4>3, <1>4, <1>5
      <4> QED
        BY <4>1, <4>2, <4>4 DEF Ignored
    <3>2. E[f] = repo[f]
        BY <3>1, <2>2, <1>1, EffectiveFacts DEF E
    <3>3. RepoRead[f] = repo[f]
        BY <3>2, <2>2, <1>1, ReadFacts, Fields DEF E
    <3> QED
        BY <3>3, <2>1, <1>3, <1>9, RestIsPlanned DEF p
  <2>3. CASE f \notin RuleFields
    <3>1. f \in {"signoff", "projects", "discussions", "forking", "description", "title", "message",
              "scanning", "push", "reporting", "topics", "default", "branch", "path", "visibility", "suite"}
        BY <2>3, <1>9, Fields DEF Masks
    <3>2. CASE branches = {} /\ f \in {"branch", "path", "visibility"}
        BY <3>2, Fields DEF Skipped
    <3>3. CASE ~(branches = {} /\ f \in {"branch", "path", "visibility"})
      <4> SUFFICES RepoRead[f] = repo[f]
        BY <2>1, <1>3, <1>9, RestIsPlanned DEF p
      <4>1. CASE f \in {"signoff", "projects", "discussions", "forking", "scanning", "push"}
        <5>1. E[f] = repo[f]
            BY <4>1, <1>2, <1>4, <1>5, <1>10 DEF Moot
        <5> QED
            BY <4>1, <5>1, <1>1, <1>11
      <4>2. CASE f \in {"description", "title", "message", "topics", "default"}
        <5>1. E[f] = repo[f]
            BY <4>2, <1>10
        <5> QED
            BY <4>2, <5>1, <1>1, <1>11
      <4>3. CASE f = "reporting"
        BY <4>3, <1>4, <1>5, <1>10, <1>11 DEF Moot
      <4>4. CASE f \in {"branch", "path", "visibility", "suite"}
        <5>1. E[f] = repo[f]
            BY <3>3, <4>4, <1>2, <1>4, <1>10 DEF Moot
        <5> QED
            BY <4>4, <5>1, <1>1, <1>11
      <4> QED
        BY <3>1, <4>1, <4>2, <4>3, <4>4
    <3> QED
        BY <3>2, <3>3
  <2> QED
    BY <2>2, <2>3
<1> QED
    BY <1>6, <1>7, <1>8, <1>9 DEF p

\* What a behaviour does not change leaves the terms of the invariant as they are.
LEMMA SameTerms ==
    ASSUME UNCHANGED <<config, base, local>>, org'.plan = org.plan, NEW f
    PROVE  /\ Moot(f)' <=> Moot(f)
           /\ UNCHANGED past => (Shown(f)' <=> Shown(f)) /\ (Valid' <=> Valid)
           /\ UNCHANGED <<branches, repo>> => (Agrees(f)' <=> Agrees(f)) /\ (Skipped(f)' <=> Skipped(f))
<1>1. Expected' = Expected /\ TakenForApplied' = TakenForApplied /\ (IsValid(config)' <=> IsValid(config))
    BY SameConfiguration
<1>2. Moot(f)' <=> Moot(f)
    BY <1>1 DEF Moot
<1>3. UNCHANGED past => (Shown(f)' <=> Shown(f)) /\ (Valid' <=> Valid)
    BY <1>1 DEF Shown, Valid, Unhidden, Excepted, Decided
<1>4. UNCHANGED <<branches, repo>> => (Agrees(f)' <=> Agrees(f)) /\ (Skipped(f)' <=> Skipped(f))
    BY <1>1 DEF Agrees, Skipped
<1> QED
    BY <1>2, <1>3, <1>4

\* A run is planned.
LEMMA PlanKeepsSettle == ASSUME AcceptInv, SettleInv, PlanRun PROVE SettleInv'
<1> DEFINE co == IF local THEN base.org ELSE OrgRead
           cr == IF local THEN CoercedRepo(base.org, base.repo) ELSE RepoRead
           p == Patches(co, cr)
<1>1. /\ LiveInv /\ TodoInv /\ CleanInv /\ pc = "idle" /\ pc' = "applying" /\ todo = <<>>
      /\ UNCHANGED <<org, repo, branches, config, base, local>>
      /\ past' = [past EXCEPT !.failed = FALSE, !.before = org, !.unseen = {f \in RepoFields : RepoRead[f] # repo[f]}]
    BY DEF AcceptInv, SettleInv, PlanRun, TodoInv
<1>2. todo' = p
    BY DEF PlanRun
<1>3. /\ ~past'.failed /\ past'.before = org /\ past'.unseen = {f \in RepoFields : RepoRead[f] # repo[f]}
      /\ past'.clean = past.clean /\ DOMAIN past' = DOMAIN past
    BY <1>1 DEF CleanInv
<1>4. \A f : /\ Moot(f)' <=> Moot(f)
             /\ Agrees(f)' <=> Agrees(f)
             /\ Skipped(f)' <=> Skipped(f)
    BY <1>1, SameTerms
<1>5. Expected' = Expected /\ TakenForApplied' = TakenForApplied /\ (IsValid(config)' <=> IsValid(config))
    BY <1>1, SameConfiguration
<1>6. \A f \in {"title", "message", "branch", "path"} : cr[f] # Unset
    BY <1>1, CurrentFacts
<1> HIDE DEF co, cr, p
<1>7. CleanInv'
    BY <1>1, <1>3 DEF CleanInv
<1>8. /\ \A f : Coming("org", f)' <=> Sends(p, "org", f)
      /\ \A f : Coming("repo", f)' <=> Sends(p, "repo", f)
      /\ \A f : Coming("rule", f)' <=> Sends(p, "rule", f)
    BY <1>2 DEF Coming, Sends, InPlan
<1>9. RunInv'
  <2>1. SUFFICES ASSUME Valid'
                 PROVE  /\ \A f \in OrgIncluded(config.org)' \cup {"property"} : OrgHas(f)'
                        /\ \A f \in RepoFields : Shown(f)' => Moot(f)' \/ Has(f)'
                        /\ \/ local \/ Moot("dismissal") \/ repo.dismissal # "off" \/ Expected.dismissal = "off"
                           \/ Coming("rule", "dismissal")'
    BY <1>1, <1>4, <1>5 DEF RunInv
  <2>2. IsValid(config)
    BY <2>1, <1>5 DEF Valid
  <2>3. \A f \in OrgIncluded(config.org) \cup {"property"} : OrgHas(f)'
    <3>1. \A f \in OrgIncluded(config.org) \cup {"property"} :
               \/ org[f] = config.org[f]
               \/ Sends(p, "org", f)
               \/ f = "configs" /\ config.org.configs = "off"
        BY <1>1, <1>6, <2>2, OrgIsPlanned DEF co, p
    <3> QED
        BY <3>1, <1>1, <1>8 DEF OrgHas
  <2>4. ASSUME NEW f \in RepoFields, Shown(f)', ~Moot(f)
        PROVE  Agrees(f) \/ Sends(p, "repo", f) \/ Sends(p, "rule", f)
    <3>1. CASE f \in RepoFlow
      <4>1. /\ Admits(org)
            /\ f \in {"allowed", "patterns"} => Level(config.repo.allowed) > Level(org.allowed)
            /\ f = "permissions" => org.permissions # "read"
            /\ f = "approve" => org.approve # "off"
            /\ f = "policy" => "policy" \notin past'.unseen \cup TakenForApplied
        <5>1. Unhidden(past.before, f)'
            BY <2>4, <3>1 DEF Shown
        <5> QED
            BY <5>1, <1>1, <1>3, <1>5 DEF Unhidden, Admits, Level
      <4>2. f = "policy" => RepoRead.policy = repo.policy /\ "policy" \notin TakenForApplied
        BY <4>1, <1>3
      <4> QED
        BY <3>1, <4>1, <4>2, <2>4, <1>1, FlowIsPlanned DEF co, cr, p
    <3>2. CASE f \notin RepoFlow
      <4>1. f \in Masks \/ f \notin Excepted'
        BY <2>4, <3>2 DEF Shown
      <4>2. Excepted' = (Decided(org) \ {"signoff"}) \cup (past'.unseen \ (RepoFlow \ {"policy"})) \cup TakenForApplied
        <5>1. Decided(past.before)' = Decided(org)
            BY <1>1, <1>3 DEF Decided
        <5> QED
            BY <5>1, <1>5 DEF Excepted
      <4>3. \/ f \in Masks
            \/ f \notin Decided(org) \ {"signoff"} /\ RepoRead[f] = repo[f] /\ f \notin TakenForApplied
        BY <4>1, <4>2, <3>2, <1>3
      <4> QED
        BY <4>3, <3>2, <2>4, <1>1, RestIsPlanned DEF co, cr, p
    <3> QED
        BY <3>1, <3>2
  <2>5. \A f \in RepoFields : Shown(f)' => Moot(f)' \/ Has(f)'
    BY <2>4, <1>4, <1>8 DEF Has
  <2>6. \/ local \/ Moot("dismissal") \/ repo.dismissal # "off" \/ Expected.dismissal = "off"
        \/ Coming("rule", "dismissal")'
    BY <1>1, <1>8, DismissalIsPlanned DEF co, cr, p
  <2> QED
    BY <2>3, <2>5, <2>6, <1>1
<1>10. TwiceInv'
  <2>1. SUFFICES ASSUME Valid', past.clean >= 1 PROVE \A f \in RepoFields : Moot(f)' \/ Has(f)'
    BY <1>1, <1>3 DEF TwiceInv
  <2>2. Valid /\ ~local /\ IsValid(config)
    BY <2>1, <1>1, <1>5 DEF Valid, CleanInv
  <2>3. \A at, f : ~Coming(at, f)
    BY <1>1 DEF Coming, Sends, InPlan
  <2>4. /\ \A f \in OrgIncluded(config.org) \cup {"property"} : OrgHas(f)
        /\ \A f \in RepoFields : Shown(f) => Moot(f) \/ Has(f)
        /\ Moot("dismissal") \/ repo.dismissal # "off" \/ Expected.dismissal = "off"
    BY <2>1, <2>2, <2>3 DEF SettleInv, RunInv
  <2>5. \A f \in OrgIncluded(config.org) \cup {"property"} :
            org[f] = config.org[f] \/ (f = "configs" /\ config.org.configs = "off")
    BY <2>3, <2>4 DEF OrgHas
  <2>6. \A f \in Masks : Agrees(f) \/ Skipped(f)
    <3>1. SUFFICES ASSUME NEW f \in Masks PROVE Agrees(f) \/ Skipped(f)
        OBVIOUS
    <3>2. f \in RepoFields /\ f \notin RepoFlow
        BY Fields DEF Masks, RuleFields
    <3>3. \A r : f \notin Ignored(r)
        BY DEF Ignored, Masks
    <3>4. ~Moot(f)
        BY <3>2, <3>3, Fields DEF Moot, Masks
    <3> QED
        BY <3>2, <3>4, <2>3, <2>4 DEF Shown, Has
  <2>7. \A f \in RepoFields : ~Moot(f) => Agrees(f) \/ Skipped(f) \/ Sends(p, "repo", f) \/ Sends(p, "rule", f)
    BY <2>2, <2>4, <2>5, <2>6, <1>1, SecondPlan DEF co, cr, p
  <2> QED
    BY <2>7, <1>4, <1>8 DEF Has
<1> QED
    BY <1>7, <1>9, <1>10 DEF SettleInv

\* A request was sent, and what it carries is done; what was done before stays.
LEMMA SentKeepsSettle ==
    ASSUME AcceptInv, SettleInv, Sent, org'.plan = org.plan,
           \A f \in OrgIncluded(config.org) \cup {"property"} :
               org'[f] = IF Now.at = "org" /\ f \in DOMAIN Now.data THEN config.org[f] ELSE org[f],
           IsValid(config) =>
               \A f \in RepoFields : ~Moot(f) =>
                   /\ Skipped(f) => Skipped(f)'
                   /\ Now.at # "org" /\ f \in DOMAIN Now.data => Agrees(f)' \/ Skipped(f)'
                   /\ ~(Now.at # "org" /\ f \in DOMAIN Now.data) /\ Agrees(f) => Agrees(f)',
           repo'.dismissal = repo.dismissal \/ repo'.dismissal = Expected.dismissal,
           Now.at = "rule" /\ "dismissal" \in DOMAIN Now.data => repo'.dismissal = Expected.dismissal
    PROVE  SettleInv'
<1>1. /\ TodoInv /\ pc = "applying" /\ todo # <<>> /\ Advance /\ RunInv /\ TwiceInv /\ CleanInv
      /\ UNCHANGED <<config, base, local, pc, times, past>>
    BY DEF AcceptInv, SettleInv, Sent, Sending
<1>2. \A q : IsPending(q) /\ q # Now => IsPending(q)'
    BY <1>1, AdvanceFacts
<1>3. /\ \A f : (Moot(f)' <=> Moot(f)) /\ (Shown(f)' <=> Shown(f))
      /\ Valid' <=> Valid
      /\ Expected' = Expected
    BY <1>1, SameTerms, SameConfiguration
<1>4. ASSUME NEW at, NEW f, Coming(at, f), ~(Now.at = at /\ f \in DOMAIN Now.data) PROVE Coming(at, f)'
  <2>1. PICK q : IsPending(q) /\ q.at = at /\ f \in DOMAIN q.data
    BY <1>4 DEF Coming, Sends, IsPending
  <2>2. IsPending(q)'
    BY <2>1, <1>2, <1>4
  <2> QED
    BY <2>1, <2>2 DEF Coming, Sends, IsPending
<1>5. ASSUME NEW f \in OrgIncluded(config.org) \cup {"property"}, OrgHas(f) PROVE OrgHas(f)'
  <2>1. org'[f] = config.org[f] \/ Coming("org", f)' \/ (f = "configs" /\ config.org.configs = "off")
    BY <1>4, <1>5 DEF OrgHas
  <2> QED
    BY <2>1, <1>1 DEF OrgHas
<1>6. ASSUME NEW f \in RepoFields, IsValid(config), ~Moot(f), Has(f) PROVE Has(f)'
  <2>1. CASE Now.at # "org" /\ f \in DOMAIN Now.data
    BY <2>1, <1>6 DEF Has
  <2>2. CASE ~(Now.at # "org" /\ f \in DOMAIN Now.data)
    <3>1. Coming("repo", f) => Coming("repo", f)'
        BY <2>2, <1>4
    <3>2. Coming("rule", f) => Coming("rule", f)'
        BY <2>2, <1>4
    <3> QED
        BY <2>2, <3>1, <3>2, <1>6 DEF Has
  <2> QED
    BY <2>1, <2>2
<1>7. RunInv'
  <2>1. SUFFICES ASSUME Valid
                 PROVE  /\ \A f \in OrgIncluded(config.org) \cup {"property"} : OrgHas(f)'
                        /\ \A f \in RepoFields : Shown(f)' => Moot(f)' \/ Has(f)'
                        /\ \/ local \/ Moot("dismissal") \/ repo'.dismissal # "off" \/ Expected.dismissal = "off"
                           \/ Coming("rule", "dismissal")'
    BY <1>1, <1>3 DEF RunInv
  <2>2. /\ \A f \in OrgIncluded(config.org) \cup {"property"} : OrgHas(f)
        /\ \A f \in RepoFields : Shown(f) => Moot(f) \/ Has(f)
        /\ \/ local \/ Moot("dismissal") \/ repo.dismissal # "off" \/ Expected.dismissal = "off"
           \/ Coming("rule", "dismissal")
    BY <2>1, <1>1 DEF RunInv
  <2>3. \A f \in RepoFields : Shown(f)' => Moot(f)' \/ Has(f)'
    BY <2>1, <2>2, <1>3, <1>6 DEF Valid
  <2>4. \/ local \/ Moot("dismissal") \/ repo'.dismissal # "off" \/ Expected.dismissal = "off"
        \/ Coming("rule", "dismissal")'
    BY <2>2, <1>4
  <2> QED
    BY <2>2, <2>3, <2>4, <1>5
<1>8. TwiceInv'
  <2>1. SUFFICES ASSUME Valid, past.clean >= 1 PROVE \A f \in RepoFields : Moot(f)' \/ Has(f)'
    BY <1>1, <1>3 DEF TwiceInv
  <2>2. \A f \in RepoFields : Moot(f) \/ Has(f)
    BY <2>1, <1>1 DEF TwiceInv
  <2> QED
    BY <2>1, <2>2, <1>3, <1>6 DEF Valid
<1>9. CleanInv'
    BY <1>1 DEF CleanInv
<1> QED
    BY <1>7, <1>8, <1>9 DEF SettleInv

\* A request for the organization was.
LEMMA OrgKeepsSettle ==
    ASSUME AcceptInv, SettleInv, UpdateOrg \/ UpdateProperty
    PROVE  SettleInv'
<1>1. Sent /\ LiveInv /\ TodoInv /\ todo # <<>> /\ UNCHANGED <<repo, branches, config, base, local>>
    BY DEF AcceptInv, UpdateOrg, UpdateProperty, Sent, Sending
<1>2. Fits(Now) /\ DOMAIN org = OrgFields \cup {"plan", "property"}
    BY <1>1, NowFacts DEF LiveInv, IsSettings
<1>3. Now.at = "org" /\ \A f \in DOMAIN org : org'[f] = IF f \in DOMAIN Now.data THEN Now.data[f] ELSE org[f]
  <2>1. CASE UpdateOrg
    BY <2>1 DEF UpdateOrg
  <2>2. CASE UpdateProperty
    <3>1. Now.op = "property" /\ org' = [org EXCEPT !.property = Now.data.property]
        BY <2>2 DEF UpdateProperty
    <3>2. Now.at = "org" /\ DOMAIN Now.data = {"property"}
        BY <3>1, <1>2 DEF Fits, Carries
    <3> QED
        BY <3>1, <3>2
  <2> QED
    BY <2>1, <2>2
<1>4. /\ \A f \in DOMAIN Now.data : Now.data[f] = config.org[f] /\ f \in OrgIncluded(config.org) \cup {"property"}
      /\ OrgIncluded(config.org) \subseteq OrgFields /\ "plan" \notin OrgFields
    BY <1>2, <1>3 DEF Fits, Want, Included, OrgIncluded, OrgFields, OrgRest, OrgWeb, OrgFlow
<1>5. /\ org'.plan = org.plan
      /\ \A f \in OrgIncluded(config.org) \cup {"property"} :
             org'[f] = IF Now.at = "org" /\ f \in DOMAIN Now.data THEN config.org[f] ELSE org[f]
    BY <1>2, <1>3, <1>4
<1>6. \A f : (Agrees(f)' <=> Agrees(f)) /\ (Skipped(f)' <=> Skipped(f))
    BY <1>1, <1>5, SameTerms
<1> QED
    BY <1>1, <1>3, <1>5, <1>6, SentKeepsSettle

\* The number of reviews that a valid configuration asks for is one.
LEMMA CountIsGiven ==
    ASSUME IsConfiguration(config), IsValid(config), ~Moot("count")
    PROVE  Expected.count # "none"
<1> DEFINE c == CoercedRepo(config.org, config.repo)
<1>1. DOMAIN config.repo = RepoFields /\ RuleErrors(c) = {}
    BY DEF IsConfiguration, IsSettings, IsValid, Errors, RepositoryErrors
<1>2. \A f \in RuleFields : f \in RepoFields /\ f \notin {"projects", "signoff", "visibility", "properties", "discussions"}
    BY Fields
<1>3. \A f \in RuleFields : c[f] = config.repo[f]
    BY <1>1, <1>2 DEF CoercedRepo
<1> HIDE DEF c
<1>4. {"count", "reviews"} \subseteq RuleFields
    BY DEF RuleFields
<1>5. "count" \notin Ignored(config.repo)
    BY DEF Moot
<1>6. "count" \notin Ignored(c)
    BY <1>3, <1>4, <1>5 DEF Ignored
<1>7. c.count # "none"
    BY <1>1, <1>6 DEF RuleErrors
<1> QED
    BY <1>3, <1>4, <1>7, ExpectedValues

\* A request for the repository or its rule was sent: it wrote what it carries, or the
\* repository is empty.
LEMMA RepoKeepsSettle ==
    ASSUME AcceptInv, SettleInv, Sent, Now.at # "org", UNCHANGED org, branches = {} => branches' = {},
           IsValid(config) =>
               \A f \in RepoFields : ~Moot(f) =>
                   \/ repo'[f] = IF f \in DOMAIN Now.data THEN Expected[f] ELSE repo[f]
                   \/ f \notin DOMAIN Now.data /\ ~Agrees(f)
                   \/ Skipped(f) /\ repo'[f] = repo[f],
           repo'.dismissal = repo.dismissal \/ repo'.dismissal = Expected.dismissal,
           Now.at = "rule" /\ "dismissal" \in DOMAIN Now.data => repo'.dismissal = Expected.dismissal
    PROVE  SettleInv'
<1>1. /\ LiveInv /\ TodoInv /\ todo # <<>> /\ UNCHANGED <<config, base, local>> /\ Expected' = Expected
    BY SameConfiguration DEF AcceptInv, Sent, Sending
<1>2. \A f : /\ Skipped(f) => Skipped(f)'
             /\ repo'[f] = repo[f] /\ Agrees(f) => Agrees(f)'
             /\ repo'[f] = Expected[f] => Agrees(f)'
    BY <1>1 DEF Skipped, Agrees
<1>3. IsValid(config) =>
          \A f \in RepoFields : ~Moot(f) =>
              /\ Skipped(f) => Skipped(f)'
              /\ Now.at # "org" /\ f \in DOMAIN Now.data => Agrees(f)' \/ Skipped(f)'
              /\ ~(Now.at # "org" /\ f \in DOMAIN Now.data) /\ Agrees(f) => Agrees(f)'
    BY <1>2
<1>4. /\ \A f \in OrgIncluded(config.org) \cup {"property"} :
             org'[f] = IF Now.at = "org" /\ f \in DOMAIN Now.data THEN config.org[f] ELSE org[f]
      /\ org'.plan = org.plan
    OBVIOUS
<1> QED
    BY <1>3, <1>4, SentKeepsSettle

\* Its settings are written.
LEMMA WriteKeepsSettle ==
    ASSUME AcceptInv, SettleInv, Sent, Now.at = "repo", UNCHANGED org, branches = {} => branches' = {},
           \/ repo' = After(Now)
           \/ repo' = repo /\ \A f \in DOMAIN Now.data : Skipped(f)
    PROVE  SettleInv'
<1>1. LiveInv /\ TodoInv /\ todo # <<>>
    BY DEF AcceptInv, Sent, Sending
<1>2. Fits(Now) /\ DOMAIN repo = RepoFields
    BY <1>1, NowFacts DEF LiveInv, IsSettings
<1>3. \A f \in RepoFields :
          \/ repo'[f] = IF f \in DOMAIN Now.data THEN Expected[f] ELSE repo[f]
          \/ Skipped(f) /\ repo'[f] = repo[f]
  <2>1. CASE repo' = After(Now)
    BY <2>1, <1>1, <1>2, AfterFacts
  <2>2. CASE repo' = repo /\ \A f \in DOMAIN Now.data : Skipped(f)
    BY <2>2
  <2> QED
    BY <2>1, <2>2
<1>4. "dismissal" \in RepoFields
    BY Fields DEF RuleFields
<1>5. repo'.dismissal = repo.dismissal \/ repo'.dismissal = Expected.dismissal
    BY <1>3, <1>4
<1> QED
    BY <1>3, <1>5, RepoKeepsSettle

\* Any of its settings but those of a rule.
LEMMA UpdatesKeepSettle ==
    ASSUME AcceptInv, SettleInv, UpdateRepo \/ UpdateScanning \/ UpdatePages \/ UpdateDefaultBranch
    PROVE  SettleInv'
<1>1. LiveInv /\ TodoInv /\ todo # <<>> /\ Sent /\ UNCHANGED org
    BY DEF AcceptInv, UpdateRepo, UpdateScanning, UpdatePages, UpdateDefaultBranch, Sent, Sending
<1>2. Fits(Now)
    BY <1>1, NowFacts
<1>3. Now.op \in {"scanning", "pages", "default"} => Now.at = "repo" /\ DOMAIN Now.data \subseteq Carries("repo", Now.op)
  <2>1. Now.op \in {"scanning", "pages", "default"} => Now.at \in {"org", "repo"}
    BY <1>2 DEF Fits
  <2>2. SUFFICES ASSUME Now.op \in {"scanning", "pages", "default"}, Now.at = "org" PROVE FALSE
    BY <2>1, <1>2 DEF Fits
  <2>3. PICK f : f \in DOMAIN Now.data /\ f \in Pages \cup Scan \cup {"default"} /\ f \in OrgIncluded(config.org) \cup {"property"}
    BY <2>2, <1>2 DEF Fits, Carries, Included
  <2> QED
    BY <2>3 DEF OrgIncluded, OrgFields, OrgRest, OrgWeb, OrgFlow, Pages, Scan
<1>4. CASE UpdateRepo \/ UpdateScanning
  <2>1. Now.at = "repo" /\ repo' = After(Now) /\ UNCHANGED branches
    BY <1>3, <1>4 DEF UpdateRepo, UpdateScanning
  <2> QED
    BY <2>1, <1>1, WriteKeepsSettle
<1>5. CASE UpdatePages
  <2>1. /\ Now.op = "pages" /\ UNCHANGED branches
        /\ \/ repo' = After(Now)
           \/ repo' = repo /\ branches = {}
    BY <1>5 DEF UpdatePages
  <2>2. branches = {} => \A f \in DOMAIN Now.data : Skipped(f)
    BY <2>1, <1>3 DEF Carries, Skipped
  <2> QED
    BY <2>1, <2>2, <1>1, <1>3, WriteKeepsSettle
<1>6. CASE UpdateDefaultBranch
  <2>1. /\ Now.op = "default" /\ (branches = {} => branches' = {})
        /\ \/ repo' = After(Now)
           \/ repo' = repo /\ branches = {}
    BY <1>6 DEF UpdateDefaultBranch
  <2>2. branches = {} => \A f \in DOMAIN Now.data : Skipped(f)
    BY <2>1, <1>3 DEF Carries, Skipped
  <2> QED
    BY <2>1, <2>2, <1>1, <1>3, WriteKeepsSettle
<1> QED
    BY <1>4, <1>5, <1>6

\* The rule is: a number that GitHub puts in was not as configured before.
LEMMA RuleKeepsSettle == ASSUME AcceptInv, SettleInv, UpdateRule PROVE SettleInv'
<1>1. /\ LiveInv /\ TodoInv /\ todo # <<>> /\ Sent /\ UNCHANGED <<org, branches>> /\ Now.at = "rule"
      /\ repo' = RuleAfter(Now)
    BY DEF AcceptInv, UpdateRule, Sent, Sending
<1>2. Fits(Now) /\ DOMAIN repo = RepoFields /\ IsConfiguration(config)
    BY <1>1, NowFacts DEF LiveInv, IsSettings
<1> DEFINE n == After(Now)
<1>3. DOMAIN n = RepoFields /\ \A f \in RepoFields : n[f] = IF f \in DOMAIN Now.data THEN Expected[f] ELSE repo[f]
    BY <1>1, <1>2, AfterFacts
<1>4. repo' = [n EXCEPT !.count = IF n.reviews = "on" /\ @ = "none" THEN "usual" ELSE @]
    BY <1>1 DEF RuleAfter
<1> HIDE DEF n
<1>5. \A f \in RepoFields : f # "count" => repo'[f] = IF f \in DOMAIN Now.data THEN Expected[f] ELSE repo[f]
    BY <1>3, <1>4
<1>6. "count" \in RepoFields /\ "dismissal" \in RepoFields
    BY Fields DEF RuleFields
<1>7. repo'.count = n.count \/ n.count = "none"
    BY <1>3, <1>4, <1>6
<1>8. IsValid(config) /\ ~Moot("count") =>
          \/ repo'.count = IF "count" \in DOMAIN Now.data THEN Expected.count ELSE repo.count
          \/ "count" \notin DOMAIN Now.data /\ ~Agrees("count")
    BY <1>2, <1>3, <1>6, <1>7, CountIsGiven DEF Agrees
<1>9. IsValid(config) =>
          \A f \in RepoFields : ~Moot(f) =>
              \/ repo'[f] = IF f \in DOMAIN Now.data THEN Expected[f] ELSE repo[f]
              \/ f \notin DOMAIN Now.data /\ ~Agrees(f)
              \/ Skipped(f) /\ repo'[f] = repo[f]
    BY <1>5, <1>8
<1>10. /\ repo'.dismissal = repo.dismissal \/ repo'.dismissal = Expected.dismissal
       /\ "dismissal" \in DOMAIN Now.data => repo'.dismissal = Expected.dismissal
    BY <1>5, <1>6
<1> QED
    BY <1>1, <1>9, <1>10, RepoKeepsSettle

\* A request fails, or a run ends or is followed by another.
LEMMA RestKeepsSettle ==
    ASSUME AcceptInv, SettleInv, Refuse \/ Overlook \/ GoesWrong \/ Finish \/ Again
    PROVE  SettleInv'
<1>1. LiveInv /\ TodoInv /\ CleanInv /\ UNCHANGED <<org, repo, branches, config, base, local>>
    BY DEF AcceptInv, SettleInv, Refuse, Overlook, GoesWrong, Finish, Again
<1>2. /\ \A f : (Moot(f)' <=> Moot(f)) /\ (Agrees(f)' <=> Agrees(f)) /\ (Skipped(f)' <=> Skipped(f))
      /\ Expected' = Expected /\ (IsValid(config)' <=> IsValid(config)) /\ TakenForApplied' = TakenForApplied
    BY <1>1, SameTerms, SameConfiguration
<1>3. CASE Refuse \/ GoesWrong
  <2>1. pc = "applying" /\ pc' = pc /\ past'.failed /\ past'.clean = past.clean /\ DOMAIN past' = DOMAIN past
    BY <1>1, <1>3 DEF Refuse, GoesWrong, Sending, CleanInv
  <2>2. ~Valid'
    BY <2>1 DEF Valid
  <2> QED
    BY <2>1, <2>2, <1>1 DEF SettleInv, CleanInv, RunInv, TwiceInv
<1>4. CASE Overlook
  <2>1. /\ pc = "applying" /\ pc' = pc /\ todo # <<>> /\ ~Accepted(Now) /\ Now.at = "rule"
        /\ past'.failed = past.failed /\ past'.clean = past.clean /\ DOMAIN past' = DOMAIN past
    BY <1>1, <1>4 DEF Overlook, Sending, CleanInv
  <2>2. Malformed(Now) /\ Fits(Now)
    BY <2>1, <1>1, NowFacts DEF Accepted
  <2>3. ~IsValid(config)
    BY <2>2, <1>1, NothingIsMalformed
  <2> QED
    BY <2>1, <2>3, <1>1, <1>2 DEF SettleInv, CleanInv, RunInv, TwiceInv, Valid
<1>5. CASE Finish \/ Again
  <2>1. /\ todo' = todo
        /\ past'.failed = past.failed /\ past'.before = past.before /\ past'.unseen = past.unseen
        /\ DOMAIN past' = DOMAIN past
        /\ \/ /\ pc = "applying" /\ pc' = "done"
              /\ past'.clean = IF past.failed THEN 0 ELSE past.clean + 1
           \/ pc = "done" /\ ~local /\ pc' = "idle" /\ past'.clean = past.clean
    BY <1>1, <1>5 DEF Finish, Again, CleanInv
  <2>2. CleanInv'
    BY <2>1, <1>1 DEF CleanInv
  <2>3. /\ \A f : (Shown(f)' <=> Shown(f)) /\ (Has(f)' <=> Has(f)) /\ (OrgHas(f)' <=> OrgHas(f))
        /\ \A at, f : Coming(at, f)' <=> Coming(at, f)
        /\ Valid' <=> Valid
    <3>1. \A at, f : Coming(at, f)' <=> Coming(at, f)
        BY <2>1 DEF Coming, Sends, InPlan
    <3>2. Excepted' = Excepted
        BY <2>1, <1>1, <1>2 DEF Excepted, Decided
    <3>3. \A f : Shown(f)' <=> Shown(f)
        BY <3>2, <2>1, <1>1, <1>2 DEF Shown, Unhidden
    <3> QED
        BY <3>1, <3>3, <2>1, <1>1, <1>2 DEF Has, OrgHas, Valid
  <2>4. RunInv'
    <3>1. SUFFICES ASSUME Valid, pc' # "idle" \/ past'.clean >= 1
                   PROVE  /\ \A f \in OrgIncluded(config.org) \cup {"property"} : OrgHas(f)
                          /\ \A f \in RepoFields : Shown(f) => Moot(f) \/ Has(f)
                          /\ \/ local \/ Moot("dismissal") \/ repo.dismissal # "off" \/ Expected.dismissal = "off"
                             \/ Coming("rule", "dismissal")
        BY <2>3, <1>1, <1>2 DEF RunInv
    <3> QED
        BY <3>1, <2>1 DEF SettleInv, RunInv
  <2>5. TwiceInv'
    <3>1. SUFFICES ASSUME Valid, past'.clean >= 2 PROVE \A f \in RepoFields : Moot(f) \/ Has(f)
        BY <2>1, <2>3, <1>2 DEF TwiceInv
    <3>2. IF pc = "applying" THEN past.clean >= 1 ELSE past.clean >= 2
        BY <3>1, <2>1, <1>1 DEF Valid, CleanInv
    <3> QED
        BY <3>1, <3>2 DEF SettleInv, TwiceInv
  <2> QED
    BY <2>2, <2>4, <2>5 DEF SettleInv
<1> QED
    BY <1>3, <1>4, <1>5

\* What runs without failures bring about, one or two in a row: for every setting, whatever
\* failed runs before them have left behind.
THEOREM SettleInvariance == SetSpec => [](AcceptInv /\ SettleInv)
<1>1. SetInit => SettleInv
    BY DEF SetInit, SettleInv, CleanInv, RunInv, TwiceInv
<1>2. ASSUME AcceptInv, SettleInv, [SetNext]_setVars PROVE SettleInv'
  <2>1. CASE PlanRun
    BY <1>2, <2>1, PlanKeepsSettle
  <2>2. CASE UpdateOrg \/ UpdateProperty
    BY <1>2, <2>2, OrgKeepsSettle
  <2>3. CASE UpdateRepo \/ UpdateScanning \/ UpdatePages \/ UpdateDefaultBranch
    BY <1>2, <2>3, UpdatesKeepSettle
  <2>4. CASE UpdateRule
    BY <1>2, <2>4, RuleKeepsSettle
  <2>5. CASE Refuse \/ Overlook \/ GoesWrong \/ Finish \/ Again
    BY <1>2, <2>5, RestKeepsSettle
  <2>6. CASE UNCHANGED setVars
    <3>1. UNCHANGED <<org, repo, branches, config, base, local, pc, todo, past>>
        BY <2>6 DEF setVars
    <3>2. /\ \A f : (Moot(f)' <=> Moot(f)) /\ (Shown(f)' <=> Shown(f)) /\ (Agrees(f)' <=> Agrees(f)) /\ (Skipped(f)' <=> Skipped(f))
          /\ Valid' <=> Valid
          /\ Expected' = Expected
        BY <3>1, SameTerms, SameConfiguration
    <3>3. \A at, f : Coming(at, f)' <=> Coming(at, f)
        BY <3>1 DEF Coming, Sends, InPlan
    <3>4. \A f : (Has(f)' <=> Has(f)) /\ (OrgHas(f)' <=> OrgHas(f))
        BY <3>1, <3>2, <3>3 DEF Has, OrgHas
    <3>5. RunInv'
        BY <1>2, <3>1, <3>2, <3>3, <3>4 DEF SettleInv, RunInv
    <3> QED
        BY <1>2, <3>1, <3>2, <3>4, <3>5 DEF SettleInv, CleanInv, TwiceInv
  <2> QED
    BY <1>2, <2>1, <2>2, <2>3, <2>4, <2>5, <2>6 DEF SetNext
<1> QED
    BY AcceptInvariance, <1>1, <1>2, PTL DEF SetSpec

\* When such a run has ended nothing is left to send.
LEMMA NothingIsLeft ==
    ASSUME AcceptInv, SettleInv, pc = "done", Valid
    PROVE  /\ IsSettings([org |-> org, repo |-> repo]) /\ IsConfiguration(config) /\ IsValid(config)
           /\ \A f \in OrgIncluded(config.org) \cup {"property"} :
                  org[f] = config.org[f] \/ (f = "configs" /\ config.org.configs = "off")
           /\ \A f \in RepoFields : Shown(f) => Moot(f) \/ Agrees(f) \/ Skipped(f)
           /\ past.clean >= 2 => \A f \in RepoFields : Moot(f) \/ Agrees(f) \/ Skipped(f)
           /\ \A f \in Masks : Agrees(f) \/ Skipped(f)
<1>1. \A at, f : ~Coming(at, f)
    BY DEF AcceptInv, TodoInv, Coming, Sends, InPlan
<1>2. /\ \A f \in OrgIncluded(config.org) \cup {"property"} : OrgHas(f)
      /\ \A f \in RepoFields : Shown(f) => Moot(f) \/ Has(f)
      /\ past.clean >= 2 => \A f \in RepoFields : Moot(f) \/ Has(f)
    BY DEF SettleInv, RunInv, TwiceInv
<1>3. ASSUME NEW f \in Masks PROVE f \in RepoFields /\ Shown(f) /\ ~Moot(f)
  <2>1. f \in RepoFields /\ f \notin RepoFlow
    BY Fields DEF Masks, RuleFields
  <2>2. \A r : f \notin Ignored(r)
    BY DEF Ignored, Masks
  <2> QED
    BY <2>1, <2>2, Fields DEF Moot, Masks, Shown
<1> QED
    BY <1>1, <1>2, <1>3 DEF AcceptInv, LiveInv, OrgHas, Has, Valid

\* SettlesAtOnce, for every setting: a run in which nothing fails settles all that it was shown.
THEOREM RunSettles == SetSpec => []SettlesAtOnce
<1>1. ASSUME AcceptInv, SettleInv PROVE SettlesAtOnce
  <2>1. SUFFICES ASSUME pc = "done", ~past.failed, IsValid(config)
                 PROVE  OrgSettled /\ \A f \in RepoFields \ Excepted : RepoSettled(f)
    BY DEF SettlesAtOnce
  <2>2. /\ IsSettings([org |-> org, repo |-> repo]) /\ IsConfiguration(config)
        /\ \A f \in OrgIncluded(config.org) \cup {"property"} :
               org[f] = config.org[f] \/ (f = "configs" /\ config.org.configs = "off")
        /\ \A f \in RepoFields : Shown(f) => Moot(f) \/ Agrees(f) \/ Skipped(f)
        /\ \A f \in Masks : Agrees(f) \/ Skipped(f)
    BY <1>1, <2>1, NothingIsLeft DEF Valid
  <2>3. OrgSettled
    BY <2>1, <2>2, OrgIsSettled
  <2>4. \A g \in {"private", "build", "setup"} : Agrees(g) \/ Skipped(g)
    BY <2>2 DEF Masks
  <2>5. ASSUME NEW f \in RepoFields \ Excepted PROVE RepoSettled(f)
    <3>1. CASE f \notin RepoFlow
      <4>1. Moot(f) \/ Agrees(f) \/ Skipped(f)
        BY <3>1, <2>2, <2>5 DEF Shown
      <4>2. f # "patterns"
        BY <3>1, Fields
      <4> QED
        BY <4>1, <4>2, <3>1, <2>1, <2>2, <2>4, RepoIsSettled
    <3>2. CASE f \in RepoFlow /\ f \in {"allowed", "patterns"} /\ Restricts(config.org, config.repo.allowed)
        BY <3>2 DEF RepoSettled
    <3>3. CASE f \in RepoFlow /\ ~(f \in {"allowed", "patterns"} /\ Restricts(config.org, config.repo.allowed))
      <4> DEFINE o == past.before
      <4>1. /\ f \notin Decided(o)
            /\ f = "policy" => "policy" \notin past.unseen \cup TakenForApplied
        <5>1. f # "signoff"
            BY <3>3, Fields
        <5> QED
            BY <2>5, <5>1 DEF Excepted
      <4>2. /\ Admits(o)
            /\ f \in {"allowed", "patterns"} => o.allowed = "all"
            /\ f = "permissions" => o.permissions # "read"
            /\ f = "approve" => o.approve # "off"
        BY <3>3, <4>1, <2>5 DEF Decided
      <4>3. f \in {"allowed", "patterns"} => Level(config.repo.allowed) > Level(o.allowed)
        <5>1. SUFFICES ASSUME f \in {"allowed", "patterns"} PROVE Level(config.repo.allowed) > Level("all")
            BY <4>2
        <5>2. config.org.allowed \in Levels
          <6>1. config.org.allowed \in Levels \cup {"malformed"} /\ "allowed" \in DOMAIN config.org
            BY <2>2 DEF IsConfiguration, IsSettings, OrgFields, OrgFlow
          <6>2. config.org.allowed # "malformed"
            BY <6>1, <2>1, <2>2, ValidFacts
          <6> QED
            BY <6>1, <6>2
        <5>3. ~(Level(config.org.allowed) >= Level(config.repo.allowed))
            BY <3>3, <5>1 DEF Restricts
        <5> QED
            BY <5>2, <5>3 DEF Levels, Level
      <4>4. Shown(f) /\ Shown("enabled") /\ (f = "patterns" => Shown("allowed"))
        BY <3>3, <4>1, <4>2, <4>3, Fields DEF Shown, Unhidden
      <4>5. {"enabled", "allowed"} \subseteq RepoFields /\ \A g \in {"enabled", "allowed"} : ~Skipped(g)
        BY Fields DEF Skipped
      <4> QED
        BY <4>4, <4>5, <3>3, <2>1, <2>2, <2>4, RepoIsSettled
    <3> QED
        BY <3>1, <3>2, <3>3
  <2> QED
    BY <2>3, <2>5
<1> QED
    BY SettleInvariance, <1>1, PTL

\* SettlesInTwo, for every setting: the second such run in a row leaves no exception.
THEOREM TwoRunsSettle == SetSpec => []SettlesInTwo
<1>1. ASSUME AcceptInv, SettleInv PROVE SettlesInTwo
  <2>1. SUFFICES ASSUME pc = "done", past.clean >= 2, IsValid(config)
                 PROVE  OrgSettled /\ \A f \in RepoFields : RepoSettled(f)
    BY DEF SettlesInTwo
  <2>2. Valid
    BY <1>1, <2>1 DEF SettleInv, CleanInv, Valid
  <2>3. /\ IsSettings([org |-> org, repo |-> repo]) /\ IsConfiguration(config)
        /\ \A f \in OrgIncluded(config.org) \cup {"property"} :
               org[f] = config.org[f] \/ (f = "configs" /\ config.org.configs = "off")
        /\ \A f \in RepoFields : Moot(f) \/ Agrees(f) \/ Skipped(f)
        /\ \A f \in Masks : Agrees(f) \/ Skipped(f)
    BY <1>1, <2>1, <2>2, NothingIsLeft
  <2>4. \A g \in {"private", "build", "setup"} : Agrees(g) \/ Skipped(g)
    BY <2>3 DEF Masks
  <2>5. {"enabled", "allowed"} \subseteq RepoFields /\ \A g \in {"enabled", "allowed"} : ~Skipped(g)
    BY Fields DEF Skipped
  <2>6. \A f \in RepoFields : RepoSettled(f)
    BY <2>1, <2>3, <2>4, <2>5, RepoIsSettled
  <2> QED
    BY <2>1, <2>3, <2>6, OrgIsSettled
<1> QED
    BY SettleInvariance, <1>1, PTL
=============================================================================
