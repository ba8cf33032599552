---------------- MODULE LocalCopiesAndReferences_proofs ----------------
(***************************************************************************)
(* Proofs about LocalCopies, for any files and contents, any number of     *)
(* operations, and whatever others commit, edit and break meanwhile; and   *)
(* about References, for any teams, users and apps, any situation to start *)
(* in, and whatever fails and others do meanwhile: that nobody is lost     *)
(* between two requests, what is stored, and that two runs in which        *)
(* nothing fails settle what they can.                                     *)
(***************************************************************************)
EXTENDS LocalCopies, References, FiniteSetTheorems, SequenceTheorems, TLAPS

-----------------------------------------------------------------------------
(* The parts of the inductive invariant.                                   *)

\* Which stages an operation goes through.
StageInv ==
    /\ At("fetch") \/ At("write") => op.kind = "fetch"
    /\ At("compare") \/ At("validate") \/ At("approve") => op.kind \in {"review", "open"}
    /\ At("reference") \/ At("branch") \/ At("pull") => op.kind = "open"
    /\ At("read") \/ At("put") => op.kind \in {"push", "review", "open", "delete", "sync"}
    /\ op.kind = "push" => op.target = Config

\* There is no outcome before the end, and only an operation on several files, or on
\* a branch, has done something before it.
WorkInv ==
    /\ Busy => op.result = "none" /\ ~op.lost
    /\ Busy /\ op.kind \notin {"open", "sync"} => op.did = {} /\ op.had = {}
    /\ op.kind # "open" => op.did \subseteq {"put"}
    /\ op.kind = "sync" /\ Busy => op.had \cup op.todo \cup {op.target} = Files

\* What is on the branch for a pull request was put there by the operation: between
\* its steps the branch is left alone.
BranchInv ==
    op.kind = "open" =>
        /\ Busy => IF At("pull") THEN op.did \in {{"branch"}, {"branch", "put"}}
                   ELSE op.did = IF At("read") \/ At("put") THEN {"branch"} ELSE {}
        /\ Busy /\ op.did = {"branch"} => branch = origin

\* What was validated is what is going to be written, if it was not edited.
FileInv ==
    op.kind \in {"review", "open"} =>
        /\ Busy => file = op.content \/ op.edited
        /\ \/ At("approve") \/ At("reference") \/ At("branch")
           \/ At("read") \/ At("put") \/ At("pull")
           => op.content \in Valid \/ op.edited \/ op.blind

IInv == TypeOK /\ StageInv /\ WorkInv /\ BranchInv /\ FileInv /\ ReportedIsTrue /\ ReviewedIsValid
-----------------------------------------------------------------------------
(* The steps that leave the files of the repository alone.                 *)

\* The counters of what is bounded.
LEMMA CountType ==
    ASSUME TypeOK, Changed \/ Faulty
    PROVE  count' \in [runs : Nat, changes : Nat, faults : Nat]
BY DEF TypeOK, Changed, Faulty

\* An operation goes on, or ends.
LEMMA StepFacts ==
    ASSUME NEW stage, NEW result, TypeOK, To(stage) \/ Finish(result)
    PROVE  /\ op'.kind = op.kind /\ op'.target = op.target /\ op'.todo = op.todo
           /\ op'.content = op.content /\ op'.found = op.found /\ op'.from = op.from
           /\ op'.did = op.did /\ op'.had = op.had
           /\ op'.lost = op.lost /\ op'.edited = op.edited /\ op'.blind = op.blind
           /\ To(stage) => op'.stage = stage /\ op'.result = op.result
           /\ Finish(result) => op'.stage = "idle" /\ op'.result = result
BY DEF TypeOK, Operation, To, Finish

\* Commits and edits of others, and the loss of the branch.
LEMMA OthersKeepIInv ==
    ASSUME IInv, \/ \E c \in Contents : Edit(c) \/ \E f \in Files : Commit(f, c)
                 \/ Discard
    PROVE  IInv'
<1>1. ASSUME NEW c \in Contents, Edit(c)
      PROVE  IInv'
  <2>1. op \in Operation /\ op' = [op EXCEPT !.edited = op.edited \/ Busy]
    BY <1>1 DEF Edit, IInv, TypeOK
  <2>2. (op.edited \/ Busy) \in BOOLEAN
    BY DEF Busy
  <2>3. /\ op' \in Operation /\ op'.edited = (op.edited \/ Busy)
        /\ op'.kind = op.kind /\ op'.stage = op.stage /\ op'.target = op.target
        /\ op'.todo = op.todo /\ op'.content = op.content /\ op'.result = op.result
        /\ op'.did = op.did /\ op'.had = op.had /\ op'.lost = op.lost /\ op'.blind = op.blind
    BY <2>1, <2>2 DEF Operation
  <2>4. TypeOK'
    BY <1>1, <2>3 DEF Edit, Changed, RepositoryUnchanged, IInv, TypeOK, Maybe
  <2>5. StageInv' /\ WorkInv' /\ BranchInv' /\ ReportedIsTrue'
    BY <1>1, <2>3
       DEF Edit, RepositoryUnchanged, IInv, StageInv, WorkInv, BranchInv, ReportedIsTrue, At, Busy
  <2>6. FileInv'
    BY <2>3 DEF IInv, FileInv, At, Busy
  <2>7. ReviewedIsValid'
    BY <2>3 DEF IInv, ReviewedIsValid
  <2>8. QED
    BY <2>4, <2>5, <2>6, <2>7 DEF IInv
<1>2. ASSUME NEW f \in Files, NEW c \in Contents, Commit(f, c)
      PROVE  IInv'
  BY <1>2
     DEF Commit, Changed, IInv, TypeOK, StageInv, WorkInv, BranchInv, FileInv,
         ReportedIsTrue, ReviewedIsValid, At, Busy, Maybe
<1>3. CASE Discard
  <2>1. TypeOK'
    BY <1>3, CountType DEF Discard, IInv, TypeOK, Maybe
  <2>2. StageInv' /\ WorkInv' /\ FileInv' /\ ReportedIsTrue' /\ ReviewedIsValid'
    BY <1>3 DEF Discard, IInv, StageInv, WorkInv, FileInv, ReportedIsTrue, ReviewedIsValid, At, Busy
  <2>3. BranchInv'
    BY <1>3 DEF Discard, IInv, BranchInv, At, Busy
  <2>4. QED
    BY <2>1, <2>2, <2>3 DEF IInv
<1>4. QED
  BY <1>1, <1>2, <1>3

\* An operation that ends without having done anything in its last step.
LEMMA FinishKeepsIInv ==
    ASSUME IInv, Busy, UNCHANGED <<main, branch, origin, opened>>, file' \in Maybe,
           count' \in [runs : Nat, changes : Nat, faults : Nat],
           \/ Finish("killed")
           \/ Finish("fetched") /\ op.kind = "fetch"
           \/ Finish("failed")
           \/ Finish("crashed")
           \/ /\ Finish("nothing") /\ op.did = {}
              /\ op.kind \notin {"push", "sync"}
    PROVE  IInv'
<1>1. PICK result \in {"killed", "fetched", "failed", "crashed", "nothing"} :
         /\ Finish(result)
         /\ result = "fetched" => op.kind = "fetch"
         /\ result = "nothing" => op.did = {} /\ op.kind \notin {"push", "sync"}
  OBVIOUS
<1>2. /\ op'.kind = op.kind /\ op'.target = op.target /\ op'.todo = op.todo
      /\ op'.content = op.content /\ op'.did = op.did /\ op'.had = op.had
      /\ op'.lost = op.lost /\ op'.edited = op.edited /\ op'.blind = op.blind
      /\ op'.stage = "idle" /\ op'.result = result
  BY <1>1, StepFacts DEF IInv
<1>3. TypeOK'
  <2>1. op' \in Operation
    BY <1>1 DEF IInv, TypeOK, Operation, Finish
  <2>2. QED
    BY <2>1 DEF IInv, TypeOK
<1>4. StageInv' /\ WorkInv' /\ BranchInv' /\ FileInv'
  BY <1>2 DEF IInv, StageInv, WorkInv, BranchInv, FileInv, At, Busy
<1>5. ReportedIsTrue'
  <2>1. Busy => op.kind \in {"open", "sync"} \/ op.did = {}
    BY DEF IInv, WorkInv
  <2>2. QED
    BY <1>1, <1>2, <2>1 DEF ReportedIsTrue
<1>6. ReviewedIsValid'
  BY <1>2 DEF IInv, ReviewedIsValid
<1>7. QED
  BY <1>3, <1>4, <1>5, <1>6 DEF IInv

\* The beginning of an operation.
LEMMA StartsKeepsIInv ==
    ASSUME IInv, NEW kind, Starts(kind), op'.kind = kind, op' \in Operation,
           op'.result = "none", op'.did = {}, op'.had = {}, ~op'.lost,
           \/ kind = "fetch" /\ op'.stage = "fetch"
           \/ kind = "push" /\ op'.stage = "read" /\ op'.target = Config
           \/ kind \in {"review", "open"} /\ op'.stage = "compare" /\ op'.content = file
           \/ kind = "delete" /\ op'.stage = "read"
           \/ kind = "sync" /\ op'.stage = "read" /\ op'.todo = Files \ {op'.target}
    PROVE  IInv'
<1>1. UNCHANGED <<main, branch, origin, opened, file>>
  BY DEF Starts, RepositoryUnchanged
<1>2. count' \in [runs : Nat, changes : Nat, faults : Nat]
  BY DEF Starts, IInv, TypeOK
<1>3. TypeOK'
  BY <1>1, <1>2 DEF IInv, TypeOK
<1>4. op'.target \in Files /\ op'.todo \subseteq Files
  BY DEF Operation
<1>5. StageInv' /\ WorkInv'
  BY <1>4 DEF StageInv, WorkInv, At, Busy
<1>6. BranchInv' /\ FileInv' /\ ReportedIsTrue' /\ ReviewedIsValid'
  BY <1>1 DEF BranchInv, FileInv, ReportedIsTrue, ReviewedIsValid, At, Busy
<1>7. QED
  BY <1>3, <1>5, <1>6 DEF IInv

\* An operation that ends before it has asked for anything.
LEMMA EarlyEndKeepsIInv ==
    ASSUME IInv, NEW kind \in {"delete", "sync"}, Starts(kind), EndsEarly(kind)
    PROVE  IInv'
<1>1. PICK result \in {"skipped", "failed"} : op' = [NoOp EXCEPT !.kind = kind, !.result = result]
  BY DEF EndsEarly
<1>2. /\ op' \in Operation /\ op'.kind = kind /\ op'.stage = "idle" /\ op'.result = result
      /\ op'.did = {} /\ op'.had = {} /\ ~op'.lost
  <2>1. NoOp \in Operation
    BY FilesAssumption DEF NoOp, Operation, Maybe
  <2>2. QED
    BY <1>1, <2>1 DEF Operation, NoOp
<1>3. /\ UNCHANGED <<main, branch, origin, opened, file>>
      /\ count' \in [runs : Nat, changes : Nat, faults : Nat]
  BY DEF Starts, RepositoryUnchanged, IInv, TypeOK
<1>4. TypeOK'
  BY <1>2, <1>3 DEF IInv, TypeOK
<1>5. StageInv' /\ WorkInv' /\ BranchInv' /\ FileInv' /\ ReportedIsTrue' /\ ReviewedIsValid'
  BY <1>2 DEF StageInv, WorkInv, BranchInv, FileInv, ReportedIsTrue, ReviewedIsValid, At, Busy
<1>6. QED
  BY <1>4, <1>5 DEF IInv

LEMMA BeginKeepsIInv ==
    ASSUME IInv, \/ Fetch \/ Push \/ OpenPR
                 \/ \E f \in Files : DeleteFile(f) \/ \E c \in Contents : SyncTemplate(f, c)
    PROVE  IInv'
<1>1. NoOp \in Operation /\ file \in Maybe
  BY FilesAssumption DEF NoOp, Operation, Maybe, IInv, TypeOK
<1>2. CASE Fetch
  <2>1. op' = [NoOp EXCEPT !.kind = "fetch", !.stage = "fetch"] /\ Starts("fetch")
    BY <1>2 DEF Fetch
  <2>2. /\ op' \in Operation /\ op'.kind = "fetch" /\ op'.stage = "fetch"
        /\ op'.result = "none" /\ op'.did = {} /\ op'.had = {} /\ ~op'.lost
    BY <1>1, <2>1 DEF Operation, NoOp
  <2>3. QED
    BY <2>1, <2>2, StartsKeepsIInv
<1>3. ASSUME NEW kind \in {"push", "review"}, Starts(kind),
             op' = [NoOp EXCEPT !.kind = kind, !.content = file,
                                !.stage = IF kind = "push" THEN "read" ELSE "compare"]
      PROVE  IInv'
  <2>1. /\ op' \in Operation /\ op'.kind = kind
        /\ op'.stage = IF kind = "push" THEN "read" ELSE "compare"
        /\ op'.target = Config /\ op'.content = file
        /\ op'.result = "none" /\ op'.did = {} /\ op'.had = {} /\ ~op'.lost
    BY <1>1, <1>3 DEF Operation, NoOp
  <2>2. QED
    BY <1>3, <2>1, StartsKeepsIInv
<1>4. CASE OpenPR
  <2>1. op' = [NoOp EXCEPT !.kind = "open", !.stage = "compare", !.content = file] /\ Starts("open")
    BY <1>4 DEF OpenPR
  <2>2. /\ op' \in Operation /\ op'.kind = "open" /\ op'.stage = "compare" /\ op'.content = file
        /\ op'.result = "none" /\ op'.did = {} /\ op'.had = {} /\ ~op'.lost
    BY <1>1, <2>1 DEF Operation, NoOp
  <2>3. QED
    BY <2>1, <2>2, StartsKeepsIInv
<1>5. ASSUME NEW f \in Files, DeleteFile(f)
      PROVE  IInv'
  <2> SUFFICES ASSUME ~EndsEarly("delete")
               PROVE  IInv'
    BY <1>5, EarlyEndKeepsIInv DEF DeleteFile
  <2>1. op' = [NoOp EXCEPT !.kind = "delete", !.stage = "read", !.target = f] /\ Starts("delete")
    BY <1>5 DEF DeleteFile
  <2>2. /\ op' \in Operation /\ op'.kind = "delete" /\ op'.stage = "read"
        /\ op'.result = "none" /\ op'.did = {} /\ op'.had = {} /\ ~op'.lost
    BY <1>1, <2>1 DEF Operation, NoOp
  <2>3. QED
    BY <2>1, <2>2, StartsKeepsIInv
<1>6. ASSUME NEW f \in Files, NEW c \in Contents, SyncTemplate(f, c)
      PROVE  IInv'
  <2> SUFFICES ASSUME ~EndsEarly("sync")
               PROVE  IInv'
    BY <1>6, EarlyEndKeepsIInv DEF SyncTemplate
  <2>1. /\ op' = [NoOp EXCEPT !.kind = "sync", !.stage = "read", !.target = f,
                              !.todo = Files \ {f}, !.content = c]
        /\ Starts("sync") /\ c \in Maybe
    BY <1>6 DEF SyncTemplate, Maybe
  <2>2. /\ op' \in Operation /\ op'.kind = "sync" /\ op'.stage = "read"
        /\ op'.target = f /\ op'.todo = Files \ {f}
        /\ op'.result = "none" /\ op'.did = {} /\ op'.had = {} /\ ~op'.lost
    BY <1>1, <2>1 DEF Operation, NoOp
  <2>3. QED
    BY <2>1, <2>2, StartsKeepsIInv
<1>7. QED
  BY <1>2, <1>3, <1>4, <1>5, <1>6 DEF Push

-----------------------------------------------------------------------------
(* The steps before anything is written.                                   *)

\* An operation goes on without having done anything.
LEMMA GoesOnKeepsIInv ==
    ASSUME IInv, UNCHANGED <<main, branch, origin, opened, file>>, op' \in Operation, Busy,
           count' \in [runs : Nat, changes : Nat, faults : Nat],
           op'.kind = op.kind, op'.target = op.target, op'.todo = op.todo, op'.result = op.result,
           op'.did = op.did, op'.had = op.had, op'.lost = op.lost, op'.edited = op.edited,
           op'.kind # "fetch" => op'.content = op.content,
           op.blind => op'.blind,
           \/ At("fetch") /\ op'.stage = "write"
           \/ At("compare") /\ op'.stage = "validate"
           \/ At("compare") /\ op'.stage = "approve" /\ op'.blind
           \/ At("validate") /\ op'.stage = "approve" /\ IsValid
           \/ At("approve") /\ op'.stage = "read" /\ op.kind = "review"
           \/ At("approve") /\ op'.stage = "reference" /\ op.kind = "open"
           \/ At("reference") /\ op'.stage = "branch"
           \/ At("read") /\ op'.stage = "put"
    PROVE  IInv'
<1>1. TypeOK'
  BY DEF IInv, TypeOK
<1>2. StageInv'
  BY DEF IInv, StageInv, At
<1>3. WorkInv'
  BY DEF IInv, WorkInv, At, Busy
<1>4. BranchInv'
  BY DEF IInv, StageInv, BranchInv, At, Busy
<1>5. FileInv'
  <2> SUFFICES ASSUME op.kind \in {"review", "open"}
               PROVE  FileInv'
    BY DEF FileInv
  <2>1. file = op.content \/ op.edited
    BY DEF IInv, FileInv
  <2>2. At("validate") /\ IsValid => op.content \in Valid \/ op.edited
    BY <2>1 DEF IsValid
  <2>3. QED
    BY <2>1, <2>2 DEF IInv, StageInv, FileInv, At, Busy
<1>6. ReportedIsTrue'
  BY DEF IInv, WorkInv, ReportedIsTrue
<1>7. ReviewedIsValid'
  BY DEF IInv, WorkInv, BranchInv, ReviewedIsValid, StageInv, At, Busy
<1>8. QED
  BY <1>1, <1>2, <1>3, <1>4, <1>5, <1>6, <1>7 DEF IInv

\* Stages that follow one another, and the end of an operation from each of them.
LEMMA QuietStep ==
    ASSUME IInv, NEW stage, To(stage), UNCHANGED <<main, branch, origin, opened, file, count>>,
           \/ At("compare") /\ stage = "validate"
           \/ At("validate") /\ stage = "approve" /\ IsValid
           \/ At("approve") /\ stage = "read" /\ op.kind = "review"
           \/ At("approve") /\ stage = "reference" /\ op.kind = "open"
    PROVE  IInv'
<1>1. Busy /\ count' \in [runs : Nat, changes : Nat, faults : Nat]
  BY DEF IInv, TypeOK, Busy, At
<1>2. op' \in Operation
  BY DEF IInv, TypeOK, Operation, To, At
<1>3. QED
  BY <1>1, <1>2, StepFacts, GoesOnKeepsIInv DEF IInv

\* A push that cannot compare asks without having validated.
LEMMA BlindStep ==
    ASSUME IInv, At("compare"), NotFound, UNCHANGED <<main, branch, origin, opened, file>>,
           count' \in [runs : Nat, changes : Nat, faults : Nat]
    PROVE  IInv'
<1>1. /\ op' \in Operation /\ op'.stage = "approve" /\ op'.blind
      /\ op'.kind = op.kind /\ op'.target = op.target /\ op'.todo = op.todo
      /\ op'.content = op.content /\ op'.result = op.result
      /\ op'.did = op.did /\ op'.had = op.had /\ op'.lost = op.lost /\ op'.edited = op.edited
  BY DEF NotFound, IInv, TypeOK, Operation
<1>2. QED
  BY <1>1, GoesOnKeepsIInv DEF At, Busy

LEMMA ReviewKeepsIInv ==
    ASSUME IInv, \/ CompareToPush \/ ValidateToPush \/ ApprovePush
                 \/ CompareToOpen \/ ValidateToOpen \/ ApprovePR
    PROVE  IInv'
<1>1. /\ UNCHANGED <<main, branch, origin, opened, file, count>>
      /\ Busy /\ op.kind \in {"review", "open"} /\ file' \in Maybe
      /\ count' \in [runs : Nat, changes : Nat, faults : Nat]
  BY DEF CompareToPush, ValidateToPush, ApprovePush, CompareToOpen, ValidateToOpen, ApprovePR,
         Reviews, RepositoryUnchanged, IInv, TypeOK, At, Busy
<1>2. At("compare") \/ At("validate") \/ At("approve") => op.did = {}
  BY <1>1 DEF IInv, WorkInv, BranchInv, At
<1>3. CASE CompareToPush \/ ValidateToPush \/ ApprovePush
  <2>1. CASE At("compare") /\ NotFound
    BY <1>1, <2>1, BlindStep
  <2>2. CASE Finish("nothing")
    BY <1>1, <1>2, <1>3, <2>2, FinishKeepsIInv DEF CompareToPush, ValidateToPush, ApprovePush
  <2>3. CASE ~(At("compare") /\ NotFound) /\ ~Finish("nothing")
    BY <1>1, <1>3, <2>3, QuietStep DEF CompareToPush, ValidateToPush, ApprovePush
  <2>4. QED
    BY <2>1, <2>2, <2>3
<1>4. CASE CompareToOpen \/ ValidateToOpen \/ ApprovePR
  <2>1. CASE Finish("failed") \/ Finish("nothing")
    BY <1>1, <1>2, <1>4, <2>1, FinishKeepsIInv DEF CompareToOpen, ValidateToOpen, ApprovePR
  <2>2. CASE ~Finish("failed") /\ ~Finish("nothing")
    BY <1>1, <1>4, <2>2, QuietStep DEF CompareToOpen, ValidateToOpen, ApprovePR
  <2>3. QED
    BY <2>1, <2>2
<1>5. QED
  BY <1>3, <1>4

\* fetch-config, the reference of a new branch, and interruptions.
LEMMA QuietKeepsIInv ==
    ASSUME IInv, FetchReads \/ FetchWrites \/ Reference \/ Kill \/ Fail
    PROVE  IInv'
<1>1. \A f \in Files : main[f] \in Maybe
  BY DEF IInv, TypeOK
<1>2. CASE FetchReads
  <2>1. /\ UNCHANGED <<main, branch, origin, opened, file, count>> /\ At("fetch") /\ Busy
        /\ op.kind = "fetch" /\ main[Config] \in Maybe
        /\ file' \in Maybe /\ count' \in [runs : Nat, changes : Nat, faults : Nat]
    BY <1>1, <1>2, FilesAssumption DEF FetchReads, RepositoryUnchanged, IInv, TypeOK, StageInv, At, Busy
  <2>2. CASE Finish("failed")
    BY <2>1, <2>2, FinishKeepsIInv
  <2>3. CASE op' = [op EXCEPT !.stage = "write", !.content = main[Config]]
    <3>1. /\ op' \in Operation /\ op'.stage = "write"
          /\ op'.kind = op.kind /\ op'.target = op.target /\ op'.todo = op.todo
          /\ op'.result = op.result /\ op'.did = op.did /\ op'.had = op.had
          /\ op'.lost = op.lost /\ op'.edited = op.edited /\ op'.blind = op.blind
      BY <2>1, <2>3 DEF IInv, TypeOK, Operation
    <3>2. QED
      BY <2>1, <3>1, GoesOnKeepsIInv
  <2>4. QED
    BY <1>2, <2>2, <2>3 DEF FetchReads
<1>3. CASE FetchWrites
  <2>1. /\ UNCHANGED <<main, branch, origin, opened, count>> /\ Busy
        /\ op.kind = "fetch" /\ Finish("fetched")
        /\ file' \in Maybe /\ count' \in [runs : Nat, changes : Nat, faults : Nat]
    BY <1>3 DEF FetchWrites, RepositoryUnchanged, IInv, TypeOK, Operation, StageInv, At, Busy
  <2>2. QED
    BY <2>1, FinishKeepsIInv
<1>4. CASE Reference
  <2>1. /\ UNCHANGED <<main, branch, origin, opened, file, count>> /\ At("reference") /\ Busy
        /\ op.kind = "open" /\ main[Config] \in Maybe
        /\ count' \in [runs : Nat, changes : Nat, faults : Nat]
        /\ op' = [op EXCEPT !.stage = "branch", !.from = main[Config]]
    BY <1>1, <1>4, FilesAssumption DEF Reference, RepositoryUnchanged, IInv, TypeOK, StageInv, At, Busy
  <2>2. /\ op' \in Operation /\ op'.stage = "branch"
        /\ op'.kind = op.kind /\ op'.target = op.target /\ op'.todo = op.todo
        /\ op'.content = op.content /\ op'.result = op.result
        /\ op'.did = op.did /\ op'.had = op.had
        /\ op'.lost = op.lost /\ op'.edited = op.edited /\ op'.blind = op.blind
    BY <2>1 DEF IInv, TypeOK, Operation
  <2>3. QED
    BY <2>1, <2>2, GoesOnKeepsIInv
<1>5. CASE Kill
  BY <1>5, CountType, FinishKeepsIInv DEF Kill, RepositoryUnchanged, IInv, TypeOK
<1>6. CASE Fail
  <2>1. /\ UNCHANGED <<main, branch, origin, opened, file>> /\ Busy /\ file' \in Maybe
        /\ count' \in [runs : Nat, changes : Nat, faults : Nat] /\ RequestFails
    BY <1>6, CountType DEF Fail, RepositoryUnchanged, Busy, IInv, TypeOK
  <2>2. CASE At("compare") /\ op.kind = "review"
    <3>1. NotFound
      BY <2>1, <2>2 DEF RequestFails, NotFound, Finish, At
    <3>2. QED
      BY <2>1, <2>2, <3>1, BlindStep
  <2>3. CASE At("read") /\ op.kind = "delete"
    <3>1. op' = Onward([op EXCEPT !.blind = TRUE])
      BY <2>1, <2>3 DEF RequestFails, At
    <3>2. op' = [op EXCEPT !.stage = "idle", !.result = "succeeded", !.blind = TRUE]
      BY <2>3, <3>1 DEF Onward, IInv, TypeOK, Operation
    <3>3. /\ op' \in Operation /\ op'.stage = "idle" /\ op'.result = "succeeded" /\ op'.blind
          /\ op'.kind = "delete" /\ op'.target = op.target /\ op'.did = op.did
      BY <2>3, <3>2 DEF IInv, TypeOK, Operation
    <3>4. op.did = {}
      BY <2>1, <2>3 DEF IInv, WorkInv
    <3>5. TypeOK'
      BY <2>1, <3>3 DEF IInv, TypeOK
    <3>6. StageInv' /\ WorkInv' /\ BranchInv' /\ FileInv' /\ ReportedIsTrue' /\ ReviewedIsValid'
      BY <3>3, <3>4 DEF StageInv, WorkInv, BranchInv, FileInv, ReportedIsTrue, ReviewedIsValid, At, Busy
    <3>7. QED
      BY <3>5, <3>6 DEF IInv
  <2>4. CASE At("read") /\ op.kind # "delete"
    <3>1. op' = [op EXCEPT !.stage = "put", !.found = Absent]
      BY <2>1, <2>4 DEF RequestFails, At
    <3>2. /\ op' \in Operation /\ op'.stage = "put"
          /\ op'.kind = op.kind /\ op'.target = op.target /\ op'.todo = op.todo
          /\ op'.content = op.content /\ op'.result = op.result
          /\ op'.did = op.did /\ op'.had = op.had
          /\ op'.lost = op.lost /\ op'.edited = op.edited /\ op'.blind = op.blind
      BY <3>1 DEF IInv, TypeOK, Operation, Maybe
    <3>3. QED
      BY <2>1, <2>4, <3>2, GoesOnKeepsIInv
  <2>5. CASE ~(At("compare") /\ op.kind = "review") /\ ~At("read")
    <3>1. Finish("failed") \/ Finish("crashed")
      BY <2>1, <2>5 DEF RequestFails, WriteError, At
    <3>2. QED
      BY <2>1, <3>1, FinishKeepsIInv
  <2>6. QED
    BY <2>2, <2>3, <2>4, <2>5
<1>7. QED
  BY <1>2, <1>3, <1>4, <1>5, <1>6

-----------------------------------------------------------------------------
(* The steps that write.                                                   *)

\* What comes after a file that is as it should be: the next file, the pull request, or
\* the end of the operation.
LEMMA OnwardFacts ==
    ASSUME NEW o \in Operation
    PROVE  /\ Onward(o) \in Operation
           /\ Onward(o).kind = o.kind /\ Onward(o).content = o.content
           /\ Onward(o).did = o.did /\ Onward(o).had = o.had
           /\ Onward(o).lost = o.lost /\ Onward(o).edited = o.edited /\ Onward(o).blind = o.blind
           /\ \/ /\ o.kind = "open" /\ Onward(o).stage = "pull"
                 /\ Onward(o).result = o.result /\ Onward(o).target = o.target
              \/ /\ o.kind = "sync" /\ o.todo # {} /\ Onward(o).stage = "read"
                 /\ Onward(o).result = o.result
                 /\ Onward(o).todo \cup {Onward(o).target} = o.todo
              \/ /\ o.kind # "open" /\ (o.kind = "sync" => o.todo = {})
                 /\ Onward(o).stage = "idle" /\ Onward(o).target = o.target
                 /\ Onward(o).result = IF o.kind = "delete" THEN "succeeded"
                                       ELSE IF "put" \in o.did THEN "written" ELSE "nothing"
<1>1. CASE o.kind = "open"
  <2>1. Onward(o) = [o EXCEPT !.stage = "pull"]
    BY <1>1 DEF Onward
  <2>2. QED
    BY <1>1, <2>1 DEF Operation
<1>2. CASE o.kind = "sync" /\ o.todo # {}
  <2>1. PICK f \in o.todo : Onward(o) = [o EXCEPT !.stage = "read", !.target = f, !.todo = @ \ {f}]
    BY <1>2 DEF Onward, NextFile
  <2>2. f \in Files /\ o.todo \ {f} \subseteq Files /\ (o.todo \ {f}) \cup {f} = o.todo
    BY <2>1 DEF Operation
  <2>3. QED
    BY <1>2, <2>1, <2>2 DEF Operation
<1>3. CASE o.kind # "open" /\ ~(o.kind = "sync" /\ o.todo # {})
  <2>1. PICK result \in {"written", "nothing", "succeeded"} :
           /\ result = IF o.kind = "delete" THEN "succeeded"
                       ELSE IF "put" \in o.did THEN "written" ELSE "nothing"
           /\ Onward(o) = [o EXCEPT !.stage = "idle", !.result = result]
    BY <1>3 DEF Onward
  <2>2. QED
    BY <1>3, <2>1 DEF Operation
<1>4. QED
  BY <1>1, <1>2, <1>3

\* A file is as it should be, and was written for that, or not.
LEMMA OnwardKeepsIInv ==
    ASSUME IInv, At("read") \/ At("put"), NEW did, did \in {op.did, op.did \cup {"put"}},
           main' \in [Files -> Maybe], branch' \in Maybe, UNCHANGED <<origin, opened, file, count>>,
           did = op.did => UNCHANGED branch,
           op' = Onward([op EXCEPT !.did = did, !.had = op.had \cup {op.target}])
    PROVE  IInv'
<1> DEFINE o == [op EXCEPT !.did = did, !.had = op.had \cup {op.target}]
<1>1. op \in Operation /\ did \subseteq {"branch", "put", "pull"} /\ op.target \in Files
  BY DEF IInv, TypeOK, Operation
<1>2. /\ o \in Operation /\ o.kind = op.kind /\ o.stage = op.stage /\ o.target = op.target
      /\ o.todo = op.todo /\ o.content = op.content /\ o.result = op.result
      /\ o.did = did /\ o.had = op.had \cup {op.target}
      /\ o.lost = op.lost /\ o.edited = op.edited /\ o.blind = op.blind
  BY <1>1 DEF Operation
<1>3. op' = Onward(o)
  OBVIOUS
<1> HIDE DEF o
<1>4. /\ op' \in Operation /\ op'.kind = op.kind /\ op'.content = op.content
      /\ op'.did = did /\ op'.had = op.had \cup {op.target}
      /\ op'.lost = op.lost /\ op'.edited = op.edited /\ op'.blind = op.blind
      /\ \/ /\ op.kind = "open" /\ op'.stage = "pull"
            /\ op'.result = op.result /\ op'.target = op.target
         \/ /\ op.kind = "sync" /\ op.todo # {} /\ op'.stage = "read"
            /\ op'.result = op.result
            /\ op'.todo \cup {op'.target} = op.todo
         \/ /\ op.kind # "open" /\ (op.kind = "sync" => op.todo = {})
            /\ op'.stage = "idle" /\ op'.target = op.target
            /\ op'.result = IF op.kind = "delete" THEN "succeeded"
                            ELSE IF "put" \in did THEN "written" ELSE "nothing"
  BY <1>2, <1>3, OnwardFacts
<1>5. /\ Busy /\ op.result = "none" /\ ~op.lost
      /\ op.kind \notin {"open", "sync"} => op.had = {}
      /\ op.kind # "open" => op.did \subseteq {"put"}
      /\ op.kind = "open" => op.did = {"branch"} /\ branch = origin
      /\ op.kind = "sync" => op.had \cup op.todo \cup {op.target} = Files
      /\ op.kind = "push" => op.target = Config
  BY DEF IInv, StageInv, WorkInv, BranchInv, At, Busy
<1>6. TypeOK'
  BY <1>4 DEF IInv, TypeOK
<1>7. StageInv'
  BY <1>4, <1>5 DEF StageInv, At
<1>8. WorkInv'
  BY <1>4, <1>5 DEF WorkInv, Busy
<1>9. BranchInv'
  BY <1>4, <1>5 DEF BranchInv, At, Busy
<1>10. FileInv'
  BY <1>4 DEF IInv, FileInv, At, Busy
<1>11. ReportedIsTrue'
  BY <1>4, <1>5 DEF ReportedIsTrue
<1>12. ReviewedIsValid'
  BY <1>4 DEF IInv, FileInv, ReviewedIsValid
<1>13. QED
  BY <1>6, <1>7, <1>8, <1>9, <1>10, <1>11, <1>12 DEF IInv

\* What is written is of the right type, whichever file or branch it is.
LEMMA WrittenType ==
    ASSUME TypeOK, Written(op.content)
    PROVE  main' \in [Files -> Maybe] /\ branch' \in Maybe /\ UNCHANGED <<origin, opened>>
BY DEF TypeOK, Operation, Written

LEMMA ContentsApiKeepsIInv ==
    ASSUME IInv, Read \/ Put
    PROVE  IInv'
<1>1. TypeOK /\ op \in Operation /\ main \in [Files -> Maybe] /\ branch \in Maybe
  BY DEF IInv, TypeOK
<1>2. CASE Read
  <2>1. /\ At("read") /\ Busy
        /\ UNCHANGED <<main, branch, origin, opened, file, count>>
        /\ count' \in [runs : Nat, changes : Nat, faults : Nat]
    BY <1>2 DEF Read, RepositoryUnchanged, At, Busy, IInv, TypeOK
  <2>2. CASE op' = Onward([op EXCEPT !.had = @ \cup {op.target}])
    <3>1. [op EXCEPT !.had = @ \cup {op.target}]
             = [op EXCEPT !.did = op.did, !.had = op.had \cup {op.target}]
      BY <1>1 DEF Operation
    <3>2. QED
      BY <1>1, <2>1, <2>2, <3>1, OnwardKeepsIInv
  <2>3. CASE op' = [op EXCEPT !.stage = "put", !.found = Target]
    <3>1. Target \in Maybe
      BY <1>1 DEF Target, Operation
    <3>2. /\ op' \in Operation /\ op'.stage = "put"
          /\ op'.kind = op.kind /\ op'.target = op.target /\ op'.todo = op.todo
          /\ op'.content = op.content /\ op'.result = op.result
          /\ op'.did = op.did /\ op'.had = op.had
          /\ op'.lost = op.lost /\ op'.edited = op.edited /\ op'.blind = op.blind
      BY <1>1, <2>3, <3>1 DEF Operation
    <3>3. QED
      BY <2>1, <3>2, GoesOnKeepsIInv
  <2>4. QED
    BY <1>2, <2>2, <2>3 DEF Read
<1>3. CASE Put
  <2>1. CASE AsFound
    <3>1. /\ At("put") /\ Written(op.content) /\ UNCHANGED <<file, count>>
          /\ op' = Onward([op EXCEPT !.did = op.did \cup {"put"}, !.had = op.had \cup {op.target}])
      BY <1>3, <2>1 DEF Put
    <3>2. "put" \notin op.did => op.did \cup {"put"} # op.did
      OBVIOUS
    <3>3. "put" \in op.did => op.kind = "sync"
      BY <3>1 DEF IInv, StageInv, WorkInv, BranchInv, At, Busy
    <3>4. op.did \cup {"put"} = op.did => UNCHANGED branch
      BY <3>1, <3>3 DEF Written
    <3>5. QED
      BY <1>1, <3>1, <3>4, WrittenType, OnwardKeepsIInv
  <2>2. CASE ~AsFound
    <3>1. /\ Finish("failed") \/ Finish("crashed")
          /\ Busy /\ UNCHANGED <<main, branch, origin, opened, file, count>>
          /\ file' \in Maybe /\ count' \in [runs : Nat, changes : Nat, faults : Nat]
      BY <1>3, <2>2 DEF Put, WriteError, RepositoryUnchanged, At, Busy, IInv, TypeOK
    <3>2. QED
      BY <3>1, FinishKeepsIInv
  <2>3. QED
    BY <2>1, <2>2
<1>4. QED
  BY <1>2, <1>3

LEMMA BranchKeepsIInv ==
    ASSUME IInv, Branch
    PROVE  IInv'
<1>1. CASE branch = Absent
  <2>1. /\ branch' = op.from /\ origin' = op.from /\ UNCHANGED <<main, opened, file, count>>
        /\ op' = [op EXCEPT !.stage = "read", !.did = @ \cup {"branch"}]
        /\ op.stage = "branch" /\ op.kind = "open" /\ op.did = {} /\ op.result = "none"
    BY <1>1 DEF Branch, IInv, StageInv, WorkInv, BranchInv, At, Busy
  <2>2. /\ op' \in Operation /\ op'.stage = "read" /\ op'.did = {"branch"}
        /\ op'.kind = op.kind /\ op'.target = op.target /\ op'.todo = op.todo
        /\ op'.content = op.content /\ op'.result = op.result
        /\ op'.had = op.had
        /\ op'.lost = op.lost /\ op'.edited = op.edited /\ op'.blind = op.blind
        /\ op.from \in Maybe
    BY <2>1 DEF IInv, TypeOK, Operation
  <2>3. TypeOK'
    BY <2>1, <2>2 DEF IInv, TypeOK
  <2>4. StageInv' /\ WorkInv' /\ BranchInv' /\ FileInv'
    BY <2>1, <2>2 DEF IInv, StageInv, WorkInv, BranchInv, FileInv, At, Busy
  <2>5. ReportedIsTrue' /\ ReviewedIsValid'
    BY <2>1, <2>2 DEF ReportedIsTrue, ReviewedIsValid
  <2>6. QED
    BY <2>3, <2>4, <2>5 DEF IInv
<1>2. CASE branch # Absent
  <2>1. /\ Finish("failed") /\ Busy /\ UNCHANGED <<main, branch, origin, opened, file, count>>
        /\ file' \in Maybe /\ count' \in [runs : Nat, changes : Nat, faults : Nat]
    BY <1>2 DEF Branch, RepositoryUnchanged, At, Busy, IInv, TypeOK
  <2>2. QED
    BY <2>1, FinishKeepsIInv
<1>3. QED
  BY <1>1, <1>2

\* A branch that differs from where it began has the change of the operation.
LEMMA PullKeepsIInv ==
    ASSUME IInv, Pull
    PROVE  IInv'
<1>1. CASE branch # origin /\ ~opened
  <2>1. /\ opened' = TRUE /\ UNCHANGED <<main, branch, origin, file, count>>
        /\ op' = [op EXCEPT !.stage = "idle", !.result = "opened", !.did = @ \cup {"pull"}]
        /\ op.kind = "open" /\ op.did = {"branch", "put"}
        /\ op.content \in Valid \/ op.edited \/ op.blind
    BY <1>1 DEF Pull, IInv, StageInv, BranchInv, FileInv, At, Busy
  <2>2. /\ op' \in Operation /\ op'.stage = "idle" /\ op'.did = {"branch", "put", "pull"}
        /\ op'.kind = op.kind /\ op'.target = op.target /\ op'.todo = op.todo
        /\ op'.content = op.content /\ op'.result = "opened"
        /\ op'.had = op.had
        /\ op'.lost = op.lost /\ op'.edited = op.edited /\ op'.blind = op.blind
    <3>1. op' = [op EXCEPT !.stage = "idle", !.result = "opened", !.did = {"branch", "put", "pull"}]
      <4>1. op.did = {"branch", "put"}
        BY <2>1
      <4>2. {"branch", "put"} \cup {"pull"} = {"branch", "put", "pull"}
        OBVIOUS
      <4>3. QED
        BY <2>1, <4>1, <4>2
    <3>2. QED
      BY <3>1 DEF IInv, TypeOK, Operation
  <2>3. TypeOK'
    BY <2>1, <2>2 DEF IInv, TypeOK
  <2>4. StageInv' /\ WorkInv' /\ BranchInv' /\ FileInv'
    BY <2>1, <2>2 DEF IInv, StageInv, WorkInv, BranchInv, FileInv, At, Busy
  <2>5. ReportedIsTrue' /\ ReviewedIsValid'
    BY <2>1, <2>2 DEF ReportedIsTrue, ReviewedIsValid
  <2>6. QED
    BY <2>3, <2>4, <2>5 DEF IInv
<1>2. CASE ~(branch # origin /\ ~opened)
  <2>1. /\ Finish("failed") /\ Busy /\ UNCHANGED <<main, branch, origin, opened, file, count>>
        /\ file' \in Maybe /\ count' \in [runs : Nat, changes : Nat, faults : Nat]
    BY <1>2 DEF Pull, RepositoryUnchanged, At, Busy, IInv, TypeOK
  <2>2. QED
    BY <2>1, FinishKeepsIInv
<1>3. QED
  BY <1>1, <1>2

LEMMA LoseAnswerKeepsIInv ==
    ASSUME IInv, LoseAnswer
    PROVE  IInv'
<1>1. PICK result \in {"failed", "crashed"} :
         /\ op' = [op EXCEPT !.stage = "idle", !.result = result, !.lost = TRUE,
                             !.did = op.did \cup {op.stage}]
         /\ op.stage \in {"branch", "put", "pull"} /\ UNCHANGED file /\ Busy
  BY DEF LoseAnswer, WriteError, At, Busy
<1>2. /\ op' \in Operation /\ op'.stage = "idle" /\ op'.did = op.did \cup {op.stage}
      /\ op'.kind = op.kind /\ op'.target = op.target /\ op'.todo = op.todo
      /\ op'.content = op.content /\ op'.result = result
      /\ op'.lost /\ op'.edited = op.edited /\ op'.blind = op.blind
  <2>1. op \in Operation /\ op.did \cup {op.stage} \in SUBSET {"branch", "put", "pull"}
    BY <1>1 DEF IInv, TypeOK, Operation
  <2>2. QED
    BY <1>1, <2>1 DEF Operation
<1>3. count' \in [runs : Nat, changes : Nat, faults : Nat]
  BY CountType DEF LoseAnswer, IInv
<1>4. main' \in [Files -> Maybe] /\ branch' \in Maybe /\ origin' \in Maybe /\ opened' \in BOOLEAN
  <2>1. /\ main \in [Files -> Maybe] /\ branch \in Maybe /\ origin \in Maybe /\ opened \in BOOLEAN
        /\ TypeOK /\ op.from \in Maybe
    BY DEF IInv, TypeOK, Operation
  <2>2. CASE At("put") /\ Written(op.content)
    BY <2>1, <2>2, WrittenType
  <2>3. CASE ~(At("put") /\ Written(op.content))
    BY <2>1, <2>3 DEF LoseAnswer
  <2>4. QED
    BY <2>2, <2>3
<1>5. TypeOK'
  BY <1>1, <1>2, <1>3, <1>4 DEF IInv, TypeOK
<1>6. StageInv' /\ WorkInv' /\ BranchInv' /\ FileInv'
  BY <1>1, <1>2 DEF IInv, StageInv, WorkInv, BranchInv, FileInv, At, Busy
<1>7. ReportedIsTrue'
  BY <1>2 DEF ReportedIsTrue
<1>8. ReviewedIsValid'
  BY <1>1, <1>2 DEF IInv, FileInv, ReviewedIsValid, At
<1>9. QED
  BY <1>5, <1>6, <1>7, <1>8 DEF IInv

-----------------------------------------------------------------------------
(* Theorems.                                                               *)

LEMMA IInvHolds == Spec => []IInv
<1>1. Init => IInv
  <2> SUFFICES ASSUME Init PROVE IInv
    OBVIOUS
  <2>1. /\ NoOp \in Operation /\ NoOp.kind = "none" /\ NoOp.stage = "idle" /\ NoOp.result = "none"
        /\ NoOp.did = {}
    BY FilesAssumption DEF NoOp, Operation, Maybe
  <2>2. TypeOK
    BY <2>1 DEF Init, TypeOK, Maybe
  <2>3. QED
    BY <2>1, <2>2
       DEF Init, IInv, StageInv, WorkInv, BranchInv, FileInv, ReportedIsTrue, ReviewedIsValid, At, Busy
<1>2. IInv /\ [Next]_vars => IInv'
  <2> SUFFICES ASSUME IInv, [Next]_vars PROVE IInv'
    OBVIOUS
  <2>1. CASE UNCHANGED vars
    BY <2>1 DEF vars, IInv, TypeOK, StageInv, WorkInv, BranchInv, FileInv,
                ReportedIsTrue, ReviewedIsValid, At, Busy
  <2>2. QED
    BY <2>1, OthersKeepIInv, BeginKeepsIInv, ReviewKeepsIInv, QuietKeepsIInv,
       ContentsApiKeepsIInv, BranchKeepsIInv, PullKeepsIInv, LoseAnswerKeepsIInv DEF Next
<1>3. QED
  BY <1>1, <1>2, PTL DEF Spec

\* The values of the variables are of their types.
THEOREM TypeCorrect == Spec => []TypeOK
BY IInvHolds, PTL DEF IInv

\* What an operation of the command line reports is what it did, whichever of its
\* requests failed, whatever others committed and whenever it was interrupted; but for the
\* success that delete-file reports of a file that it could not read.
THEOREM ReportsAreTrue == Spec => []ReportedIsTrue
BY IInvHolds, PTL DEF IInv

\* No push and no pull request brings an invalid configuration after the differences
\* were shown, but for a local edit in between or a comparison that could not be made.
THEOREM ReviewsAreValid == Spec => []ReviewedIsValid
BY IInvHolds, PTL DEF IInv

-----------------------------------------------------------------------------
(* Sequences of sequences.                                                 *)

\* Every set of natural numbers that is not empty has a least element: an induction
\* that the library states for sets of finite sets.
LEMMA LeastNumber ==
    ASSUME NEW T \in SUBSET Nat, T # {}
    PROVE  \E m \in T : \A k \in T : m <= k
<1> DEFINE F == {0..k : k \in T}
           R == StrictSubsetOrdering(Nat)
           S == FiniteSubsetsOf(Nat)
<1>1. \A k \in T : 0..k \in S
    <2> TAKE k \in T
    <2>1. IsFiniteSet(0..k)
        BY FS_Interval
    <2>2. 0..k \in SUBSET Nat
        OBVIOUS
    <2> QED
        BY <2>1, <2>2 DEF FiniteSubsetsOf
<1>2. F \subseteq S
    BY <1>1
<1>3. F # {}
    OBVIOUS
<1>4. IsWellFoundedOn(R, S)
    BY FS_StrictSubsetOrderingWellFounded
<1>5. PICK x \in F : \A y \in F : ~ (<<y, x>> \in R)
    <2> HIDE DEF F, R, S
    <2> QED
        BY <1>2, <1>3, <1>4, WFMin
<1>6. PICK m \in T : x = 0..m
    OBVIOUS
<1>7. ASSUME NEW k \in T
      PROVE  m <= k
    <2>1. SUFFICES ASSUME k < m
                   PROVE  FALSE
        OBVIOUS
    <2>2. 0..k \in F
        OBVIOUS
    <2>3. 0..k \subseteq 0..m /\ 0..k # 0..m
        BY <2>1
    <2>4. 0..k \in SUBSET Nat /\ 0..m \in SUBSET Nat
        OBVIOUS
    <2>5. <<0..k, 0..m>> \in R
        BY <2>3, <2>4 DEF StrictSubsetOrdering
    <2> QED
        BY <1>5, <1>6, <2>2, <2>5
<1> QED
    BY <1>7

\* What FlattenSeq makes of the first n of the sequences, for every n.
IsFlattened(ss, n, g) == \A i \in 1..n : g[i] = IF i = 1 THEN ss[i] ELSE g[i - 1] \o ss[i]

\* The recursion in FlattenSeq has a solution.
LEMMA FlattenExists ==
    ASSUME NEW S, NEW ss \in Seq(Seq(S)), NEW n \in 1..Len(ss)
    PROVE  \E g \in [1..n -> Seq(S)] : IsFlattened(ss, n, g)
<1> DEFINE Bad == {k \in 1..Len(ss) : ~ \E g \in [1..k -> Seq(S)] : IsFlattened(ss, k, g)}
<1>1. SUFFICES ASSUME Bad # {}
               PROVE  FALSE
    OBVIOUS
<1>2. Bad \in SUBSET Nat
    OBVIOUS
<1>3. PICK k \in Bad : \A j \in Bad : k <= j
    <2> HIDE DEF Bad
    <2> QED
        BY <1>1, <1>2, LeastNumber
<1>4. k \in 1..Len(ss) /\ ss[k] \in Seq(S)
    BY ElementOfSeq
<1>5. CASE k = 1
    <2> DEFINE g == [i \in 1..1 |-> ss[1]]
    <2>1. g \in [1..1 -> Seq(S)]
        BY <1>4, <1>5
    <2>2. IsFlattened(ss, 1, g)
        BY DEF IsFlattened
    <2> QED
        BY <1>5, <2>1, <2>2
<1>6. CASE k # 1
    <2>1. k - 1 \in 1..Len(ss) /\ k - 1 \notin Bad
        <3>1. Len(ss) \in Nat
            BY LenProperties
        <3>2. k - 1 \in 1..Len(ss) /\ ~(k <= k - 1)
            BY <1>4, <1>6, <3>1
        <3> HIDE DEF Bad
        <3> QED
            BY <1>3, <3>2
    <2>2. PICK g \in [1..k - 1 -> Seq(S)] : IsFlattened(ss, k - 1, g)
        BY <2>1
    <2> DEFINE h == [i \in 1..k |-> IF i = k THEN g[k - 1] \o ss[k] ELSE g[i]]
    <2>3. \A i \in 1..k : i # k => i \in 1..k - 1
        BY <1>4
    <2>4. g[k - 1] \o ss[k] \in Seq(S)
        BY <1>4, <2>1, ConcatProperties
    <2>5. h \in [1..k -> Seq(S)]
        BY <2>3, <2>4
    <2>6. IsFlattened(ss, k, h)
        <3> SUFFICES ASSUME NEW i \in 1..k
                     PROVE  h[i] = IF i = 1 THEN ss[i] ELSE h[i - 1] \o ss[i]
            BY DEF IsFlattened
        <3>1. CASE i = k
            <4>1. h[i] = g[k - 1] \o ss[k]
                BY <3>1
            <4>2. k - 1 \in 1..k /\ k - 1 # k
                BY <1>4, <2>1
            <4>3. h[k - 1] = g[k - 1]
                BY <4>2
            <4> HIDE DEF h
            <4> QED
                BY <1>6, <3>1, <4>1, <4>3
        <3>2. CASE i # k
            <4>1. i \in 1..k - 1 /\ h[i] = g[i]
                BY <2>3, <3>2
            <4>2. i # 1 => i - 1 \in 1..k /\ i - 1 # k /\ h[i - 1] = g[i - 1]
                BY <1>4, <4>1
            <4> QED
                BY <2>2, <4>1, <4>2 DEF IsFlattened
        <3> QED
            BY <3>1, <3>2
    <2> QED
        BY <2>5, <2>6
<1> QED
    BY <1>5, <1>6

\* FlattenSeq is the last value of a solution.
LEMMA FlattenDefined ==
    ASSUME NEW S, NEW ss \in Seq(Seq(S)), Len(ss) # 0
    PROVE  \E g : IsFlattened(ss, Len(ss), g) /\ FlattenSeq(ss) = g[Len(ss)]
<1> DEFINE n == Len(ss)
           f == CHOOSE g : g = [i \in 1..n |-> IF i = 1 THEN ss[i] ELSE g[i - 1] \o ss[i]]
<1>1. n \in 1..Len(ss)
    BY LenProperties
<1>2. PICK g \in [1..n -> Seq(S)] : IsFlattened(ss, n, g)
    BY <1>1, FlattenExists
<1>3. g = [i \in 1..n |-> IF i = 1 THEN ss[i] ELSE g[i - 1] \o ss[i]]
    BY <1>2 DEF IsFlattened
<1>4. f = [i \in 1..n |-> IF i = 1 THEN ss[i] ELSE f[i - 1] \o ss[i]]
    BY <1>3
<1>5. FlattenSeq(ss) = f[n]
    BY DEF FlattenSeq
<1> HIDE DEF f
<1>6. IsFlattened(ss, n, f)
    BY <1>4 DEF IsFlattened
<1> QED
    BY <1>5, <1>6

\* What is in the first n of the sequences.
RangeOfFirst(ss, n) == UNION {Range(ss[i]) : i \in 1..n}

\* What is flattened is of the kind that the parts are of, and has what they have.
LEMMA FlattenedRange ==
    ASSUME NEW S, NEW ss \in Seq(Seq(S)), NEW g, IsFlattened(ss, Len(ss), g), NEW n \in 1..Len(ss)
    PROVE  g[n] \in Seq(S) /\ Range(g[n]) = RangeOfFirst(ss, n)
<1> USE DEF RangeOfFirst
<1> DEFINE Good(k) == /\ g[k] \in Seq(S)
                      /\ Range(g[k]) = RangeOfFirst(ss, k)
           Bad == {k \in 1..Len(ss) : ~Good(k)}
<1>1. SUFFICES ASSUME Bad # {}
               PROVE  FALSE
    OBVIOUS
<1>2. Bad \in SUBSET Nat
    OBVIOUS
<1>3. PICK k \in Bad : \A j \in Bad : k <= j
    <2> HIDE DEF Bad
    <2> QED
        BY <1>1, <1>2, LeastNumber
<1>4. k \in 1..Len(ss) /\ ss[k] \in Seq(S) /\ Len(ss) \in Nat
    BY ElementOfSeq, LenProperties
<1>5. g[k] = IF k = 1 THEN ss[k] ELSE g[k - 1] \o ss[k]
    BY <1>4 DEF IsFlattened
<1>6. CASE k = 1
    <2>1. g[k] = ss[1]
        BY <1>5, <1>6
    <2>2. {Range(ss[i]) : i \in 1..1} = {Range(ss[1])}
        OBVIOUS
    <2>3. Good(k)
        BY <1>4, <1>6, <2>1, <2>2
    <2> QED
        BY <2>3
<1>7. CASE k # 1
    <2>1. k - 1 \in 1..Len(ss) /\ ~(k <= k - 1)
        BY <1>4, <1>7
    <2>2. k - 1 \notin Bad
        <3> HIDE DEF Bad
        <3> QED
            BY <1>3, <2>1
    <2>3. Good(k - 1)
        BY <2>1, <2>2
    <2>4. g[k] = g[k - 1] \o ss[k]
        BY <1>5, <1>7
    <2>5. Range(g[k]) = Range(g[k - 1]) \cup Range(ss[k])
        BY <1>4, <2>3, <2>4, RangeConcatenation
    <2>6. 1..k = (1..k - 1) \cup {k}
        BY <1>4
    <2>7. {Range(ss[i]) : i \in 1..k} = {Range(ss[i]) : i \in 1..k - 1} \cup {Range(ss[k])}
        BY <2>6
    <2>8. g[k] \in Seq(S)
        BY <1>4, <2>3, <2>4, ConcatProperties
    <2>9. Good(k)
        BY <2>3, <2>5, <2>7, <2>8
    <2> QED
        BY <2>9
<1> QED
    BY <1>6, <1>7

\* The members of a sequence of sequences that is joined are those of its parts.
LEMMA FlattenRange ==
    ASSUME NEW S, NEW ss \in Seq(Seq(S))
    PROVE  /\ FlattenSeq(ss) \in Seq(S)
           /\ Range(FlattenSeq(ss)) = UNION {Range(ss[i]) : i \in DOMAIN ss}
<1>1. DOMAIN ss = 1..Len(ss) /\ Len(ss) \in Nat
    BY LenProperties
<1>2. CASE Len(ss) = 0
    <2>1. ss = <<>>
        BY <1>2, EmptySeq
    <2>2. FlattenSeq(ss) = <<>>
        BY <1>2, <2>1 DEF FlattenSeq
    <2>3. DOMAIN ss = {}
        BY <1>1, <1>2
    <2>4. Range(FlattenSeq(ss)) = {}
        BY <2>1, <2>2, <2>3 DEF Range
    <2> QED
        BY <2>2, <2>3, <2>4, EmptySeq
<1>3. CASE Len(ss) # 0
    <2>1. PICK g : IsFlattened(ss, Len(ss), g) /\ FlattenSeq(ss) = g[Len(ss)]
        BY <1>3, FlattenDefined
    <2>2. Len(ss) \in 1..Len(ss)
        BY <1>1, <1>3
    <2>3. g[Len(ss)] \in Seq(S) /\ Range(g[Len(ss)]) = RangeOfFirst(ss, Len(ss))
        BY <2>1, <2>2, FlattenedRange
    <2> QED
        BY <1>1, <2>1, <2>3 DEF RangeOfFirst
<1> QED
    BY <1>2, <1>3

\* A relation holds of any two members of a sequence, of the earlier and the later one.
Follows(s, R) == \A i, j \in DOMAIN s : i < j => <<s[i], s[j]>> \in R

\* What holds of any earlier and later member holds of two parts and between them.
LEMMA FollowsConcat ==
    ASSUME NEW S, NEW s \in Seq(S), NEW t \in Seq(S), NEW R, Follows(s, R), Follows(t, R),
           \A x \in Range(s), y \in Range(t) : <<x, y>> \in R
    PROVE  Follows(s \o t, R)
<1>1. /\ Len(s) \in Nat /\ Len(t) \in Nat
      /\ DOMAIN s = 1..Len(s) /\ DOMAIN t = 1..Len(t)
    BY LenProperties
<1>2. /\ s \o t \in Seq(S) /\ Len(s \o t) = Len(s) + Len(t)
      /\ \A i \in 1..Len(s) + Len(t) : (s \o t)[i] = IF i <= Len(s) THEN s[i] ELSE t[i - Len(s)]
    BY ConcatProperties
<1>3. DOMAIN (s \o t) = 1..Len(s) + Len(t)
    BY <1>2, LenProperties
<1> SUFFICES ASSUME NEW i \in 1..Len(s) + Len(t), NEW j \in 1..Len(s) + Len(t), i < j
             PROVE  <<(s \o t)[i], (s \o t)[j]>> \in R
    BY <1>3 DEF Follows
<1>4. CASE j <= Len(s)
    <2>1. i \in DOMAIN s /\ j \in DOMAIN s /\ i <= Len(s)
        BY <1>1, <1>4
    <2> QED
        BY <1>2, <1>4, <2>1 DEF Follows
<1>5. CASE i > Len(s)
    <2>1. i - Len(s) \in DOMAIN t /\ j - Len(s) \in DOMAIN t /\ i - Len(s) < j - Len(s)
        BY <1>1, <1>5
    <2>2. (s \o t)[i] = t[i - Len(s)] /\ (s \o t)[j] = t[j - Len(s)]
        BY <1>1, <1>2, <1>5
    <2> QED
        BY <2>1, <2>2 DEF Follows
<1>6. CASE i <= Len(s) /\ j > Len(s)
    <2>1. i \in DOMAIN s /\ j - Len(s) \in DOMAIN t
        BY <1>1, <1>6
    <2>2. (s \o t)[i] = s[i] /\ (s \o t)[j] = t[j - Len(s)]
        BY <1>1, <1>2, <1>6
    <2>3. s[i] \in Range(s) /\ t[j - Len(s)] \in Range(t)
        BY <2>1 DEF Range
    <2> QED
        BY <2>2, <2>3
<1>7. \/ j <= Len(s)
      \/ i > Len(s)
      \/ i <= Len(s) /\ j > Len(s)
    BY <1>1
<1> QED
    BY <1>4, <1>5, <1>6, <1>7, Zenon

\* What is flattened keeps the order of the parts and the order within them.
LEMMA FlattenFollows ==
    ASSUME NEW S, NEW ss \in Seq(Seq(S)), NEW R,
           \A i \in DOMAIN ss : Follows(ss[i], R),
           \A i, j \in DOMAIN ss : i < j =>
               \A x \in Range(ss[i]), y \in Range(ss[j]) : <<x, y>> \in R
    PROVE  Follows(FlattenSeq(ss), R)
<1>1. DOMAIN ss = 1..Len(ss) /\ Len(ss) \in Nat
    BY LenProperties
<1>2. CASE Len(ss) = 0
    <2>1. ss = <<>>
        BY <1>2, EmptySeq
    <2>2. FlattenSeq(ss) = <<>>
        BY <1>2, <2>1 DEF FlattenSeq
    <2>3. DOMAIN <<>> = {}
        BY <1>1, <1>2, <2>1
    <2> QED
        BY <2>2, <2>3 DEF Follows
<1>3. CASE Len(ss) # 0
    <2>1. PICK g : IsFlattened(ss, Len(ss), g) /\ FlattenSeq(ss) = g[Len(ss)]
        BY <1>3, FlattenDefined
    <2> DEFINE Bad == {k \in 1..Len(ss) : ~Follows(g[k], R)}
    <2>2. SUFFICES ASSUME Bad # {}
                   PROVE  FALSE
        BY <1>1, <1>3, <2>1
    <2>3. Bad \in SUBSET Nat
        OBVIOUS
    <2>4. PICK k \in Bad : \A j \in Bad : k <= j
        <3> HIDE DEF Bad
        <3> QED
            BY <2>2, <2>3, LeastNumber
    <2>5. k \in 1..Len(ss) /\ ss[k] \in Seq(S) /\ Follows(ss[k], R)
        BY <1>1, ElementOfSeq
    <2>6. g[k] = IF k = 1 THEN ss[k] ELSE g[k - 1] \o ss[k]
        BY <2>1, <2>5 DEF IsFlattened
    <2>7. CASE k = 1
        BY <2>4, <2>5, <2>6, <2>7
    <2>8. CASE k # 1
        <3>1. k - 1 \in 1..Len(ss) /\ ~(k <= k - 1)
            BY <1>1, <2>5, <2>8
        <3>2. k - 1 \notin Bad
            <4> HIDE DEF Bad
            <4> QED
                BY <2>4, <3>1
        <3>3. Follows(g[k - 1], R)
            BY <3>1, <3>2
        <3>4. g[k - 1] \in Seq(S) /\ Range(g[k - 1]) = RangeOfFirst(ss, k - 1)
            BY <2>1, <3>1, FlattenedRange
        <3>5. ASSUME NEW x \in Range(g[k - 1]), NEW y \in Range(ss[k])
              PROVE  <<x, y>> \in R
            <4>1. PICK i \in 1..k - 1 : x \in Range(ss[i])
                BY <3>4 DEF RangeOfFirst
            <4>2. i \in DOMAIN ss /\ k \in DOMAIN ss /\ i < k
                BY <1>1, <2>5, <4>1
            <4> QED
                BY <4>1, <4>2
        <3>6. Follows(g[k - 1] \o ss[k], R)
            BY <2>5, <3>3, <3>4, <3>5, FollowsConcat
        <3> QED
            BY <2>4, <2>6, <2>8, <3>6
    <2> QED
        BY <2>7, <2>8
<1> QED
    BY <1>2, <1>3
-----------------------------------------------------------------------------
(* Sets as sequences.                                                      *)

\* A set as a sequence has each member once.
LEMMA SetAsSequence ==
    ASSUME NEW S, IsFiniteSet(S)
    PROVE  /\ SetToSeq(S) \in Seq(S)
           /\ \A i, j \in DOMAIN SetToSeq(S) : i # j => SetToSeq(S)[i] # SetToSeq(S)[j]
<1>1. Cardinality(S) \in Nat /\ ExistsBijection(1..Cardinality(S), S)
    BY FS_CardinalityType
<1>2. PICK f \in [1..Cardinality(S) -> S] : IsInjective(f)
    BY <1>1 DEF ExistsBijection, Bijection, Injection
<1>3. SetToSeq(S) \in [1..Cardinality(S) -> S] /\ IsInjective(SetToSeq(S))
    BY <1>2 DEF SetToSeq
<1>4. SetToSeq(S) \in Seq(S)
    BY <1>1, <1>3, SeqDef
<1> QED
    BY <1>3, <1>4 DEF IsInjective

\* One request for each entry of a finite set.
LEMMA EachFacts ==
    ASSUME NEW act, NEW field, NEW items, IsFiniteSet(items)
    PROVE  Each(act, field, items) \in Seq({Entry(act, field, x) : x \in items})
<1> DEFINE s == SetToSeq(items)
<1>1. s \in Seq(items)
    BY SetAsSequence
<1>2. Len(s) \in Nat /\ DOMAIN s = 1..Len(s) /\ \A i \in 1..Len(s) : s[i] \in items
    BY <1>1, LenProperties, ElementOfSeq
<1>3. Each(act, field, items) = [i \in 1..Len(s) |-> Entry(act, field, s[i])]
    BY <1>2 DEF Each
<1> HIDE DEF s
<1>4. [i \in 1..Len(s) |-> Entry(act, field, s[i])] \in [1..Len(s) -> {Entry(act, field, x) : x \in items}]
    BY <1>2
<1> QED
    BY <1>2, <1>3, <1>4, SeqDef
-----------------------------------------------------------------------------
(* References: the parts of the inductive invariant.                       *)

\* The plan: each object once, removed only if it is not configured; a team that is
\* to be added does not exist until its turn comes.
PatchSet == [of : Objects, kind : {"remove", "add", "change"}, changed : SUBSET Fields]
OfDifferent == {q \in PatchSet \X PatchSet : q[1].of # q[2].of}

TodoInv ==
    /\ todo \in Seq(PatchSet)
    /\ Follows(todo, OfDifferent)
    /\ \A i \in DOMAIN todo :
          /\ todo[i].kind = "remove" => config[todo[i].of] = None
          /\ todo[i].kind # "remove" => config[todo[i].of] # None
          /\ todo[i].kind = "add" /\ todo[i].of \in Teams /\ (i > 1 \/ steps = <<>>) =>
                 live[todo[i].of] = None

\* What GitHub has: lists that end, actors with an identity, selections of what is
\* visible to selected repositories.
LiveInv ==
    /\ DOMAIN live = Objects /\ DOMAIN config = Objects
    /\ \A o \in Objects : IsObject(live[o]) /\ IsObject(config[o])
    /\ DOMAIN ids = Teams
    /\ \A o \in HasActors, t \in Teams : <<t, 0>> \notin live[o].refs
    /\ \A o \in Selective : "selected" \notin live[o].data => live[o].refs = {}

\* Those whom a request that sends a whole list has to contain: they were resolved
\* when the patch began, and a team may be gone since.
Nobody == {<<t, 0>> : t \in Teams}
Kept(o) == IF o \in HasActors THEN Resolved(o, config[o].refs) \ Nobody ELSE Named(o)

SoundUpdate(o, new) ==
    /\ DOMAIN new \subseteq Fields
    /\ "refs" \in DOMAIN new =>
          /\ IsFiniteSet(new.refs)
          /\ IF o \in Teams THEN live[o] = None ELSE Kept(o) \subseteq new.refs
          /\ o \in HasActors => new.refs \cap Nobody = {}
    /\ "checks" \in DOMAIN new => IsFiniteSet(new.checks)
    /\ o \in Selective /\ "data" \in DOMAIN new => new.data = config[o].data
    /\ "data" \in DOMAIN new => new.data # None.data

\* A request takes nobody from a list who is to stay.
SoundEntry(o, s) ==
    /\ s.field \in {"refs", "checks"}
    /\ s.field = "refs" => o \in Teams \cup {"managers"}
    /\ s.op = "exclude" /\ s.field = "refs" =>
          s.item \notin config[o].refs \/ (o \in Teams /\ s.item = Creator)

Sound(o, s) ==
    /\ s.op \in {"put", "include", "exclude", "delete"}
    /\ s.op = "delete" => config[o] = None
    /\ s.op = "put" => SoundUpdate(o, s.item)
    /\ s.op \in {"include", "exclude"} => SoundEntry(o, s)

SendsRefs(s) == s.op = "put" /\ "refs" \in DOMAIN s.item

\* A list of a team is sent as a whole with the first request only, which creates it.
AllSound(o, ss) == \E S : ss \in Seq(S) /\ \A s \in S : Sound(o, s)
NoneSendsRefs(ss) == \E S : ss \in Seq(S) /\ \A s \in S : ~SendsRefs(s)

StepsInv ==
    steps # <<>> =>
        /\ todo # <<>> /\ pc = "applying"
        /\ AllSound(Current.of, steps)
        /\ Current.of \in Teams => NoneSendsRefs(Tail(steps))

KeepInv == LiveInv /\ TodoInv /\ StepsInv

\* The image of a finite set is finite.
LEMMA FiniteImage ==
    ASSUME NEW S, IsFiniteSet(S), NEW f
    PROVE  IsFiniteSet({f[x] : x \in S})
<1> DEFINE T == {f[x] : x \in S}
           g == [x \in S |-> f[x]]
<1>1. g \in Surjection(S, T)
    BY DEF Surjection
<1> QED
    BY <1>1, FS_Surjection
-----------------------------------------------------------------------------
(* The requests of a patch are sound.                                      *)

\* Requests are sound if the parts that they are put together from are.
LEMMA SoundConcat ==
    ASSUME NEW o, NEW s, NEW t, AllSound(o, s), AllSound(o, t)
    PROVE  AllSound(o, s \o t)
<1>1. PICK S : s \in Seq(S) /\ \A x \in S : Sound(o, x)
    BY DEF AllSound
<1>2. PICK T : t \in Seq(T) /\ \A x \in T : Sound(o, x)
    BY DEF AllSound
<1>3. s \in Seq(S \cup T) /\ t \in Seq(S \cup T)
    BY <1>1, <1>2, SeqMonotonic
<1>4. s \o t \in Seq(S \cup T)
    BY <1>3, ConcatProperties
<1>5. \A x \in S \cup T : Sound(o, x)
    BY <1>1, <1>2
<1> HIDE DEF Sound
<1> QED
    BY <1>4, <1>5 DEF AllSound

LEMMA RefsConcat ==
    ASSUME NEW s, NEW t, NoneSendsRefs(s), NoneSendsRefs(t)
    PROVE  NoneSendsRefs(s \o t)
<1>1. PICK S : s \in Seq(S) /\ \A x \in S : ~SendsRefs(x)
    BY DEF NoneSendsRefs
<1>2. PICK T : t \in Seq(T) /\ \A x \in T : ~SendsRefs(x)
    BY DEF NoneSendsRefs
<1>3. s \in Seq(S \cup T) /\ t \in Seq(S \cup T)
    BY <1>1, <1>2, SeqMonotonic
<1>4. s \o t \in Seq(S \cup T)
    BY <1>3, ConcatProperties
<1>5. \A x \in S \cup T : ~SendsRefs(x)
    BY <1>1, <1>2
<1> QED
    BY <1>4, <1>5 DEF NoneSendsRefs

LEMMA NothingIsSound ==
    ASSUME NEW o
    PROVE  AllSound(o, <<>>) /\ NoneSendsRefs(<<>>)
<1> DEFINE S == {}
<1>1. <<>> \in Seq(S) /\ \A x \in S : Sound(o, x) /\ ~SendsRefs(x)
    BY EmptySeq
<1> HIDE DEF S
<1> QED
    BY <1>1 DEF AllSound, NoneSendsRefs

\* A single request.
LEMMA OneIsSound ==
    ASSUME NEW o, NEW x, Sound(o, x)
    PROVE  AllSound(o, <<x>>)
<1> DEFINE S == {x}
<1>1. <<x>> \in Seq(S) /\ \A y \in S : Sound(o, y)
    OBVIOUS
<1> HIDE DEF S
<1> QED
    BY <1>1 DEF AllSound

LEMMA TailOfOne ==
    ASSUME NEW x, NEW t, NoneSendsRefs(t)
    PROVE  NoneSendsRefs(Tail(<<x>> \o t))
<1>1. PICK S : t \in Seq(S) /\ \A y \in S : ~SendsRefs(y)
    BY DEF NoneSendsRefs
<1>2. Tail(<<x>> \o t) = t
    BY <1>1
<1> QED
    BY <1>1, <1>2 DEF NoneSendsRefs

\* A sound update is a sound list of requests.
LEMMA UpdateIsSound ==
    ASSUME NEW o, NEW new, SoundUpdate(o, new)
    PROVE  AllSound(o, <<Update(new)>>)
<1>1. Sound(o, Update(new))
    BY DEF Sound, Update
<1> QED
    BY <1>1, OneIsSound

\* Requests for the entries of a list, one by one.
LEMMA EachIsSound ==
    ASSUME NEW o, NEW act \in {"include", "exclude"}, NEW field \in {"refs", "checks"}, NEW items,
           IsFiniteSet(items),
           field = "refs" => o \in Teams \cup {"managers"},
           field = "refs" /\ act = "exclude" =>
               \A x \in items : x \notin config[o].refs \/ (o \in Teams /\ x = Creator)
    PROVE  AllSound(o, Each(act, field, items)) /\ NoneSendsRefs(Each(act, field, items))
<1> DEFINE S == {Entry(act, field, x) : x \in items}
<1>1. Each(act, field, items) \in Seq(S)
    BY EachFacts
<1>2. \A s \in S : Sound(o, s) /\ ~SendsRefs(s)
    <2> SUFFICES ASSUME NEW x \in items
                 PROVE  Sound(o, Entry(act, field, x)) /\ ~SendsRefs(Entry(act, field, x))
        OBVIOUS
    <2>1. /\ Entry(act, field, x).op = act /\ Entry(act, field, x).field = field
          /\ Entry(act, field, x).item = x
        BY DEF Entry
    <2> QED
        BY <2>1 DEF Sound, SoundEntry, SendsRefs
<1> HIDE DEF S
<1> QED
    BY <1>1, <1>2 DEF AllSound, NoneSendsRefs

\* First those who are missing are added, then those who are not wanted are removed.
LEMMA AddThenRemoveIsSound ==
    ASSUME NEW o, NEW field \in {"refs", "checks"}, NEW current, NEW wanted,
           IsFiniteSet(current), IsFiniteSet(wanted),
           field = "refs" => o \in Teams \cup {"managers"} /\ wanted = config[o].refs
    PROVE  /\ AllSound(o, AddThenRemove(field, current, wanted))
           /\ NoneSendsRefs(AddThenRemove(field, current, wanted))
<1>1. IsFiniteSet(wanted \ current) /\ IsFiniteSet(current \ wanted)
    BY FS_Subset
<1>2. /\ AllSound(o, Each("include", field, wanted \ current))
      /\ NoneSendsRefs(Each("include", field, wanted \ current))
    BY <1>1, EachIsSound
<1>3. /\ AllSound(o, Each("exclude", field, current \ wanted))
      /\ NoneSendsRefs(Each("exclude", field, current \ wanted))
    BY <1>1, EachIsSound
<1> QED
    BY <1>2, <1>3, SoundConcat, RefsConcat DEF AddThenRemove

\* What a patch sends of the configured object.
Sent(o) == [config[o] EXCEPT !.refs = Resolved(o, @), !.checks = StoredChecks(o, @)]

\* What is stored of a name; a team that exists has an identity.
LEMMA IdentityFacts ==
    ASSUME NEW n
    PROVE  /\ n \in Teams => Identity(n) = <<n, ids[n]>>
           /\ n \notin Teams => Identity(n) = <<n, 0>>
           /\ n \in Teams /\ Exists(n) => ids[n] # 0
           /\ Identity(n) \in Nobody => n \in Teams /\ ids[n] = 0
BY TeamsAssumption DEF Identity, Exists, Nobody

\* The kinds of objects are apart.
LEMMA PatchKinds ==
    ASSUME NEW o \in Objects
    PROVE  /\ \/ o \in Teams
              \/ o \in {"managers", "secret", "variable", "orgrule", "repo", "perms",
                        "env", "pages", "branch", "rule"}
           /\ Teams \cap {"managers", "secret", "variable", "orgrule", "repo", "perms",
                          "env", "pages", "branch", "rule"} = {}
<1>1. ToSet(Others) = {"managers", "secret", "variable", "orgrule", "repo", "perms",
                       "env", "pages", "branch", "rule"}
    <2>1. DOMAIN Others = 1..10
        BY DEF Others
    <2> QED
        BY <2>1 DEF ToSet, Others
<1> QED
    BY <1>1, TeamsAssumption DEF Objects

\* Whom a patch names, and what it checks, are lists that end.
LEMMA ResolvedIsFinite ==
    ASSUME NEW o, NEW names, IsFiniteSet(names)
    PROVE  IsFiniteSet(Resolved(o, names))
<1> DEFINE f == [n \in names |-> Identity(n)]
           found == {n \in names : Exists(n)}
<1>1. IsFiniteSet(found)
    BY FS_Subset
<1>2. IsFiniteSet({f[n] : n \in names}) /\ IsFiniteSet({f[n] : n \in found})
    BY <1>1, FiniteImage
<1>3. {f[n] : n \in names} = BypassIds(names)
    BY DEF BypassIds
<1>4. {f[n] : n \in found} = AllowanceIds(names) /\ AllowanceIds(names) = ReviewerIds(names)
    BY DEF AllowanceIds, ReviewerIds
<1> HIDE DEF f, found
<1> QED
    BY <1>2, <1>3, <1>4 DEF Resolved

LEMMA StoredIsFinite ==
    ASSUME NEW o, NEW checks, IsFiniteSet(checks)
    PROVE  IsFiniteSet(StoredChecks(o, checks))
<1> DEFINE f == [c \in checks |-> StoredCheck(o, c)]
<1>1. IsFiniteSet({f[c] : c \in checks})
    BY FiniteImage
<1>2. {f[c] : c \in checks} = StoredChecks(o, checks)
    BY DEF StoredChecks
<1> QED
    BY <1>1, <1>2

\* What a patch sends contains those who are to be kept.
LEMMA SentFacts ==
    ASSUME NEW o \in Objects, IsObject(config[o])
    PROVE  /\ DOMAIN Sent(o) = Fields
           /\ Sent(o).refs = Resolved(o, config[o].refs) /\ Sent(o)["refs"] = Sent(o).refs
           /\ Sent(o).checks = StoredChecks(o, config[o].checks)
           /\ Sent(o).data = config[o].data
           /\ config[o] # None => Sent(o).data # None.data
           /\ IsFiniteSet(Sent(o).refs) /\ IsFiniteSet(Sent(o).checks)
           /\ o \notin HasActors => Sent(o).refs = config[o].refs
           /\ Kept(o) \subseteq Sent(o).refs
<1>1. /\ DOMAIN Sent(o) = Fields
      /\ Sent(o).refs = Resolved(o, config[o].refs)
      /\ Sent(o).checks = StoredChecks(o, config[o].checks)
      /\ Sent(o).data = config[o].data
    BY DEF Sent, IsObject, Fields
<1>2. IsFiniteSet(Sent(o).refs) /\ IsFiniteSet(Sent(o).checks)
    BY <1>1, ResolvedIsFinite, StoredIsFinite DEF IsObject
<1>3. o \notin HasActors => Resolved(o, config[o].refs) = config[o].refs
    BY DEF Resolved, HasActors
<1>4. o \notin HasActors => Named(o) \subseteq config[o].refs
    BY DEF Named
<1> QED
    BY <1>1, <1>2, <1>3, <1>4 DEF Kept, IsObject

\* An actor that is sent exists.
LEMMA SentExist ==
    ASSUME NEW o \in HasActors, IsObject(config[o]), Resolvable(o, config[o])
    PROVE  Resolved(o, config[o].refs) \cap Nobody = {}
<1>1. o \in Rules => \A n \in config[o].refs : Exists(n)
    BY DEF Resolvable, Misses, IsRequired
<1>2. \A r \in Resolved(o, config[o].refs) : \E n : r = Identity(n) /\ Exists(n)
    BY <1>1 DEF Resolved, HasActors, Rules, Environments, BypassIds, AllowanceIds, ReviewerIds
<1> QED
    BY <1>2, IdentityFacts

\* Any of the fields of an object that is not a team.
LEMMA SomeFieldsAreSound ==
    ASSUME NEW o \in Objects \ Teams, IsObject(config[o]), config[o] # None, Resolvable(o, config[o]),
           NEW F \in SUBSET Fields, NEW new, DOMAIN new = F, \A f \in F : new[f] = Sent(o)[f]
    PROVE  AllSound(o, <<Update(new)>>)
<1>1. /\ IsFiniteSet(Sent(o).refs) /\ IsFiniteSet(Sent(o).checks)
      /\ Sent(o).refs = Resolved(o, config[o].refs) /\ Sent(o).data = config[o].data
      /\ Kept(o) \subseteq Sent(o).refs /\ Sent(o).data # None.data
    BY SentFacts
<1>2. o \in HasActors => Sent(o).refs \cap Nobody = {}
    BY <1>1, SentExist
<1>3. /\ "refs" \in F => new.refs = Sent(o).refs
      /\ "checks" \in F => new.checks = Sent(o).checks
      /\ "data" \in F => new.data = Sent(o).data
    OBVIOUS
<1>4. SoundUpdate(o, new)
    BY <1>1, <1>2, <1>3 DEF SoundUpdate
<1> QED
    BY <1>4, UpdateIsSound

\* An object that is sent as a whole.
LEMMA AllFieldsAreSound ==
    ASSUME NEW o \in Objects \ Teams, IsObject(config[o]), config[o] # None, Resolvable(o, config[o])
    PROVE  AllSound(o, <<Update(Sent(o))>>)
BY SentFacts, SomeFieldsAreSound

\* A team that is added: its first request is the only one with a list.
LEMMA TailOfThree ==
    ASSUME NEW x, NEW t, NEW u, NoneSendsRefs(t), NoneSendsRefs(u)
    PROVE  NoneSendsRefs(Tail((<<x>> \o t) \o u))
<1>1. PICK S : t \in Seq(S) /\ \A s \in S : ~SendsRefs(s)
    BY DEF NoneSendsRefs
<1>2. PICK T : u \in Seq(T) /\ \A s \in T : ~SendsRefs(s)
    BY DEF NoneSendsRefs
<1>3. t \in Seq(S \cup T \cup {x}) /\ u \in Seq(S \cup T \cup {x}) /\ <<x>> \in Seq(S \cup T \cup {x})
    BY <1>1, <1>2, SeqMonotonic
<1>4. (<<x>> \o t) \o u = <<x>> \o (t \o u)
    BY <1>3, ConcatAssociative
<1>5. NoneSendsRefs(t \o u)
    BY RefsConcat
<1> QED
    BY <1>4, <1>5, TailOfOne

\* The requests of each kind of patch.
LEMMA TeamStepsAreSound ==
    ASSUME LiveInv, NEW p \in PatchSet, p.of \in Teams, p.kind \in {"add", "change"},
           config[p.of] # None, p.kind = "add" => live[p.of] = None
    PROVE  /\ AllSound(p.of, TeamSteps(p.of, p, Sent(p.of)))
           /\ NoneSendsRefs(Tail(TeamSteps(p.of, p, Sent(p.of))))
<1> DEFINE o == p.of
           c == Sent(o)
<1>1. o \in Objects /\ o \notin HasActors /\ o \notin Selective
    BY PatchKinds DEF PatchSet, HasActors, Rules, Environments, Selective
<1>2. /\ DOMAIN c = Fields /\ c.refs = config[o].refs
      /\ IsFiniteSet(c.refs) /\ IsFiniteSet(c.checks) /\ c.data # None.data
    BY <1>1, SentFacts DEF LiveInv
<1>3. CASE p.kind = "add"
    <2> DEFINE new == [refs |-> {Creator}, checks |-> {}, data |-> c.data]
               out == Each("exclude", "refs", {Creator})
               in == Each("include", "refs", c.refs)
    <2>1. SoundUpdate(o, new)
        BY <1>1, <1>2, <1>3, FS_EmptySet, FS_Singleton DEF SoundUpdate, Fields
    <2>2. AllSound(o, <<Update(new)>>)
        BY <2>1, UpdateIsSound
    <2>3. AllSound(o, out) /\ NoneSendsRefs(out)
        BY FS_Singleton, EachIsSound
    <2>4. AllSound(o, in) /\ NoneSendsRefs(in)
        BY <1>2, EachIsSound
    <2>5. TeamSteps(o, p, c) = (<<Update(new)>> \o out) \o in
        BY <1>3 DEF TeamSteps, AddTeam
    <2> HIDE DEF new, out, in, o, c
    <2>6. AllSound(o, (<<Update(new)>> \o out) \o in)
        BY <2>2, <2>3, <2>4, SoundConcat
    <2>7. NoneSendsRefs(Tail((<<Update(new)>> \o out) \o in))
        BY <2>3, <2>4, TailOfThree
    <2> QED
        BY <2>5, <2>6, <2>7 DEF o, c
<1>4. CASE p.kind = "change"
    <2> DEFINE new == [f \in p.changed \ {"refs"} |-> c[f]]
               list == IF "refs" \in p.changed THEN AddThenRemove("refs", live[o].refs, c.refs) ELSE <<>>
    <2>1. SoundUpdate(o, new)
        <3>1. p.changed \ {"refs"} \subseteq Fields
            BY DEF PatchSet
        <3> QED
            BY <1>1, <1>2, <3>1 DEF SoundUpdate, Fields
    <2>2. AllSound(o, <<Update(new)>>)
        BY <2>1, UpdateIsSound
    <2>3. AllSound(o, list) /\ NoneSendsRefs(list)
        <3>1. IsFiniteSet(live[o].refs)
            BY <1>1 DEF LiveInv, IsObject
        <3>2. /\ AllSound(o, AddThenRemove("refs", live[o].refs, c.refs))
              /\ NoneSendsRefs(AddThenRemove("refs", live[o].refs, c.refs))
            BY <1>2, <3>1, AddThenRemoveIsSound
        <3> QED
            BY <3>2, NothingIsSound
    <2>4. TeamSteps(o, p, c) = <<Update(new)>> \o list
        BY <1>4 DEF TeamSteps, ChangeTeam
    <2> HIDE DEF new, list, o, c
    <2>5. AllSound(o, <<Update(new)>> \o list)
        BY <2>2, <2>3, SoundConcat
    <2>6. NoneSendsRefs(Tail(<<Update(new)>> \o list))
        BY <2>3, TailOfOne
    <2> QED
        BY <2>4, <2>5, <2>6 DEF o, c
<1> QED
    BY <1>3, <1>4

LEMMA RuleStepsAreSound ==
    ASSUME LiveInv, NEW o \in Rules, config[o] # None, Resolvable(o, config[o])
    PROVE  AllSound(o, <<Update(PartsOfRule(Sent(o)))>>)
<1>1. o \in Objects \ Teams /\ IsObject(config[o])
    BY PatchKinds, TeamsAssumption DEF LiveInv, Rules, Objects, Others, ToSet
<1>2. Sent(o)["refs"] = Sent(o).refs /\ Sent(o)["checks"] = Sent(o).checks /\ Sent(o)["data"] = Sent(o).data
    OBVIOUS
<1> DEFINE new == PartsOfRule(Sent(o))
<1>3. \/ new = [refs |-> Sent(o).refs]
      \/ new = [refs |-> Sent(o).refs, checks |-> Sent(o).checks, data |-> Sent(o).data]
    BY DEF PartsOfRule
<1> HIDE DEF new
<1>4. DOMAIN new \in SUBSET Fields /\ \A f \in DOMAIN new : new[f] = Sent(o)[f]
    BY <1>2, <1>3 DEF Fields
<1>5. AllSound(o, <<Update(new)>>)
    BY <1>1, <1>4, SomeFieldsAreSound
<1> QED
    BY <1>5 DEF new

LEMMA VariableStepsAreSound ==
    ASSUME LiveInv, NEW p \in PatchSet, p.of = "variable", config["variable"] # None,
           Resolvable("variable", config["variable"])
    PROVE  AllSound("variable", VariableSteps(p, Sent("variable")))
<1> DEFINE o == "variable"
           c == Sent(o)
<1>1. o \in Objects \ Teams /\ IsObject(config[o])
    BY PatchKinds DEF LiveInv, PatchSet
<1>2. AllSound(o, <<Update(c)>>)
    BY <1>1, AllFieldsAreSound
<1>3. AllSound(o, <<Update([data |-> c.data])>>)
    <2>1. DOMAIN [data |-> c.data] = {"data"} /\ {"data"} \in SUBSET Fields
        BY DEF Fields
    <2> QED
        BY <1>1, <2>1, SomeFieldsAreSound
<1>4. AllSound(o, <<Update([refs |-> c.refs])>>)
    <2>1. DOMAIN [refs |-> c.refs] = {"refs"} /\ {"refs"} \in SUBSET Fields
        BY DEF Fields
    <2> QED
        BY <1>1, <2>1, SomeFieldsAreSound
<1> HIDE DEF o, c
<1>5. AllSound(o, ChangeVariable(c))
    BY <1>3, <1>4, NothingIsSound, SoundConcat DEF ChangeVariable
<1> QED
    BY <1>2, <1>5 DEF VariableSteps, AddVariable, o, c

LEMMA ManagerStepsAreSound ==
    ASSUME LiveInv
    PROVE  AllSound("managers", ManagerSteps(Sent("managers")))
<1>1. "managers" \in Objects /\ "managers" \notin HasActors
    BY DEF Objects, Others, ToSet, HasActors, Rules, Environments
<1>2. IsObject(live["managers"]) /\ IsObject(config["managers"])
    BY <1>1 DEF LiveInv
<1>3. Sent("managers").refs = config["managers"].refs /\ IsFiniteSet(Sent("managers").refs)
    BY <1>1, <1>2, SentFacts
<1>4. IsFiniteSet(ReadManagers)
    BY <1>2 DEF ReadManagers, IsObject
<1> QED
    BY <1>3, <1>4, AddThenRemoveIsSound DEF ManagerSteps

LEMMA PermissionStepsAreSound ==
    ASSUME LiveInv
    PROVE  AllSound("perms", PermissionSteps(Sent("perms")))
<1> DEFINE c == Sent("perms")
           from == ReadPermissions
           kept == {q[1] : q \in c.checks}
           old == {q \in from : q[1] \notin kept}
<1>1. "perms" \in Objects /\ "perms" \notin HasActors
    BY DEF Objects, Others, ToSet, HasActors, Rules, Environments
<1>2. IsObject(live["perms"]) /\ IsObject(config["perms"])
    BY <1>1 DEF LiveInv
<1>3. IsFiniteSet(c.checks)
    BY <1>1, <1>2, SentFacts
<1>4. IsFiniteSet(from)
    <2>1. from \subseteq live["perms"].checks
        BY DEF ReadPermissions
    <2> QED
        BY <1>2, <2>1, FS_Subset DEF IsObject
<1>5. IsFiniteSet(old) /\ IsFiniteSet(c.checks \ from)
    BY <1>3, <1>4, FS_Subset
<1>6. PermissionSteps(c) = Each("exclude", "checks", old) \o Each("include", "checks", c.checks \ from)
    BY DEF PermissionSteps
<1> HIDE DEF c, from, old
<1>7. AllSound("perms", Each("exclude", "checks", old))
    BY <1>5, EachIsSound
<1>8. AllSound("perms", Each("include", "checks", c.checks \ from))
    BY <1>5, EachIsSound
<1> QED
    BY <1>6, <1>7, <1>8, SoundConcat DEF c

LEMMA EnvironmentStepsAreSound ==
    ASSUME LiveInv, NEW p \in PatchSet, p.of \in Environments, config[p.of] # None, Resolvable(p.of, config[p.of])
    PROVE  AllSound(p.of, EnvironmentSteps(p.of, p, Sent(p.of)))
<1> DEFINE o == p.of
           c == Sent(o)
           F == p.changed \ {"checks"}
           new == [f \in F |-> c[f]]
           list == IF "checks" \in p.changed THEN PolicySteps(o, c) ELSE <<>>
<1>1. o \in Objects \ Teams /\ IsObject(config[o]) /\ IsObject(live[o])
    BY PatchKinds DEF LiveInv, PatchSet, Environments
<1>2. AllSound(o, <<Update(new)>>)
    <2>1. F \in SUBSET Fields /\ DOMAIN new = F /\ \A f \in F : new[f] = c[f]
        BY DEF PatchSet
    <2> QED
        BY <1>1, <2>1, SomeFieldsAreSound
<1>3. AllSound(o, list)
    <2>1. IsFiniteSet(c.checks) /\ IsFiniteSet(live[o].checks)
        BY <1>1, SentFacts DEF IsObject
    <2>2. AllSound(o, PolicySteps(o, c))
        BY <2>1, AddThenRemoveIsSound DEF PolicySteps
    <2> QED
        BY <2>2, NothingIsSound
<1>4. EnvironmentSteps(o, p, c) = <<Update(new)>> \o list
    BY DEF EnvironmentSteps
<1> HIDE DEF o, c, new, list
<1> QED
    BY <1>2, <1>3, <1>4, SoundConcat DEF o, c

\* Those changed fields of an object that are sent with one request.
LEMMA ChangedFieldsAreSound ==
    ASSUME LiveInv, NEW p \in PatchSet, p.of \notin Teams, config[p.of] # None, Resolvable(p.of, config[p.of])
    PROVE  AllSound(p.of, <<Update([f \in p.changed |-> Sent(p.of)[f]])>>)
<1>1. p.of \in Objects \ Teams /\ IsObject(config[p.of]) /\ p.changed \in SUBSET Fields
    BY DEF PatchSet, LiveInv
<1> QED
    BY <1>1, SomeFieldsAreSound

\* The requests of any patch take nobody away who is to stay.
LEMMA StepsAreSound ==
    ASSUME LiveInv, NEW p \in PatchSet,
           p.kind = "remove" => config[p.of] = None,
           p.kind = "add" /\ p.of \in Teams => live[p.of] = None,
           p.kind # "remove" => config[p.of] # None /\ Resolvable(p.of, config[p.of])
    PROVE  /\ AllSound(p.of, StepsOf(p))
           /\ p.of \in Teams => NoneSendsRefs(Tail(StepsOf(p)))
<1> DEFINE o == p.of
           c == Sent(o)
<1>1. o \in Objects /\ IsObject(config[o]) /\ p.kind \in {"remove", "add", "change"}
    BY DEF PatchSet, LiveInv
<1>2. CASE p.kind = "remove"
    <2> DEFINE x == Entry("delete", "data", {})
    <2>1. StepsOf(p) = <<x>>
        BY <1>2 DEF StepsOf
    <2>2. Sound(o, x)
        BY <1>2 DEF Sound, Entry
    <2>3. Tail(<<x>>) = <<>>
        OBVIOUS
    <2> HIDE DEF x
    <2> QED
        BY <2>1, <2>2, <2>3, OneIsSound, NothingIsSound
<1>3. CASE p.kind # "remove" /\ o \in Teams
    <2>1. StepsOf(p) = TeamSteps(o, p, c)
        BY <1>3, PatchKinds, <1>1 DEF StepsOf, Sent, Environments
    <2> QED
        BY <1>1, <1>3, <2>1, TeamStepsAreSound
<1>4. CASE p.kind # "remove" /\ o \notin Teams
    <2>1. Resolvable(o, config[o]) /\ config[o] # None /\ o \in Objects \ Teams
        BY <1>1, <1>4
    <2>2. o = "managers" => StepsOf(p) = ManagerSteps(c) /\ AllSound(o, ManagerSteps(c))
        BY <1>4, PatchKinds, <1>1, ManagerStepsAreSound DEF StepsOf, Sent, Environments
    <2>3. o = "secret" => StepsOf(p) = <<Update(c)>> /\ AllSound(o, <<Update(c)>>)
        BY <1>1, <1>4, <2>1, AllFieldsAreSound DEF StepsOf, Sent, Environments, SecretSteps, AddSecret, ChangeSecret
    <2>4. o = "variable" => StepsOf(p) = VariableSteps(p, c) /\ AllSound(o, VariableSteps(p, c))
        BY <1>4, <2>1, VariableStepsAreSound DEF StepsOf, Sent, Environments
    <2>5. o = "orgrule" => StepsOf(p) = <<Update(PartsOfRule(c))>> /\ AllSound(o, <<Update(PartsOfRule(c))>>)
        BY <1>4, <2>1, RuleStepsAreSound DEF StepsOf, Sent, Environments, OrgRuleSteps, Rules
    <2>6. o = "repo" => /\ StepsOf(p) = <<Update([f \in p.changed |-> c[f]])>>
                        /\ AllSound(o, <<Update([f \in p.changed |-> c[f]])>>)
        BY <1>4, <2>1, ChangedFieldsAreSound DEF StepsOf, Sent, Environments, RepoSteps
    <2>7. o = "perms" => StepsOf(p) = PermissionSteps(c) /\ AllSound(o, PermissionSteps(c))
        BY <1>4, PermissionStepsAreSound DEF StepsOf, Sent, Environments
    <2>8. o \in Environments => /\ StepsOf(p) = EnvironmentSteps(o, p, c)
                                /\ AllSound(o, EnvironmentSteps(o, p, c))
        BY <1>4, <2>1, EnvironmentStepsAreSound DEF StepsOf, Sent, Environments
    <2>9. o = "branch" /\ p.kind = "add" => StepsOf(p) = <<Update(c)>> /\ AllSound(o, <<Update(c)>>)
        BY <1>1, <1>4, <2>1, AllFieldsAreSound DEF StepsOf, Sent, BranchSteps, AddBranch, Environments
    <2>10. o = "branch" /\ p.kind # "add" =>
               /\ StepsOf(p) = <<Update([f \in p.changed |-> c[f]])>>
               /\ AllSound(o, <<Update([f \in p.changed |-> c[f]])>>)
        BY <1>4, <2>1, ChangedFieldsAreSound DEF StepsOf, Sent, BranchSteps, ChangeBranch, Environments
    <2>11. o = "rule" => StepsOf(p) = <<Update(PartsOfRule(c))>> /\ AllSound(o, <<Update(PartsOfRule(c))>>)
        BY <1>4, <2>1, RuleStepsAreSound DEF StepsOf, Sent, RepoRuleSteps, Rules, Environments
    <2>12. o \in {"managers", "secret", "variable", "orgrule", "repo", "perms", "env", "pages", "branch", "rule"}
        BY <2>1, PatchKinds
    <2>13. AllSound(o, StepsOf(p))
        <3> HIDE DEF o, c
        <3> QED
            BY <2>2, <2>3, <2>4, <2>5, <2>6, <2>7, <2>8, <2>9, <2>10, <2>11, <2>12 DEF Environments
    <2> QED
        BY <1>4, <2>13
<1> QED
    BY <1>2, <1>3, <1>4
-----------------------------------------------------------------------------
(* What a sound request leaves of the object.                              *)

LEMMA NoneIsObject == \A o : IsObject(None) /\ IsObject(Blank(o)) /\ None.refs = {} /\ Blank(o).refs = {}
BY FS_EmptySet DEF IsObject, None, Blank, Fields

Before(o) == IF live[o] = None THEN Blank(o) ELSE live[o]

\* What a request finds, if only an object that has just been created.
LEMMA BeforeFacts ==
    ASSUME LiveInv, NEW o \in Objects
    PROVE  /\ IsObject(Before(o)) /\ DOMAIN Before(o) = Fields
           /\ o \in HasActors => Before(o).refs \cap Nobody = {}
           /\ o \in Selective /\ "selected" \notin Before(o).data => Before(o).refs = {}
           /\ live[o] # None => Before(o) = live[o]
           /\ Before(o).data # None.data
BY NoneIsObject DEF LiveInv, Before, IsObject, Nobody, None, Blank

\* What a request that sends fields leaves: the fields that it sends, the others as they
\* were, and no entries that what is sent does without.
Merged(o, new) == [f \in Fields |-> IF f \in DOMAIN new THEN new[f] ELSE Before(o)[f]]

LEMMA PutFacts ==
    ASSUME NEW o, NEW s, s.op = "put"
    PROVE  /\ DOMAIN After(o, s) = Fields
           /\ After(o, s).data = Merged(o, s.item).data
           /\ \/ After(o, s).refs = Merged(o, s.item).refs
              \/ o \in Selective /\ "selected" \notin Merged(o, s.item).data /\ After(o, s).refs = {}
           /\ \/ After(o, s).checks = Merged(o, s.item).checks
              \/ After(o, s).checks = {}
           /\ o \in Selective /\ "selected" \notin Merged(o, s.item).data => After(o, s).refs = {}
<1> DEFINE m == Merged(o, s.item)
<1>1. DOMAIN m = Fields
    BY DEF Merged
<1>2. After(o, s) = IF "selected" \in m.data THEN m
                    ELSE CASE o \in Environments -> [m EXCEPT !.checks = {}]
                           [] o \in Selective     -> [m EXCEPT !.refs = {}]
                           [] OTHER               -> m
    BY DEF After, Merged, Before
<1> HIDE DEF m
<1>3. /\ DOMAIN [m EXCEPT !.checks = {}] = Fields /\ [m EXCEPT !.checks = {}].checks = {}
      /\ [m EXCEPT !.checks = {}].refs = m.refs /\ [m EXCEPT !.checks = {}].data = m.data
      /\ DOMAIN [m EXCEPT !.refs = {}] = Fields /\ [m EXCEPT !.refs = {}].refs = {}
      /\ [m EXCEPT !.refs = {}].checks = m.checks /\ [m EXCEPT !.refs = {}].data = m.data
    BY <1>1 DEF Fields
<1>4. o \in Selective => o \notin Environments
    BY DEF Selective, Environments
<1> QED
    BY <1>1, <1>2, <1>3, <1>4 DEF m

LEMMA MergedFacts ==
    ASSUME LiveInv, NEW o \in Objects, NEW new, SoundUpdate(o, new)
    PROVE  /\ Merged(o, new).refs = IF "refs" \in DOMAIN new THEN new.refs ELSE Before(o).refs
           /\ Merged(o, new).data = IF "data" \in DOMAIN new THEN new.data ELSE Before(o).data
           /\ IsFiniteSet(Merged(o, new).refs) /\ IsFiniteSet(Merged(o, new).checks)
           /\ Merged(o, new).data # None.data
           /\ o \in HasActors => Merged(o, new).refs \cap Nobody = {}
<1>1. /\ Merged(o, new).refs = IF "refs" \in DOMAIN new THEN new.refs ELSE Before(o).refs
      /\ Merged(o, new).checks = IF "checks" \in DOMAIN new THEN new.checks ELSE Before(o).checks
      /\ Merged(o, new).data = IF "data" \in DOMAIN new THEN new.data ELSE Before(o).data
    BY DEF Merged, Fields
<1> QED
    BY <1>1, BeforeFacts DEF SoundUpdate, IsObject

\* What requests for single entries leave.
LEMMA EntryFacts ==
    ASSUME LiveInv, NEW o \in Objects, NEW s, SoundEntry(o, s), s.op \in {"include", "exclude"}
    PROVE  /\ IsObject(After(o, s)) /\ After(o, s).data = Before(o).data
           /\ s.op = "include" => Before(o).refs \subseteq After(o, s).refs
           /\ s.op = "exclude" => Before(o).refs \ {s.item} \subseteq After(o, s).refs
           /\ s.field = "checks" => After(o, s).refs = Before(o).refs
           /\ After(o, s).data # None.data
<1>1. /\ DOMAIN Before(o) = Fields /\ IsFiniteSet(Before(o).refs) /\ IsFiniteSet(Before(o).checks)
      /\ Before(o).data # None.data
    BY BeforeFacts DEF IsObject
<1>2. o = "perms" => s.field = "checks"
    BY TeamsAssumption DEF SoundEntry, Others, ToSet
<1>3. CASE s.op = "include" /\ o = "perms"
    <2> DEFINE rest == {p \in Before(o).checks : p[1] # s.item[1]} \cup {s.item}
    <2>1. IsFiniteSet(rest)
        BY <1>1, FS_Subset, FS_AddElement
    <2>2. After(o, s) = [Before(o) EXCEPT !.checks = rest]
        BY <1>3 DEF After, Before
    <2> HIDE DEF rest
    <2> QED
        BY <1>1, <1>2, <1>3, <2>1, <2>2 DEF IsObject, Fields
<1>4. CASE s.op = "include" /\ o # "perms"
    <2>1. After(o, s) = [Before(o) EXCEPT ![s.field] = @ \cup {s.item}]
        BY <1>4 DEF After, Before
    <2>2. IsFiniteSet(Before(o).refs \cup {s.item}) /\ IsFiniteSet(Before(o).checks \cup {s.item})
        BY <1>1, FS_AddElement
    <2> QED
        BY <1>1, <1>4, <2>1, <2>2 DEF IsObject, Fields, SoundEntry
<1>5. CASE s.op = "exclude"
    <2>1. After(o, s) = [Before(o) EXCEPT ![s.field] = @ \ {s.item}]
        BY <1>5 DEF After, Before
    <2>2. IsFiniteSet(Before(o).refs \ {s.item}) /\ IsFiniteSet(Before(o).checks \ {s.item})
        BY <1>1, FS_RemoveElement
    <2> QED
        BY <1>1, <1>5, <2>1, <2>2 DEF IsObject, Fields, SoundEntry
<1> QED
    BY <1>3, <1>4, <1>5

\* What a sound request leaves: an object, without actors that have no identity, and
\* with a selection only if it is for selected repositories.
LEMMA AfterFacts ==
    ASSUME LiveInv, NEW o \in Objects, NEW s, Sound(o, s)
    PROVE  /\ IsObject(After(o, s))
           /\ s.op # "delete" => After(o, s) # None
           /\ o \in HasActors => After(o, s).refs \cap Nobody = {}
           /\ o \in Selective /\ "selected" \notin After(o, s).data => After(o, s).refs = {}
<1>1. CASE s.op = "delete"
    <2>1. After(o, s) = None
        BY <1>1 DEF After
    <2> QED
        BY <1>1, <2>1, NoneIsObject
<1>2. CASE s.op = "put"
    <2>1. SoundUpdate(o, s.item)
        BY <1>2 DEF Sound
    <2>2. /\ DOMAIN After(o, s) = Fields /\ After(o, s).data # None.data
          /\ IsFiniteSet(After(o, s).refs) /\ IsFiniteSet(After(o, s).checks)
        <3>1. /\ IsFiniteSet(Merged(o, s.item).refs) /\ IsFiniteSet(Merged(o, s.item).checks)
              /\ Merged(o, s.item).data # None.data
            BY <2>1, MergedFacts
        <3>2. /\ DOMAIN After(o, s) = Fields
              /\ After(o, s).data = Merged(o, s.item).data
              /\ After(o, s).refs = Merged(o, s.item).refs \/ After(o, s).refs = {}
              /\ After(o, s).checks = Merged(o, s.item).checks \/ After(o, s).checks = {}
            BY <1>2, PutFacts
        <3> QED
            BY <3>1, <3>2, FS_EmptySet
    <2>3. IsObject(After(o, s)) /\ After(o, s) # None
        BY <2>2 DEF IsObject
    <2> QED
        BY <1>2, <2>1, <2>3, PutFacts, MergedFacts
<1>3. CASE s.op \in {"include", "exclude"}
    <2>1. SoundEntry(o, s)
        BY <1>3 DEF Sound
    <2>2. o \in HasActors \cup Selective => s.field = "checks"
        BY <2>1, TeamsAssumption DEF SoundEntry, HasActors, Rules, Environments, Selective, Others, ToSet
    <2> QED
        BY <1>3, <2>1, <2>2, EntryFacts, BeforeFacts
<1> QED
    BY <1>1, <1>2, <1>3 DEF Sound

\* Whoever is named before and is to be named stays.
LEMMA NobodyIsLost ==
    ASSUME LiveInv, NEW o \in Objects, NEW s, Sound(o, s), live[o] # None, config[o] # None
    PROVE  (live[o].refs \cap Resolved(o, Named(o))) \ (IF o \in Teams THEN {Creator} ELSE {})
               \subseteq After(o, s).refs
<1>1. Before(o) = live[o]
    BY BeforeFacts
<1>2. live[o].refs \cap Resolved(o, Named(o)) \subseteq Kept(o) /\ Kept(o) \subseteq Resolved(o, config[o].refs)
    <2>1. o \in HasActors => Named(o) = config[o].refs
        BY DEF Named, HasActors, Selective, Rules, Environments
    <2>2. o \notin HasActors => Resolved(o, Named(o)) = Named(o) /\ Resolved(o, config[o].refs) = config[o].refs
        BY DEF Resolved, HasActors
    <2>3. o \in HasActors => live[o].refs \cap Nobody = {}
        BY <1>1, BeforeFacts
    <2>4. Named(o) \subseteq config[o].refs
        BY DEF Named
    <2> QED
        BY <2>1, <2>2, <2>3, <2>4 DEF Kept
<1>3. CASE s.op = "put"
    <2>1. SoundUpdate(o, s.item)
        BY <1>3 DEF Sound
    <2>2. live[o].refs \cap Resolved(o, Named(o)) \subseteq Merged(o, s.item).refs
        BY <1>1, <1>2, <2>1, MergedFacts DEF SoundUpdate
    <2>3. CASE o \in Selective /\ "selected" \notin Merged(o, s.item).data
        <3>1. CASE "data" \in DOMAIN s.item
            <4>1. Named(o) = {}
                BY <2>1, <2>3, <3>1, MergedFacts DEF SoundUpdate, Named
            <4>2. o \notin HasActors
                BY <2>3 DEF HasActors, Selective, Rules, Environments
            <4> QED
                BY <4>1, <4>2 DEF Resolved, HasActors
        <3>2. CASE "data" \notin DOMAIN s.item
            <4>1. live[o].refs = {}
                BY <1>1, <2>1, <2>3, <3>2, MergedFacts, BeforeFacts
            <4> QED
                BY <4>1
        <3> QED
            BY <3>1, <3>2
    <2>4. CASE ~(o \in Selective /\ "selected" \notin Merged(o, s.item).data)
        BY <1>3, <2>2, <2>4, PutFacts
    <2> QED
        BY <2>3, <2>4
<1>4. CASE s.op = "include"
    <2>1. SoundEntry(o, s)
        BY <1>4 DEF Sound
    <2> QED
        BY <1>1, <1>4, <2>1, EntryFacts
<1>5. CASE s.op = "exclude"
    <2>1. SoundEntry(o, s)
        BY <1>5 DEF Sound
    <2>2. CASE s.field = "checks"
        BY <1>1, <1>5, <2>1, <2>2, EntryFacts
    <2>3. CASE s.field = "refs"
        <3>1. o \notin HasActors
            BY <2>1, <2>3, TeamsAssumption DEF SoundEntry, HasActors, Rules, Environments, Others, ToSet
        <3>2. Resolved(o, Named(o)) \subseteq config[o].refs
            BY <3>1 DEF Resolved, HasActors, Named
        <3>3. s.item \notin config[o].refs \/ (o \in Teams /\ s.item = Creator)
            BY <1>5, <2>1, <2>3 DEF SoundEntry
        <3> QED
            BY <1>1, <1>5, <2>1, <3>2, <3>3, EntryFacts
    <2> QED
        BY <2>1, <2>2, <2>3 DEF SoundEntry
<1> QED
    BY <1>3, <1>4, <1>5 DEF Sound
-----------------------------------------------------------------------------
(* References: the plan.                                                   *)

\* Each object has one place in the order of a plan.
LEMMA OrderFacts ==
    /\ Order \in Seq(Objects)
    /\ \A i, j \in DOMAIN Order : i # j => Order[i] # Order[j]
<1> DEFINE s == SetToSeq(Teams)
           K == {"managers", "secret", "variable", "orgrule", "repo", "perms",
                 "env", "pages", "branch", "rule"}
<1>1. s \in Seq(Teams) /\ \A i, j \in DOMAIN s : i # j => s[i] # s[j]
    BY SetAsSequence, TeamsAssumption
<1>2. /\ Others \in Seq(K) /\ Len(Others) = 10
      /\ \A i, j \in 1..10 : i # j => Others[i] # Others[j]
    BY DEF Others
<1>3. ToSet(Others) = K
    BY <1>2 DEF ToSet, Others
<1>4. Teams \cap K = {} /\ Objects = Teams \cup K
    BY <1>3, TeamsAssumption DEF Objects
<1> HIDE DEF s, K
<1>5. s \in Seq(Objects) /\ Others \in Seq(Objects)
    BY <1>1, <1>2, <1>4, SeqMonotonic
<1>6. PICK n \in Nat : n = Len(s)
    BY <1>5, LenProperties
<1>7. /\ s \o Others \in Seq(Objects) /\ Len(s \o Others) = n + 10
      /\ \A i \in 1..n + 10 : (s \o Others)[i] = IF i <= n THEN s[i] ELSE Others[i - n]
    <2>1. /\ s \o Others \in Seq(Objects) /\ Len(s \o Others) = Len(s) + Len(Others)
          /\ \A i \in 1..Len(s) + Len(Others) :
                 (s \o Others)[i] = IF i <= Len(s) THEN s[i] ELSE Others[i - Len(s)]
        BY <1>5, ConcatProperties
    <2> QED
        BY <1>2, <1>6, <2>1
<1>8. /\ DOMAIN s = 1..n /\ \A i \in 1..n : s[i] \in Teams
      /\ \A i \in 1..10 : Others[i] \in K
    <2>1. DOMAIN s = 1..n
        BY <1>1, <1>6, LenProperties
    <2>2. \A i \in 1..n : s[i] \in Teams
        BY <1>1, <1>6, ElementOfSeq
    <2>3. \A i \in 1..10 : Others[i] \in K
        BY <1>2, ElementOfSeq
    <2> QED
        BY <2>1, <2>2, <2>3
<1>9. ASSUME NEW i \in 1..n + 10, i > n
      PROVE  i - n \in 1..10 /\ (s \o Others)[i] = Others[i - n]
    BY <1>7, <1>9
<1>10. ASSUME NEW i \in 1..n + 10, i <= n
       PROVE  i \in 1..n /\ (s \o Others)[i] = s[i]
    BY <1>7, <1>10
<1>11. ASSUME NEW i \in 1..n + 10, NEW j \in 1..n + 10, i # j
       PROVE  (s \o Others)[i] # (s \o Others)[j]
    <2>1. CASE i <= n /\ j <= n
        BY <1>1, <1>8, <1>10, <1>11, <2>1
    <2>2. CASE i <= n /\ j > n
        <3>1. (s \o Others)[i] \in Teams /\ (s \o Others)[j] \in K
            BY <1>8, <1>9, <1>10, <2>2
        <3> QED
            BY <1>4, <3>1
    <2>3. CASE i > n /\ j <= n
        <3>1. (s \o Others)[j] \in Teams /\ (s \o Others)[i] \in K
            BY <1>8, <1>9, <1>10, <2>3
        <3> QED
            BY <1>4, <3>1
    <2>4. CASE i > n /\ j > n
        <3>1. /\ i - n \in 1..10 /\ j - n \in 1..10
              /\ (s \o Others)[i] = Others[i - n] /\ (s \o Others)[j] = Others[j - n]
            BY <1>9, <2>4
        <3>2. i - n # j - n
            BY <1>11
        <3> QED
            BY <1>2, <3>1, <3>2
    <2>5. (i <= n \/ i > n) /\ (j <= n \/ j > n)
        OBVIOUS
    <2> QED
        BY <2>1, <2>2, <2>3, <2>4, <2>5
<1>12. Order = s \o Others /\ DOMAIN (s \o Others) = 1..n + 10
    BY <1>7, LenProperties DEF Order, s
<1> QED
    BY <1>7, <1>11, <1>12

\* A patch of an object is of the kind that live and configured object call for.
LEMMA PatchFacts ==
    ASSUME NEW o \in Objects
    PROVE  /\ Patch(o) \in Seq(PatchSet) /\ Follows(Patch(o), OfDifferent)
           /\ \A p \in Range(Patch(o)) :
                 /\ p.of = o
                 /\ p.kind = "remove" => config[o] = None
                 /\ p.kind # "remove" => config[o] # None
                 /\ p.kind = "add" => live[o] = None
<1> DEFINE remove == [of |-> o, kind |-> "remove", changed |-> {}]
           add == [of |-> o, kind |-> "add", changed |-> Fields]
           change == [of |-> o, kind |-> "change", changed |-> Differing(o)]
<1>1. remove \in PatchSet /\ add \in PatchSet /\ change \in PatchSet
    BY DEF PatchSet, Differing, Included
<1>2. \/ Patch(o) = <<>>
      \/ Patch(o) = <<remove>> /\ config[o] = None
      \/ Patch(o) = <<add>> /\ config[o] # None /\ live[o] = None
      \/ Patch(o) = <<change>> /\ config[o] # None
    BY DEF Patch
<1>3. CASE Patch(o) = <<>>
    <2>1. <<>> \in Seq(PatchSet) /\ DOMAIN <<>> = {}
        OBVIOUS
    <2> QED
        BY <1>3, <2>1 DEF Follows, Range
<1>4. ASSUME NEW p, Patch(o) = <<p>>, p \in PatchSet
      PROVE  /\ Patch(o) \in Seq(PatchSet) /\ Follows(Patch(o), OfDifferent)
             /\ \A q \in Range(Patch(o)) : q = p
    <2>1. <<p>> \in Seq(PatchSet) /\ DOMAIN <<p>> = {1} /\ <<p>>[1] = p
        BY <1>4
    <2> QED
        BY <1>4, <2>1 DEF Follows, Range
<1>5. remove.of = o /\ add.of = o /\ change.of = o
      /\ remove.kind = "remove" /\ add.kind = "add" /\ change.kind = "change"
    OBVIOUS
<1> HIDE DEF remove, add, change
<1> QED
    BY <1>1, <1>2, <1>3, <1>4, <1>5

\* A plan has each object once.
LEMMA PlanFacts ==
    /\ Patches \in Seq(PatchSet) /\ Follows(Patches, OfDifferent)
    /\ \A i \in DOMAIN Patches :
          /\ Patches[i].kind = "remove" => config[Patches[i].of] = None
          /\ Patches[i].kind # "remove" => config[Patches[i].of] # None
          /\ Patches[i].kind = "add" => live[Patches[i].of] = None
<1> DEFINE ss == [i \in DOMAIN Order |-> Patch(Order[i])]
<1>1. /\ DOMAIN Order = 1..Len(Order) /\ Len(Order) \in Nat
      /\ \A i \in DOMAIN Order : Order[i] \in Objects
    BY OrderFacts, LenProperties, ElementOfSeq
<1>2. \A i \in DOMAIN Order : ss[i] = Patch(Order[i]) /\ ss[i] \in Seq(PatchSet)
    BY <1>1, PatchFacts
<1>3. ss \in [1..Len(Order) -> Seq(PatchSet)] /\ DOMAIN ss = DOMAIN Order
    BY <1>1, <1>2
<1>4. Patches = FlattenSeq(ss)
    BY DEF Patches
<1> HIDE DEF ss
<1>5. ss \in Seq(Seq(PatchSet))
    BY <1>1, <1>3, SeqDef
<1>6. FlattenSeq(ss) \in Seq(PatchSet) /\ Range(FlattenSeq(ss)) = UNION {Range(ss[i]) : i \in DOMAIN ss}
    BY <1>5, FlattenRange
<1>7. \A i \in DOMAIN ss : Follows(ss[i], OfDifferent)
    BY <1>1, <1>2, <1>3, PatchFacts
<1>8. ASSUME NEW i \in DOMAIN ss, NEW j \in DOMAIN ss, i < j, NEW x \in Range(ss[i]), NEW y \in Range(ss[j])
      PROVE  <<x, y>> \in OfDifferent
    <2>1. Order[i] \in Objects /\ Order[j] \in Objects /\ Order[i] # Order[j]
        BY <1>1, <1>3, <1>8, OrderFacts
    <2>2. x.of = Order[i] /\ y.of = Order[j]
        BY <1>2, <1>3, <2>1, PatchFacts
    <2>3. x \in PatchSet /\ y \in PatchSet
        BY <1>2, <1>3, RangeOfSeq
    <2> QED
        BY <2>1, <2>2, <2>3 DEF OfDifferent
<1>9. Follows(FlattenSeq(ss), OfDifferent)
    BY <1>5, <1>7, <1>8, FlattenFollows
<1>10. ASSUME NEW p \in Range(Patches)
       PROVE  /\ p.kind = "remove" => config[p.of] = None
              /\ p.kind # "remove" => config[p.of] # None
              /\ p.kind = "add" => live[p.of] = None
    <2>1. PICK i \in DOMAIN ss : p \in Range(ss[i])
        BY <1>4, <1>6
    <2> QED
        BY <1>1, <1>2, <1>3, <2>1, PatchFacts
<1>11. \A i \in DOMAIN Patches : Patches[i] \in Range(Patches)
    BY DEF Range
<1> QED
    BY <1>4, <1>6, <1>9, <1>10, <1>11

\* The patches that are left when one is done, or goes on.
LEMMA TodoStays ==
    ASSUME TodoInv, config' = config,
           \/ todo' = todo /\ (steps' = <<>> => steps = <<>>)
           \/ todo # <<>> /\ todo' = Tail(todo),
           \A t \in Teams : live[t] = None /\ live'[t] # None =>
               todo # <<>> /\ steps # <<>> /\ t = Current.of
    PROVE  TodoInv'
<1>1. /\ Len(todo) \in Nat /\ DOMAIN todo = 1..Len(todo)
      /\ \A i \in DOMAIN todo : todo[i] \in PatchSet
      /\ todo # <<>> => Current = todo[1] /\ Len(todo) > 0
    BY LenProperties, ElementOfSeq, EmptySeq DEF TodoInv, Current
<1>2. ASSUME NEW i \in DOMAIN todo, i > 1
      PROVE  todo[i].of # Current.of
    <2>1. 1 \in DOMAIN todo /\ 1 < i /\ todo # <<>>
        BY <1>1, <1>2
    <2>2. <<todo[1], todo[i]>> \in OfDifferent
        BY <1>2, <2>1 DEF TodoInv, Follows
    <2> QED
        BY <1>1, <2>1, <2>2 DEF OfDifferent
<1>3. CASE todo' = todo /\ (steps' = <<>> => steps = <<>>)
    <2>1. ASSUME NEW i \in DOMAIN todo', todo'[i].kind = "add", todo'[i].of \in Teams, i > 1 \/ steps' = <<>>
          PROVE  live'[todo'[i].of] = None
        <3>1. live[todo[i].of] = None
            BY <1>3, <2>1 DEF TodoInv
        <3>2. i > 1 => todo[i].of # Current.of
            BY <1>2, <1>3
        <3> QED
            BY <1>3, <2>1, <3>1, <3>2
    <2> QED
        BY <1>3, <2>1 DEF TodoInv
<1>4. CASE todo # <<>> /\ todo' = Tail(todo)
    <2>1. /\ todo' \in Seq(PatchSet) /\ Len(todo') = Len(todo) - 1 /\ DOMAIN todo' = 1..Len(todo')
          /\ \A i \in 1..Len(todo') : todo'[i] = todo[i + 1]
        BY <1>4, HeadTailProperties, LenProperties DEF TodoInv
    <2>2. \A i \in DOMAIN todo' : i + 1 \in DOMAIN todo /\ i + 1 > 1 /\ todo'[i] = todo[i + 1]
        BY <1>1, <2>1
    <2>3. Follows(todo', OfDifferent)
        <3> SUFFICES ASSUME NEW i \in DOMAIN todo', NEW j \in DOMAIN todo', i < j
                     PROVE  <<todo'[i], todo'[j]>> \in OfDifferent
            BY DEF Follows
        <3>1. i + 1 < j + 1
            BY <2>1
        <3> QED
            BY <2>2, <3>1 DEF TodoInv, Follows
    <2>4. ASSUME NEW i \in DOMAIN todo'
          PROVE  /\ todo'[i].kind = "remove" => config'[todo'[i].of] = None
                 /\ todo'[i].kind # "remove" => config'[todo'[i].of] # None
                 /\ todo'[i].kind = "add" /\ todo'[i].of \in Teams => live'[todo'[i].of] = None
        <3> DEFINE k == i + 1
        <3>1. k \in DOMAIN todo /\ k > 1 /\ todo'[i] = todo[k]
            BY <2>2
        <3> HIDE DEF k
        <3>2. /\ todo[k].kind = "remove" => config[todo[k].of] = None
              /\ todo[k].kind # "remove" => config[todo[k].of] # None
              /\ todo[k].kind = "add" /\ todo[k].of \in Teams => live[todo[k].of] = None
            BY <3>1 DEF TodoInv
        <3>3. todo[k].of # Current.of
            BY <1>2, <3>1
        <3> QED
            BY <3>1, <3>2, <3>3
    <2> QED
        BY <2>1, <2>3, <2>4 DEF TodoInv
<1> QED
    BY <1>3, <1>4
-----------------------------------------------------------------------------
(* What the steps preserve.                                                *)

\* Teams that are gone take names from those that have to be there, never add any.
LEMMA KeptShrinks ==
    ASSUME NEW o \in Objects \ Teams, config' = config,
           o \in HasActors => /\ \A t \in Teams : ids'[t] \in {ids[t], 0}
                              /\ live["repo"] = None => live'["repo"] = None
    PROVE  Kept(o)' \subseteq Kept(o)
<1>1. CASE o \notin HasActors
    BY <1>1 DEF Kept, Named
<1>2. CASE o \in HasActors
    <2>1. ASSUME NEW n, Identity(n)' \notin Nobody
          PROVE  Identity(n)' = Identity(n)
        BY <1>2, <2>1 DEF Identity, Nobody
    <2>2. ASSUME NEW n, Exists(n)'
          PROVE  Exists(n)
        BY <1>2, <2>2 DEF Exists
    <2>3. CASE o \in Rules
        <3>1. /\ Kept(o)' = BypassIds(config[o].refs)' \ Nobody
              /\ Kept(o) = BypassIds(config[o].refs) \ Nobody
            BY <1>2, <2>3 DEF Kept, Resolved, Nobody, Rules, Environments
        <3> QED
            BY <2>1, <3>1 DEF BypassIds
    <2>4. CASE o = "branch" \/ o \in Environments
        <3>1. o \notin Rules
            BY <2>4 DEF Rules, Environments
        <3>2. /\ Kept(o)' = AllowanceIds(config[o].refs)' \ Nobody
              /\ Kept(o) = AllowanceIds(config[o].refs) \ Nobody
            BY <1>2, <2>4, <3>1 DEF Kept, Resolved, Nobody, AllowanceIds, ReviewerIds
        <3> QED
            BY <2>1, <2>2, <3>2 DEF AllowanceIds
    <2> QED
        BY <1>2, <2>3, <2>4 DEF HasActors
<1> QED
    BY <1>1, <1>2

\* A request stays sound when nobody else is to be kept.
LEMMA SoundStays ==
    ASSUME NEW o \in Objects, NEW s, Sound(o, s), config' = config,
           o \in Teams => ~SendsRefs(s) \/ (live[o] = None => live'[o] = None),
           o \notin Teams => Kept(o)' \subseteq Kept(o)
    PROVE  Sound(o, s)'
<1>1. SoundEntry(o, s)' <=> SoundEntry(o, s)
    BY DEF SoundEntry
<1>2. s.op = "put" /\ SoundUpdate(o, s.item) => SoundUpdate(o, s.item)'
    BY DEF SoundUpdate, SendsRefs, Nobody
<1> QED
    BY <1>1, <1>2 DEF Sound

LEMMA TailOf ==
    ASSUME NEW S, NEW s \in Seq(S), s # <<>>
    PROVE  Tail(s) \in Seq(S) /\ (Len(s) = 1 <=> Tail(s) = <<>>) /\ Head(s) \in S
<1>1. Tail(s) \in Seq(S) /\ Len(Tail(s)) = Len(s) - 1 /\ Head(s) \in S
    BY HeadTailProperties
<1>2. PICK n \in Nat, m \in Nat : n = Len(s) /\ m = Len(Tail(s))
    BY <1>1, LenProperties
<1>3. n = 1 <=> m = 0
    BY <1>1, <1>2
<1>4. m = 0 <=> Tail(s) = <<>>
    BY <1>1, <1>2, EmptySeq
<1> QED
    BY <1>1, <1>2, <1>3, <1>4

LEMMA BothSets ==
    ASSUME NEW S, NEW T, NEW s, s \in Seq(S), s \in Seq(T)
    PROVE  s \in Seq(S \cap T)
<1>1. Len(s) \in Nat /\ s \in [1..Len(s) -> S] /\ s \in [1..Len(s) -> T]
    BY LenProperties
<1>2. s \in [1..Len(s) -> S \cap T]
    BY <1>1
<1> QED
    BY <1>1, <1>2, SeqDef

\* The request that is next is sound, and so are the others when it is done.
LEMMA NextIsSound ==
    ASSUME StepsInv, TodoInv, steps # <<>>
    PROVE  /\ Sound(Current.of, Head(steps)) /\ Current.of \in Objects /\ todo # <<>>
           /\ pc = "applying" /\ Current \in PatchSet
<1>1. todo # <<>> /\ AllSound(Current.of, steps) /\ pc = "applying"
    BY DEF StepsInv
<1>2. PICK S : steps \in Seq(S) /\ \A s \in S : Sound(Current.of, s)
    BY <1>1 DEF AllSound
<1>3. Head(steps) \in S
    BY <1>2, TailOf
<1>4. Current \in PatchSet
    BY <1>1, TailOf DEF TodoInv, Current
<1> QED
    BY <1>1, <1>2, <1>3, <1>4 DEF PatchSet

\* The requests that are left are sound, and those of the next patch not resolved yet.
LEMMA AdvanceIsSound ==
    ASSUME TodoInv, StepsInv, steps # <<>>, Advance, config' = config, pc' = pc,
           NEW o, o = Current.of, o \notin Teams => Kept(o)' \subseteq Kept(o)
    PROVE  StepsInv'
<1> SUFFICES ASSUME steps' # <<>>
             PROVE  /\ todo' # <<>> /\ pc' = "applying"
                    /\ AllSound(Current.of, steps)'
                    /\ Current'.of \in Teams => NoneSendsRefs(Tail(steps'))
    BY DEF StepsInv, NoneSendsRefs
<1>1. /\ AllSound(Current.of, steps) /\ Current.of \in Objects /\ todo # <<>> /\ pc = "applying"
      /\ Current.of \in Teams => NoneSendsRefs(Tail(steps))
    BY NextIsSound DEF StepsInv
<1>2. PICK S : steps \in Seq(S) /\ \A s \in S : Sound(Current.of, s)
    BY <1>1 DEF AllSound
<1>3. steps' = Tail(steps) /\ steps' \in Seq(S)
    BY <1>2, TailOf DEF Advance
<1>4. todo' = todo
    BY <1>2, <1>3, TailOf DEF Advance
<1>5. Current' = Current /\ Current'.of = o
    BY <1>4 DEF Current
<1>6. CASE o \notin Teams
    <2>1. \A s \in S : Sound(o, s)'
        BY <1>1, <1>2, <1>6, SoundStays
    <2>2. AllSound(o, steps)'
        BY <1>3, <2>1 DEF AllSound
    <2> QED
        BY <1>1, <1>4, <1>5, <1>6, <2>2 DEF AllSound
<1>7. CASE o \in Teams
    <2>1. PICK T : steps' \in Seq(T) /\ \A s \in T : ~SendsRefs(s)
        BY <1>1, <1>3, <1>7 DEF NoneSendsRefs
    <2>2. steps' \in Seq(S \cap T)
        BY <1>3, <2>1, BothSets
    <2>3. \A s \in S \cap T : Sound(o, s)'
        BY <1>1, <1>2, <1>7, <2>1, SoundStays
    <2>4. AllSound(o, steps)'
        BY <2>2, <2>3 DEF AllSound
    <2>5. Tail(steps') \in Seq(T)
        BY <2>1, TailOf
    <2>6. NoneSendsRefs(Tail(steps'))
        BY <2>1, <2>5 DEF NoneSendsRefs
    <2> QED
        BY <1>1, <1>4, <1>5, <2>4, <2>6 DEF AllSound
<1> QED
    BY <1>6, <1>7

\* A step that leaves the requests alone and takes teams away, if anything.
LEMMA StepsStaySound ==
    ASSUME TodoInv, StepsInv, UNCHANGED <<config, pc, todo, steps>>,
           \A t \in Teams : live[t] = None => live'[t] = None,
           \A t \in Teams : ids'[t] \in {ids[t], 0},
           live["repo"] = None => live'["repo"] = None
    PROVE  StepsInv'
<1> SUFFICES ASSUME steps # <<>>
             PROVE  AllSound(Current.of, steps)'
    BY DEF StepsInv, NoneSendsRefs, SendsRefs, Current
<1>1. AllSound(Current.of, steps) /\ Current.of \in Objects
    BY NextIsSound DEF StepsInv
<1>2. PICK o : o = Current.of
    OBVIOUS
<1>3. o \notin Teams => Kept(o)' \subseteq Kept(o)
    BY <1>1, <1>2, KeptShrinks
<1>4. PICK S : steps \in Seq(S) /\ \A s \in S : Sound(o, s)
    BY <1>1, <1>2 DEF AllSound
<1>5. \A s \in S : Sound(o, s)'
    BY <1>1, <1>2, <1>3, <1>4, SoundStays
<1>6. Current'.of = o /\ steps' \in Seq(S)
    BY <1>2, <1>4 DEF Current
<1> QED
    BY <1>5, <1>6 DEF AllSound

\* An object remains one when somebody is taken out of its list.
LEMMA FewerRefs ==
    ASSUME NEW x, NEW n, IsObject(x)
    PROVE  LET y == [x EXCEPT !.refs = @ \ {n}]
           IN  IsObject(y) /\ y.data = x.data /\ y.refs \subseteq x.refs
<1> DEFINE r == x.refs \ {n}
           y == [x EXCEPT !.refs = r]
<1>1. /\ DOMAIN x = Fields /\ IsFiniteSet(r) /\ IsFiniteSet(x.checks)
      /\ x # None => x.data # None.data
    BY FS_Subset DEF IsObject
<1>2. x = None => r = {}
    BY DEF None
<1>3. r \subseteq x.refs
    OBVIOUS
<1> HIDE DEF r
<1>4. DOMAIN y = Fields /\ y.refs = r /\ y.checks = x.checks /\ y.data = x.data
    BY <1>1 DEF Fields
<1>5. x = None => y = None
    BY <1>2 DEF None
<1>6. IsObject(y)
    BY <1>1, <1>4, <1>5 DEF IsObject
<1> QED
    BY <1>3, <1>4, <1>6 DEF r

LEMMA FewerChecks ==
    ASSUME NEW x, IsObject(x), NEW c \in SUBSET x.checks
    PROVE  LET y == [x EXCEPT !.checks = c]
           IN  IsObject(y) /\ y.data = x.data /\ y.refs \subseteq x.refs
<1> DEFINE y == [x EXCEPT !.checks = c]
<1>1. /\ DOMAIN x = Fields /\ IsFiniteSet(x.refs) /\ IsFiniteSet(c)
      /\ x # None => x.data # None.data
    BY FS_Subset DEF IsObject
<1>2. x = None => c = {}
    BY DEF None
<1>3. DOMAIN y = Fields /\ y.refs = x.refs /\ y.checks = c /\ y.data = x.data
    BY <1>1 DEF Fields
<1>4. x = None => y = None
    BY <1>2 DEF None
<1>5. IsObject(y)
    BY <1>1, <1>3, <1>4 DEF IsObject
<1> QED
    BY <1>3, <1>5

\* What goes with a team or a repository.
LEMMA WithoutFacts ==
    ASSUME NEW l, NEW n, DOMAIN l = Objects, \A o \in Objects : IsObject(l[o])
    PROVE  /\ DOMAIN Without(l, n) = Objects
           /\ \A o \in Objects :
                 /\ IsObject(Without(l, n)[o]) /\ Without(l, n)[o].data = l[o].data
                 /\ Without(l, n)[o].refs \subseteq l[o].refs
                 /\ o \notin {"managers", "perms", "secret", "variable"} => Without(l, n)[o] = l[o]
<1> DEFINE m == [l["managers"] EXCEPT !.refs = @ \ {n}]
           c == {p \in l["perms"].checks : p[1] # n}
           q == [l["perms"] EXCEPT !.checks = c]
           s == [l["secret"] EXCEPT !.refs = @ \ {n}]
           v == [l["variable"] EXCEPT !.refs = @ \ {n}]
<1>1. {"managers", "perms", "secret", "variable"} \subseteq Objects
    BY DEF Objects, Others, ToSet
<1>2. \A o \in {"managers", "perms", "secret", "variable"} : IsObject(l[o])
    BY <1>1
<1>3. /\ IsObject(m) /\ m.data = l["managers"].data /\ m.refs \subseteq l["managers"].refs
      /\ IsObject(q) /\ q.data = l["perms"].data /\ q.refs \subseteq l["perms"].refs
      /\ IsObject(s) /\ s.data = l["secret"].data /\ s.refs \subseteq l["secret"].refs
      /\ IsObject(v) /\ v.data = l["variable"].data /\ v.refs \subseteq l["variable"].refs
    <2>1. IsObject(m) /\ m.data = l["managers"].data /\ m.refs \subseteq l["managers"].refs
        BY <1>2, FewerRefs
    <2>2. IsObject(q) /\ q.data = l["perms"].data /\ q.refs \subseteq l["perms"].refs
        <3>1. c \in SUBSET l["perms"].checks
            OBVIOUS
        <3> HIDE DEF c
        <3> QED
            BY <1>2, <3>1, FewerChecks
    <2>3. IsObject(s) /\ s.data = l["secret"].data /\ s.refs \subseteq l["secret"].refs
        BY <1>2, FewerRefs
    <2>4. IsObject(v) /\ v.data = l["variable"].data /\ v.refs \subseteq l["variable"].refs
        BY <1>2, FewerRefs
    <2> QED
        BY <2>1, <2>2, <2>3, <2>4
<1>4. /\ Without(l, n) = [[[[l EXCEPT !["managers"] = m] EXCEPT !["perms"] = q]
                              EXCEPT !["secret"] = s] EXCEPT !["variable"] = v]
    BY <1>1 DEF Without
<1> HIDE DEF m, q, s, v
<1>5. /\ DOMAIN Without(l, n) = Objects
      /\ Without(l, n)["managers"] = m /\ Without(l, n)["perms"] = q
      /\ Without(l, n)["secret"] = s /\ Without(l, n)["variable"] = v
      /\ \A o \in Objects : o \notin {"managers", "perms", "secret", "variable"} =>
                                Without(l, n)[o] = l[o]
    BY <1>1, <1>4
<1> QED
    BY <1>3, <1>5

\* The request that is done changes its object, and what goes with it.
LEMMA DoneFacts ==
    ASSUME LiveInv, Step, NEW o \in Objects, o = Current.of, Sound(o, Head(steps))
    PROVE  /\ DOMAIN live' = Objects /\ DOMAIN ids' = Teams
           /\ \A x \in Objects :
                 /\ IsObject(live'[x])
                 /\ x # o => live'[x].data = live[x].data /\ live'[x].refs \subseteq live[x].refs
                 /\ x # o /\ x \notin {"managers", "perms", "secret", "variable"} => live'[x] = live[x]
           /\ live'[o] = After(o, Head(steps))
           /\ o \notin Teams => ids' = ids
<1> DEFINE l == [live EXCEPT ![o] = After(o, Head(steps))]
<1>1. /\ live' = IF o \in Teams /\ l[o] = None THEN Without(l, o)
                 ELSE IF o = "repo" /\ l[o] = None THEN Without(l, "second") ELSE l
      /\ o \notin Teams => ids' = ids
      /\ o \in Teams => \E i : ids' = [ids EXCEPT ![o] = i]
    BY DEF Step
<1>2. DOMAIN live = Objects /\ DOMAIN ids = Teams /\ \A x \in Objects : IsObject(live[x])
    BY DEF LiveInv
<1>3. /\ DOMAIN l = Objects /\ l[o] = After(o, Head(steps))
      /\ \A x \in Objects : x # o => l[x] = live[x]
    BY <1>2
<1>4. IsObject(After(o, Head(steps)))
    BY AfterFacts
<1>5. \A x \in Objects : IsObject(l[x])
    BY <1>2, <1>3, <1>4
<1>6. DOMAIN ids' = Teams
    BY <1>1, <1>2
<1> HIDE DEF l
<1>7. o \in Teams => o \notin {"managers", "perms", "secret", "variable"}
    BY PatchKinds
<1>8. CASE live' = l
    BY <1>1, <1>3, <1>5, <1>6, <1>8
<1>9. ASSUME NEW n, live' = Without(l, n), o \notin {"managers", "perms", "secret", "variable"}
      PROVE  /\ DOMAIN live' = Objects
             /\ \A x \in Objects :
                   /\ IsObject(live'[x])
                   /\ x # o => live'[x].data = live[x].data /\ live'[x].refs \subseteq live[x].refs
                   /\ x # o /\ x \notin {"managers", "perms", "secret", "variable"} => live'[x] = live[x]
             /\ live'[o] = After(o, Head(steps))
    BY <1>3, <1>5, <1>9, WithoutFacts
<1> QED
    BY <1>1, <1>6, <1>7, <1>8, <1>9

\* One lemma for each action.
LEMMA StepKeeps ==
    ASSUME KeepInv, Step
    PROVE  KeepInv'
<1>1. PICK o : o = Current.of
    OBVIOUS
<1>2. /\ steps # <<>> /\ Advance /\ UNCHANGED <<config, pc>>
    BY DEF Step
<1>3. o \in Objects /\ Sound(o, Head(steps)) /\ todo # <<>> /\ LiveInv /\ TodoInv /\ StepsInv
    BY <1>1, <1>2, NextIsSound DEF KeepInv
<1>4. /\ DOMAIN live' = Objects /\ DOMAIN ids' = Teams
      /\ \A x \in Objects :
            /\ IsObject(live'[x])
            /\ x # o => live'[x].data = live[x].data /\ live'[x].refs \subseteq live[x].refs
            /\ x # o /\ x \notin {"managers", "perms", "secret", "variable"} => live'[x] = live[x]
      /\ live'[o] = After(o, Head(steps))
      /\ o \notin Teams => ids' = ids
    BY <1>1, <1>2, <1>3, DoneFacts
<1>5. LiveInv'
    <2>1. \A x \in HasActors, t \in Teams : <<t, 0>> \notin live'[x].refs
        <3> SUFFICES ASSUME NEW x \in HasActors, NEW t \in Teams
                     PROVE  <<t, 0>> \notin live'[x].refs
            OBVIOUS
        <3>1. x \in Objects
            BY DEF HasActors, Rules, Environments, Objects, Others, ToSet
        <3>2. x # o => <<t, 0>> \notin live'[x].refs
            BY <1>3, <1>4, <3>1 DEF LiveInv
        <3>3. x = o => <<t, 0>> \notin live'[x].refs
            BY <1>3, <1>4, AfterFacts DEF Nobody
        <3> QED
            BY <3>2, <3>3
    <2>2. \A x \in Selective : "selected" \notin live'[x].data => live'[x].refs = {}
        <3> SUFFICES ASSUME NEW x \in Selective, "selected" \notin live'[x].data
                     PROVE  live'[x].refs = {}
            OBVIOUS
        <3>1. x \in Objects
            BY DEF Selective, Objects, Others, ToSet
        <3>2. x # o => live'[x].refs = {}
            BY <1>3, <1>4, <3>1 DEF LiveInv
        <3>3. x = o => live'[x].refs = {}
            BY <1>3, <1>4, AfterFacts
        <3> QED
            BY <3>2, <3>3
    <2> QED
        BY <1>2, <1>3, <1>4, <2>1, <2>2 DEF LiveInv
<1>6. TodoInv'
    <2>1. \A t \in Teams : live[t] = None /\ live'[t] # None => t = o
        <3>1. \A t \in Teams : t \in Objects /\ t \notin {"managers", "perms", "secret", "variable"}
            BY PatchKinds DEF Objects
        <3> QED
            BY <1>4, <3>1
    <2>2. (todo' = todo /\ (steps' = <<>> => steps = <<>>)) \/ (todo # <<>> /\ todo' = Tail(todo))
        <3>1. PICK S : steps \in Seq(S)
            BY <1>2, <1>3 DEF StepsInv, AllSound
        <3>2. Tail(steps) = <<>> => Len(steps) = 1
            BY <1>2, <3>1, TailOf
        <3> QED
            BY <1>2, <1>3, <3>2 DEF Advance
    <2> QED
        BY <1>1, <1>2, <1>3, <2>1, <2>2, TodoStays
<1>7. StepsInv'
    <2>1. o \notin Teams => Kept(o)' \subseteq Kept(o)
        <3> SUFFICES ASSUME o \notin Teams
                     PROVE  Kept(o)' \subseteq Kept(o)
            OBVIOUS
        <3>1. "repo" \in Objects /\ "repo" \notin HasActors
            BY DEF Objects, Others, ToSet, HasActors, Rules, Environments
        <3>2. o \in HasActors => live'["repo"] = live["repo"]
            BY <1>4, <3>1
        <3> QED
            BY <1>2, <1>3, <1>4, <3>2, KeptShrinks
    <2> QED
        BY <1>1, <1>2, <1>3, <2>1, AdvanceIsSound
<1> QED
    BY <1>5, <1>6, <1>7 DEF KeepInv

LEMMA LiveStays ==
    ASSUME LiveInv, UNCHANGED <<live, ids, config>>
    PROVE  LiveInv'
BY DEF LiveInv

LEMMA PlanKeeps ==
    ASSUME KeepInv, Plan
    PROVE  KeepInv'
<1>1. todo' = Patches /\ steps' = steps /\ live' = live /\ config' = config /\ ids' = ids
    BY DEF Plan
<1>2. steps = <<>>
    BY DEF Plan, KeepInv, StepsInv
<1>3. TodoInv'
    BY <1>1, PlanFacts DEF TodoInv
<1> QED
    BY <1>1, <1>2, <1>3, LiveStays DEF KeepInv, StepsInv

LEMMA BeginKeeps ==
    ASSUME KeepInv, Begin
    PROVE  KeepInv'
<1> USE DEF KeepInv
<1>1. todo # <<>> /\ steps = <<>> /\ pc = "applying" /\ UNCHANGED <<live, ids, config, pc>>
    BY DEF Begin
<1>2. LiveInv'
    BY <1>1, LiveStays
<1>3. PICK p : p = Current
    OBVIOUS
<1>4. /\ p \in PatchSet
      /\ p.kind = "remove" => config[p.of] = None
      /\ p.kind # "remove" => config[p.of] # None
      /\ p.kind = "add" /\ p.of \in Teams => live[p.of] = None
    <2>1. p = todo[1] /\ 1 \in DOMAIN todo /\ p \in PatchSet
        BY <1>1, <1>3, HeadTailProperties, LenProperties, EmptySeq DEF TodoInv, Current
    <2> QED
        BY <1>1, <2>1 DEF TodoInv
<1>5. AllSound(p.of, StepsOf(p)) /\ (p.of \in Teams => NoneSendsRefs(Tail(StepsOf(p))))
    <2>1. p.kind # "remove" => Resolvable(p.of, config[p.of])
        BY <1>3 DEF Begin
    <2> QED
        BY <1>4, <2>1, StepsAreSound
<1>6. CASE StepsOf(p) = <<>>
    <2>1. todo' = Tail(todo) /\ steps' = steps
        BY <1>3, <1>6 DEF Begin
    <2>2. TodoInv'
        BY <1>1, <2>1, TodoStays
    <2> QED
        BY <1>1, <1>2, <2>1, <2>2 DEF StepsInv
<1>7. CASE StepsOf(p) # <<>>
    <2>1. todo' = todo /\ steps' = StepsOf(p)
        BY <1>3, <1>7 DEF Begin
    <2>2. TodoInv'
        BY <1>1, <1>7, <2>1, TodoStays
    <2>3. PICK S : StepsOf(p) \in Seq(S) /\ \A s \in S : Sound(p.of, s)
        BY <1>5 DEF AllSound
    <2>4. \A s \in S : Sound(p.of, s)'
        <3>1. p.of \in Objects
            BY <1>4 DEF PatchSet
        <3>2. p.of \notin Teams => Kept(p.of)' \subseteq Kept(p.of)
            BY <1>1, <3>1, KeptShrinks
        <3> QED
            BY <1>1, <2>3, <3>1, <3>2, SoundStays
    <2>5. Current' = p
        BY <1>3, <2>1 DEF Current
    <2>6. AllSound(Current.of, steps)'
        BY <2>1, <2>3, <2>4, <2>5 DEF AllSound
    <2> QED
        BY <1>1, <1>2, <1>5, <2>1, <2>2, <2>5, <2>6 DEF StepsInv, NoneSendsRefs, SendsRefs
<1> QED
    BY <1>6, <1>7

\* A patch that is given up, or not begun.
LEMMA GivenUpKeeps ==
    ASSUME KeepInv, todo # <<>>, todo' = Tail(todo), steps' = <<>>, UNCHANGED <<live, ids, config>>
    PROVE  KeepInv'
BY LiveStays, TodoStays DEF KeepInv, StepsInv

\* A run that is broken off.
LEMMA BrokenOffKeeps ==
    ASSUME KeepInv, todo' = <<>>, steps' = <<>>, UNCHANGED <<live, ids, config>>
    PROVE  KeepInv'
<1>1. LiveInv'
    BY LiveStays DEF KeepInv
<1>2. TodoInv'
    BY DEF TodoInv, Follows
<1> QED
    BY <1>1, <1>2 DEF KeepInv, StepsInv

\* A request that is not done, and goes for one that is.
LEMMA PassedOverKeeps ==
    ASSUME KeepInv, steps # <<>>, Advance, UNCHANGED <<live, ids, config, pc>>
    PROVE  KeepInv'
<1>1. PICK o : o = Current.of
    OBVIOUS
<1>2. o \in Objects /\ todo # <<>> /\ LiveInv /\ TodoInv /\ StepsInv
    BY <1>1, NextIsSound DEF KeepInv
<1>3. o \notin Teams => Kept(o)' \subseteq Kept(o)
    BY <1>2, KeptShrinks
<1>4. StepsInv'
    BY <1>1, <1>2, <1>3, AdvanceIsSound
<1>5. (todo' = todo /\ (steps' = <<>> => steps = <<>>)) \/ (todo # <<>> /\ todo' = Tail(todo))
    <2>1. PICK S : steps \in Seq(S)
        BY <1>2 DEF StepsInv, AllSound
    <2>2. Tail(steps) = <<>> => Len(steps) = 1
        BY <1>2, <2>1, TailOf
    <2> QED
        BY <1>2, <2>2 DEF Advance
<1>6. TodoInv'
    BY <1>2, <1>5, TodoStays
<1> QED
    BY <1>2, <1>4, <1>6, LiveStays DEF KeepInv

LEMMA OtherRemovesTeamKeeps ==
    ASSUME KeepInv, NEW t \in Teams, OtherRemovesTeam(t)
    PROVE  KeepInv'
<1> DEFINE l == [live EXCEPT ![t] = None]
<1>1. /\ ids' = [ids EXCEPT ![t] = 0] /\ live' = Without(l, t)
      /\ UNCHANGED <<config, pc, todo, steps>>
    BY DEF OtherRemovesTeam, Disturb
<1>2. LiveInv /\ TodoInv /\ StepsInv /\ DOMAIN ids = Teams /\ DOMAIN live = Objects
    BY DEF KeepInv, LiveInv
<1>3. /\ t \in Objects /\ t \notin HasActors /\ t \notin Selective
      /\ \A u \in Teams : u \in Objects /\ u \notin {"managers", "perms", "secret", "variable"}
      /\ "repo" \in Objects /\ "repo" \notin Teams
    BY TeamsAssumption DEF Objects, Others, ToSet, HasActors, Rules, Environments, Selective
<1>4. /\ DOMAIN l = Objects /\ l[t] = None
      /\ \A x \in Objects : x # t => l[x] = live[x]
    BY <1>2, <1>3
<1>5. \A x \in Objects : IsObject(l[x])
    BY <1>2, <1>4, NoneIsObject DEF LiveInv
<1> HIDE DEF l
<1>6. /\ DOMAIN live' = Objects
      /\ \A x \in Objects :
            /\ IsObject(live'[x]) /\ live'[x].data = l[x].data
            /\ live'[x].refs \subseteq l[x].refs
            /\ x \notin {"managers", "perms", "secret", "variable"} => live'[x] = l[x]
    BY <1>1, <1>4, <1>5, WithoutFacts
<1>7. LiveInv'
    <2>1. HasActors \subseteq Objects /\ Selective \subseteq Objects
        BY DEF HasActors, Rules, Environments, Selective, Objects, Others, ToSet
    <2>2. \A x \in HasActors, u \in Teams : <<u, 0>> \notin live'[x].refs
        <3> SUFFICES ASSUME NEW x \in HasActors, NEW u \in Teams
                     PROVE  <<u, 0>> \notin live'[x].refs
            OBVIOUS
        <3>1. x \in Objects /\ x # t /\ <<u, 0>> \notin live[x].refs
            BY <1>2, <1>3, <2>1 DEF LiveInv
        <3> QED
            BY <1>4, <1>6, <3>1
    <2>3. \A x \in Selective : "selected" \notin live'[x].data => live'[x].refs = {}
        <3> SUFFICES ASSUME NEW x \in Selective, "selected" \notin live'[x].data
                     PROVE  live'[x].refs = {}
            OBVIOUS
        <3>1. x \in Objects /\ x # t /\ l[x] = live[x]
            BY <1>3, <1>4, <2>1
        <3>2. live[x].refs = {}
            BY <1>2, <1>6, <3>1 DEF LiveInv
        <3> QED
            BY <1>6, <3>1, <3>2
    <2> QED
        BY <1>1, <1>2, <1>6, <2>2, <2>3 DEF LiveInv
<1>8. \A u \in Teams : live[u] = None => live'[u] = None
    BY <1>3, <1>4, <1>6
<1>9. \A u \in Teams : ids'[u] \in {ids[u], 0}
    BY <1>1, <1>2
<1>10. live'["repo"] = live["repo"]
    BY <1>3, <1>4, <1>6
<1>11. TodoInv'
    BY <1>1, <1>2, <1>8, TodoStays
<1>12. StepsInv'
    BY <1>1, <1>2, <1>8, <1>9, <1>10, StepsStaySound
<1> QED
    BY <1>7, <1>11, <1>12 DEF KeepInv

LEMMA OtherGrantsKeeps ==
    ASSUME KeepInv, NEW o \in HasActors, NEW n, OtherGrants(o, n)
    PROVE  KeepInv'
<1>1. /\ live' = [live EXCEPT ![o].refs = @ \cup {Identity(n)}] /\ Exists(n) /\ live[o] # None
      /\ UNCHANGED <<ids, config, pc, todo, steps>>
    BY DEF OtherGrants, Disturb
<1>2. LiveInv /\ TodoInv /\ StepsInv /\ DOMAIN live = Objects /\ IsObject(live[o])
      /\ o \in Objects /\ o \notin Teams /\ o # "repo" /\ o \notin Selective
    BY TeamsAssumption DEF KeepInv, LiveInv, Objects, Others, ToSet, HasActors, Rules, Environments, Selective
<1>3. IsFiniteSet(live[o].refs \cup {Identity(n)})
    BY <1>2, FS_AddElement DEF IsObject
<1>4. /\ DOMAIN live' = Objects /\ \A x \in Objects : x # o => live'[x] = live[x]
      /\ IsObject(live'[o]) /\ live'[o].refs = live[o].refs \cup {Identity(n)}
    BY <1>1, <1>2, <1>3 DEF IsObject, Fields, None
<1>5. Identity(n) \notin Nobody
    BY <1>1, IdentityFacts
<1>6. LiveInv'
    <2>1. \A x \in HasActors, u \in Teams : <<u, 0>> \notin live'[x].refs
        <3> SUFFICES ASSUME NEW x \in HasActors, NEW u \in Teams
                     PROVE  <<u, 0>> \notin live'[x].refs
            OBVIOUS
        <3>1. x \in Objects /\ <<u, 0>> \notin live[x].refs
            BY <1>2 DEF LiveInv, HasActors, Rules, Environments, Objects, Others, ToSet
        <3> QED
            BY <1>4, <1>5, <3>1 DEF Nobody
    <2>2. \A x \in Selective : live'[x] = live[x]
        BY <1>2, <1>4 DEF Selective, Objects, Others, ToSet
    <2> QED
        BY <1>1, <1>2, <1>4, <2>1, <2>2 DEF LiveInv
<1>7. \A u \in Teams : live'[u] = live[u]
    BY <1>2, <1>4 DEF Objects
<1>8. live'["repo"] = live["repo"]
    BY <1>2, <1>4 DEF Objects, Others, ToSet
<1>9. TodoInv'
    BY <1>1, <1>2, <1>7, TodoStays
<1>10. StepsInv'
    BY <1>1, <1>2, <1>7, <1>8, StepsStaySound
<1> QED
    BY <1>6, <1>9, <1>10 DEF KeepInv

\* A step that touches nothing that the invariant is about.
LEMMA IdleKeeps ==
    ASSUME KeepInv, UNCHANGED <<live, ids, config, todo, steps>>, pc' = pc \/ steps = <<>>
    PROVE  KeepInv'
<1>1. LiveInv'
    BY LiveStays DEF KeepInv
<1>2. TodoInv'
    BY TodoStays DEF KeepInv
<1>3. StepsInv'
    BY StepsStaySound DEF KeepInv, StepsInv
<1> QED
    BY <1>1, <1>2, <1>3 DEF KeepInv

LEMMA InitKeeps ==
    ASSUME RefInit
    PROVE  KeepInv
<1>1. PICK c \in Cases : live = c.live /\ ids = c.ids /\ config = c.config
    BY DEF RefInit
<1>2. LiveInv
    BY <1>1, CasesAssumption DEF LiveInv
<1>3. TodoInv
    <2>1. todo = <<>> /\ <<>> \in Seq(PatchSet) /\ DOMAIN <<>> = {}
        BY DEF RefInit
    <2> QED
        BY <2>1 DEF TodoInv, Follows
<1> QED
    BY <1>2, <1>3 DEF KeepInv, StepsInv, RefInit

\* The invariant that says why nobody is lost holds at all times.
THEOREM KeepInvariance == RefSpec => []KeepInv
<1>1. RefInit => KeepInv
    BY InitKeeps
<1>2. KeepInv /\ [RefNext]_refVars => KeepInv'
    <2> SUFFICES ASSUME KeepInv, [RefNext]_refVars
                 PROVE  KeepInv'
        OBVIOUS
    <2>1. steps # <<>> => todo # <<>>
        BY DEF KeepInv, StepsInv
    <2>2. CASE Plan
        BY <2>2, PlanKeeps
    <2>3. CASE Begin
        BY <2>3, BeginKeeps
    <2>4. CASE Unresolved
        BY <2>4, GivenUpKeeps DEF Unresolved
    <2>5. CASE Step
        BY <2>5, StepKeeps
    <2>6. CASE Warn
        BY <2>6, PassedOverKeeps DEF Warn
    <2>7. CASE Refuse
        BY <2>1, <2>7, GivenUpKeeps DEF Refuse, GiveUp
    <2>8. CASE StepFails
        BY <2>1, <2>8, GivenUpKeeps DEF StepFails, GiveUp
    <2>9. CASE Overlook
        BY <2>9, PassedOverKeeps DEF Overlook
    <2>10. CASE Complete
        BY <2>1, <2>10, IdleKeeps DEF Complete
    <2>11. CASE Again
        <3>1. steps = <<>>
            BY <2>11 DEF Again, KeepInv, StepsInv
        <3> QED
            BY <2>11, <3>1, IdleKeeps DEF Again
    <2>12. CASE \E t \in Teams : OtherRemovesTeam(t)
        BY <2>12, OtherRemovesTeamKeeps
    <2>13. CASE \E a \in Apps : OtherUninstalls(a)
        BY <2>13, IdleKeeps DEF OtherUninstalls, Disturb
    <2>14. CASE \E o \in HasActors, n \in Teams \cup Users \cup Apps \cup Roles : OtherGrants(o, n)
        BY <2>14, OtherGrantsKeeps
    <2>15. CASE BreakOff
        BY <2>15, BrokenOffKeeps DEF BreakOff
    <2>16. CASE UNCHANGED refVars
        BY <2>16, IdleKeeps DEF refVars
    <2> QED
        BY <2>2, <2>3, <2>4, <2>5, <2>6, <2>7, <2>8, <2>9, <2>10, <2>11, <2>12, <2>13, <2>14, <2>15, <2>16
           DEF RefNext
<1> QED
    BY <1>1, <1>2, PTL DEF RefSpec

\* Whoever an object names before a request and is to name after its patch is named
\* after the request, whichever requests failed before and whoever interfered: the
\* requests that are left never take anybody away who is wanted.
THEOREM NobodyIsLostInBetween == RefSpec => NobodyLosesInBetween
<1> DEFINE Keeps == LET o == Current.of IN
               live[o] # None /\ config[o] # None =>
                   (live[o].refs \cap Resolved(o, Named(o))) \ (IF o \in Teams THEN {Creator} ELSE {})
                       \subseteq live'[o].refs
<1>1. KeepInv /\ Step => Keeps
    <2> SUFFICES ASSUME KeepInv, Step
                 PROVE  Keeps
        OBVIOUS
    <2>1. PICK o : o = Current.of
        OBVIOUS
    <2>2. LiveInv /\ o \in Objects /\ Sound(o, Head(steps))
        BY <2>1, NextIsSound DEF KeepInv, Step
    <2>3. live'[o] = After(o, Head(steps))
        BY <2>1, <2>2, DoneFacts
    <2>4. live[o] # None /\ config[o] # None =>
              (live[o].refs \cap Resolved(o, Named(o))) \ (IF o \in Teams THEN {Creator} ELSE {})
                  \subseteq live'[o].refs
        BY <2>2, <2>3, NobodyIsLost
    <2> QED
        BY <2>1, <2>4
<1>2. KeepInv => [Step => Keeps]_refVars
    BY <1>1
<1> HIDE DEF Keeps
<1>3. RefSpec => [][Step => Keeps]_refVars
    BY <1>2, KeepInvariance, PTL
<1> QED
    BY <1>3 DEF NobodyLosesInBetween, Keeps
-----------------------------------------------------------------------------
(* Teams and their identities.                                             *)

TeamsInv ==
    /\ "next" \in DOMAIN hist /\ hist.next \in Nat \ {0}
    /\ \A t \in Teams : ids[t] \in 0..hist.next - 1 /\ (live[t] = None <=> ids[t] = 0)
    /\ \A t, u \in Teams : t # u /\ ids[t] # 0 => ids[t] # ids[u]

\* What the bounded events and the lists that are always there come to.
RestInv ==
    /\ \A o \in Permanent : live[o] # None /\ config[o] # None
    /\ installed \subseteq Apps
    /\ happened \in [runs : 0..MaxApplies, failures : 0..MaxFailures, changes : 0..MaxOthers]

RefInv == KeepInv /\ TeamsInv /\ RestInv

\* Teams are the same when neither identities nor live teams change.
LEMMA TeamsStay ==
    ASSUME TeamsInv, "next" \in DOMAIN hist', hist'.next = hist.next, ids' = ids,
           \A t \in Teams : live'[t] = live[t]
    PROVE  TeamsInv'
BY DEF TeamsInv

\* A request gives a new team an identity that nobody ever had, and takes that of a team
\* that it deletes.
LEMMA StepKeepsTeams ==
    ASSUME RefInv, Step
    PROVE  TeamsInv' /\ RestInv'
<1>1. PICK o : o = Current.of
    OBVIOUS
<1>2. PICK s : s = Head(steps)
    OBVIOUS
<1>3. o \in Objects /\ Sound(o, s) /\ LiveInv /\ TeamsInv /\ RestInv
    BY <1>1, <1>2, NextIsSound DEF RefInv, KeepInv, Step
<1>4. /\ DOMAIN live' = Objects
      /\ \A x \in Objects :
            /\ IsObject(live'[x])
            /\ x # o => live'[x].data = live[x].data
            /\ x # o /\ x \notin {"managers", "perms", "secret", "variable"} => live'[x] = live[x]
      /\ live'[o] = After(o, s)
      /\ o \notin Teams => ids' = ids
    BY <1>1, <1>2, <1>3, DoneFacts
<1>5. /\ s.op = "delete" => live'[o] = None /\ config[o] = None /\ live[o] # None
      /\ s.op # "delete" => live'[o] # None
    <2>1. s.op = "delete" => After(o, s) = None /\ live[o] # None
        BY <1>1, <1>2 DEF After, Step, Accepted
    <2> QED
        BY <1>3, <1>4, <2>1, AfterFacts DEF Sound
<1>6. TeamsInv'
    <2>1. \A t \in Teams : t \in Objects /\ t \notin {"managers", "perms", "secret", "variable"}
        BY PatchKinds DEF Objects
    <2>2. \A t \in Teams : t # o => live'[t] = live[t]
        BY <1>4, <2>1
    <2>3. CASE o \notin Teams
        <3>1. hist' = hist
            BY <1>1, <2>3 DEF Step
        <3> QED
            BY <1>3, <1>4, <2>2, <2>3, <3>1, TeamsStay DEF TeamsInv
    <2>4. CASE o \in Teams
        <3>1. PICK n \in Nat \ {0} : n = hist.next
            BY <1>3 DEF TeamsInv
        <3>2. hist' = IF live[o] = None THEN [hist EXCEPT !.next = n + 1] ELSE hist
            BY <1>1, <2>4, <3>1 DEF Step
        <3>3. "next" \in DOMAIN hist' /\ hist'.next = IF live[o] = None THEN n + 1 ELSE n
            BY <1>3, <3>1, <3>2 DEF TeamsInv
        <3>4. ids' = [ids EXCEPT ![o] = IF live'[o] = None THEN 0 ELSE IF @ = 0 THEN n ELSE @]
            <4>1. [live EXCEPT ![o] = After(o, s)][o] = live'[o]
                BY <1>3, <1>4 DEF LiveInv
            <4> QED
                BY <1>1, <1>2, <2>4, <3>1, <4>1 DEF Step
        <3>5. DOMAIN ids = Teams
            BY <1>3 DEF LiveInv
        <3>6. \A t \in Teams : t # o => ids'[t] = ids[t]
            BY <3>4, <3>5
        <3>7. ids'[o] = IF live'[o] = None THEN 0 ELSE IF ids[o] = 0 THEN n ELSE ids[o]
            BY <2>4, <3>4, <3>5
        <3>8. /\ \A t \in Teams : ids[t] \in 0..n - 1 /\ (live[t] = None <=> ids[t] = 0)
              /\ \A t, u \in Teams : t # u /\ ids[t] # 0 => ids[t] # ids[u]
            BY <1>3, <3>1 DEF TeamsInv
        <3>9. PICK m \in Nat \ {0} : m = hist'.next /\ m = IF live[o] = None THEN n + 1 ELSE n
            BY <3>3
        <3>10. live[o] = None => live'[o] # None
            BY <1>5
        <3>11. \A t \in Teams : ids'[t] \in 0..m - 1 /\ (live'[t] = None <=> ids'[t] = 0)
            BY <2>2, <2>4, <3>6, <3>7, <3>8, <3>9
        <3>12. \A t, u \in Teams : t # u /\ ids'[t] # 0 => ids'[t] # ids'[u]
            BY <2>4, <3>6, <3>7, <3>8
        <3> QED
            BY <3>3, <3>9, <3>11, <3>12 DEF TeamsInv
    <2> QED
        BY <2>3, <2>4
<1>7. RestInv'
    <2>1. UNCHANGED <<installed, config, happened>>
        BY DEF Step
    <2>2. \A x \in Permanent : live'[x] # None
        <3> SUFFICES ASSUME NEW x \in Permanent
                     PROVE  live'[x] # None
            OBVIOUS
        <3>1. x \in Objects /\ live[x] # None /\ config[x] # None
            BY <1>3 DEF RestInv, Permanent, Objects, Others, ToSet
        <3>2. CASE x = o
            BY <1>5, <3>1, <3>2
        <3>3. CASE x # o
            <4>1. live[x].data # None.data
                BY <1>3, <3>1 DEF LiveInv, IsObject
            <4>2. live'[x].data = live[x].data
                BY <1>4, <3>1, <3>3
            <4> QED
                BY <4>1, <4>2
        <3> QED
            BY <3>2, <3>3
    <2> QED
        BY <1>3, <2>1, <2>2 DEF RestInv
<1> QED
    BY <1>6, <1>7

LEMMA OtherRemovesTeamKeepsTeams ==
    ASSUME RefInv, NEW t \in Teams, OtherRemovesTeam(t)
    PROVE  TeamsInv' /\ RestInv'
<1> DEFINE l == [live EXCEPT ![t] = None]
<1>1. /\ ids' = [ids EXCEPT ![t] = 0] /\ live' = Without(l, t)
      /\ happened.changes < MaxOthers /\ happened' = [happened EXCEPT !.changes = @ + 1]
      /\ hist' = [hist EXCEPT !.calm = 0, !.disturbed = TRUE]
      /\ UNCHANGED <<config, installed>>
    BY DEF OtherRemovesTeam, Disturb
<1>2. /\ LiveInv /\ TeamsInv /\ RestInv /\ DOMAIN ids = Teams /\ DOMAIN live = Objects
      /\ \A x \in Objects : IsObject(live[x])
    BY DEF RefInv, KeepInv, LiveInv
<1>3. /\ t \in Objects /\ \A u \in Teams : u \in Objects /\ u \notin {"managers", "perms", "secret", "variable"}
      /\ \A x \in Permanent : x \in Objects /\ x # t
    BY TeamsAssumption DEF Objects, Others, ToSet, Permanent
<1>4. DOMAIN l = Objects /\ l[t] = None /\ \A x \in Objects : x # t => l[x] = live[x]
    BY <1>2, <1>3
<1>5. \A x \in Objects : IsObject(l[x])
    BY <1>2, <1>4, NoneIsObject
<1> HIDE DEF l
<1>6. /\ \A x \in Objects : live'[x].data = l[x].data
      /\ \A u \in Teams : live'[u] = l[u]
    BY <1>1, <1>3, <1>4, <1>5, WithoutFacts
<1>7. TeamsInv'
    <2>1. "next" \in DOMAIN hist' /\ hist'.next = hist.next
        BY <1>1, <1>2 DEF TeamsInv
    <2>2. \A u \in Teams : /\ ids'[u] = IF u = t THEN 0 ELSE ids[u]
                           /\ live'[u] = IF u = t THEN None ELSE live[u]
        BY <1>1, <1>2, <1>3, <1>4, <1>6
    <2>3. PICK n \in Nat \ {0} : n = hist.next
        BY <1>2 DEF TeamsInv
    <2>4. \A u \in Teams : ids'[u] \in 0..n - 1 /\ (live'[u] = None <=> ids'[u] = 0)
        BY <1>2, <2>2, <2>3 DEF TeamsInv
    <2>5. \A u, v \in Teams : u # v /\ ids'[u] # 0 => ids'[u] # ids'[v]
        BY <1>2, <2>2 DEF TeamsInv
    <2> QED
        BY <2>1, <2>3, <2>4, <2>5 DEF TeamsInv
<1>8. RestInv'
    <2>1. happened' \in [runs : 0..MaxApplies, failures : 0..MaxFailures, changes : 0..MaxOthers]
        <3>1. PICK k \in Nat : k = happened.changes
            BY <1>2 DEF RestInv
        <3>2. k + 1 \in 0..MaxOthers
            BY <1>1, <3>1, BoundsAssumption
        <3> QED
            BY <1>1, <1>2, <3>1, <3>2 DEF RestInv
    <2>2. \A x \in Permanent : live'[x] # None
        <3>1. \A x \in Permanent : live[x].data # None.data
            BY <1>2, <1>3 DEF RestInv, IsObject
        <3> QED
            BY <1>3, <1>4, <1>6, <3>1
    <2> QED
        BY <1>1, <1>2, <2>1, <2>2 DEF RestInv
<1> QED
    BY <1>7, <1>8

LEMMA OthersKeepTeams ==
    ASSUME RefInv, Disturb, UNCHANGED ids, installed' \subseteq installed,
           \A x \in Teams \cup Permanent : (live'[x] = None <=> live[x] = None)
    PROVE  TeamsInv' /\ RestInv'
<1>1. /\ happened.changes < MaxOthers /\ happened' = [happened EXCEPT !.changes = @ + 1]
      /\ hist' = [hist EXCEPT !.calm = 0, !.disturbed = TRUE] /\ config' = config
    BY DEF Disturb
<1>2. TeamsInv /\ RestInv
    BY DEF RefInv
<1>3. TeamsInv'
    <2>1. "next" \in DOMAIN hist' /\ hist'.next = hist.next
        BY <1>1, <1>2 DEF TeamsInv
    <2> QED
        BY <1>2, <2>1 DEF TeamsInv
<1>4. happened' \in [runs : 0..MaxApplies, failures : 0..MaxFailures, changes : 0..MaxOthers]
    <2>1. PICK k \in Nat : k = happened.changes
        BY <1>2 DEF RestInv
    <2>2. k + 1 \in 0..MaxOthers
        BY <1>1, <2>1, BoundsAssumption
    <2> QED
        BY <1>1, <1>2, <2>1, <2>2 DEF RestInv
<1> QED
    BY <1>1, <1>2, <1>3, <1>4 DEF RestInv

LEMMA OtherGrantsKeepsTeams ==
    ASSUME RefInv, NEW o \in HasActors, NEW n, OtherGrants(o, n)
    PROVE  TeamsInv' /\ RestInv'
<1>1. /\ live' = [live EXCEPT ![o].refs = @ \cup {Identity(n)}]
      /\ UNCHANGED <<ids, installed>> /\ Disturb
    BY DEF OtherGrants
<1>2. DOMAIN live = Objects
    BY DEF RefInv, KeepInv, LiveInv
<1>3. \A x \in Teams \cup Permanent : x \in Objects /\ x # o
    BY TeamsAssumption DEF Objects, Others, ToSet, HasActors, Rules, Environments, Permanent
<1>4. \A x \in Teams \cup Permanent : live'[x] = live[x]
    BY <1>1, <1>2, <1>3
<1> QED
    BY <1>1, <1>4, OthersKeepTeams

\* A step that leaves GitHub alone, apart from what it counts.
LEMMA QuietKeepsTeams ==
    ASSUME RefInv, UNCHANGED <<live, ids, installed, config>>,
           "next" \in DOMAIN hist', hist'.next = hist.next,
           happened' \in [runs : 0..MaxApplies, failures : 0..MaxFailures, changes : 0..MaxOthers]
    PROVE  TeamsInv' /\ RestInv'
<1>1. TeamsInv'
    BY TeamsStay DEF RefInv
<1> QED
    BY <1>1 DEF RefInv, RestInv

LEMMA InitHasTeams ==
    ASSUME RefInit
    PROVE  TeamsInv /\ RestInv
<1>1. PICK c \in Cases : live = c.live /\ ids = c.ids /\ config = c.config /\ installed = c.installed
    BY DEF RefInit
<1>2. PICK n \in Nat : n = Cardinality(Teams)
    BY TeamsAssumption, FS_CardinalityType
<1>3. hist = [failed |-> FALSE, disturbed |-> FALSE, calm |-> 0, next |-> n + 1]
    BY <1>2 DEF RefInit
<1>4. "next" \in DOMAIN hist /\ hist.next = n + 1
    BY <1>3
<1>5. \A t \in Teams : ids[t] \in 0..n /\ (live[t] = None <=> ids[t] = 0)
    BY <1>1, <1>2, CasesAssumption
<1>6. TeamsInv
    BY <1>1, <1>4, <1>5, CasesAssumption DEF TeamsInv
<1>7. happened \in [runs : 0..MaxApplies, failures : 0..MaxFailures, changes : 0..MaxOthers]
    BY BoundsAssumption DEF RefInit
<1> QED
    BY <1>1, <1>6, <1>7, CasesAssumption DEF RestInv

LEMMA RefInvHolds == RefSpec => []RefInv
<1>1. RefInit => TeamsInv /\ RestInv
    BY InitHasTeams
<1>2. RefInv /\ [RefNext]_refVars => (TeamsInv /\ RestInv)'
    <2> SUFFICES ASSUME RefInv, [RefNext]_refVars
                 PROVE  TeamsInv' /\ RestInv'
        OBVIOUS
    <2>1. /\ "next" \in DOMAIN hist /\ KeepInv /\ TeamsInv /\ RestInv
          /\ happened \in [runs : 0..MaxApplies, failures : 0..MaxFailures, changes : 0..MaxOthers]
        BY DEF RefInv, TeamsInv, RestInv
    <2>2. CASE Plan
        <3>1. PICK k \in Nat : k = happened.runs
            BY <2>1
        <3>2. k + 1 \in 0..MaxApplies /\ happened' = [happened EXCEPT !.runs = k + 1]
            BY <2>2, <3>1, BoundsAssumption DEF Plan
        <3>3. hist' = [hist EXCEPT !.failed = FALSE] /\ UNCHANGED <<live, ids, installed, config>>
            BY <2>2 DEF Plan
        <3> QED
            BY <2>1, <3>2, <3>3, QuietKeepsTeams
    <2>3. CASE Begin \/ Warn \/ Again
        BY <2>1, <2>3, QuietKeepsTeams DEF Begin, Warn, Again
    <2>4. CASE Unresolved
        BY <2>1, <2>4, QuietKeepsTeams DEF Unresolved
    <2>5. CASE Step
        BY <2>5, StepKeepsTeams
    <2>6. CASE Refuse
        BY <2>1, <2>6, QuietKeepsTeams DEF Refuse, GiveUp
    <2>7. CASE StepFails \/ Overlook
        <3>1. PICK k \in Nat : k = happened.failures
            BY <2>1
        <3>2. k + 1 \in 0..MaxFailures /\ happened' = [happened EXCEPT !.failures = k + 1]
            BY <2>7, <3>1, BoundsAssumption DEF StepFails, Overlook
        <3>3. /\ UNCHANGED <<live, ids, installed, config>>
              /\ "next" \in DOMAIN hist' /\ hist'.next = hist.next
            BY <2>1, <2>7 DEF StepFails, Overlook, GiveUp
        <3> QED
            BY <2>1, <3>2, <3>3, QuietKeepsTeams
    <2>8. CASE Complete
        BY <2>1, <2>8, QuietKeepsTeams DEF Complete
    <2>9. CASE \E t \in Teams : OtherRemovesTeam(t)
        BY <2>9, OtherRemovesTeamKeepsTeams
    <2>10. CASE \E a \in Apps : OtherUninstalls(a)
        BY <2>10, OthersKeepTeams DEF OtherUninstalls
    <2>11. CASE \E o \in HasActors, n \in Teams \cup Users \cup Apps \cup Roles : OtherGrants(o, n)
        BY <2>11, OtherGrantsKeepsTeams
    <2>12. CASE BreakOff
        BY <2>1, <2>12, QuietKeepsTeams DEF BreakOff
    <2>13. CASE UNCHANGED refVars
        BY <2>1, <2>13, QuietKeepsTeams DEF refVars
    <2> QED
        BY <2>2, <2>3, <2>4, <2>5, <2>6, <2>7, <2>8, <2>9, <2>10, <2>11, <2>12, <2>13 DEF RefNext
<1> QED
    BY <1>1, <1>2, KeepInvariance, PTL DEF RefSpec, RefInv

\* Every variable keeps its type; a team has an identity as long as it exists, and no
\* other team ever has it.
THEOREM RefTypeCorrect == RefSpec => []RefTypeOK
<1>1. RefInv => RefTypeOK
    BY BoundsAssumption DEF RefInv, KeepInv, LiveInv, StepsInv, TeamsInv, RestInv, RefTypeOK
<1> QED
    BY <1>1, RefInvHolds, PTL

-----------------------------------------------------------------------------
(* References: the order of the plan.                                      *)

\* Teams come before everything else, an environment before the ruleset that needs it.
InOrder == {q \in PatchSet \X PatchSet :
               /\ q[2].of \in Teams => q[1].of \in Teams
               /\ q[2].of = "env" => q[1].of # "rule"}

OrderInv == Follows(todo, InOrder)

\* Every object has its place in the plan.
LEMMA OrderIsKept ==
    /\ \A o \in Objects : \E i \in DOMAIN Order : Order[i] = o
    /\ \A i, j \in DOMAIN Order : i < j =>
          /\ Order[j] \in Teams => Order[i] \in Teams
          /\ Order[j] = "env" => Order[i] # "rule"
<1> DEFINE s == SetToSeq(Teams)
           K == {"managers", "secret", "variable", "orgrule", "repo", "perms",
                 "env", "pages", "branch", "rule"}
<1>1. s \in Seq(Teams) /\ \A t \in Teams : \E i \in DOMAIN s : s[i] = t
    <2>1. Cardinality(Teams) \in Nat /\ ExistsBijection(1..Cardinality(Teams), Teams)
        BY FS_CardinalityType, TeamsAssumption
    <2>2. PICK f : f \in Bijection(1..Cardinality(Teams), Teams)
        BY <2>1 DEF ExistsBijection
    <2>3. f \in [1..Cardinality(Teams) -> Teams] /\ IsInjective(f)
        BY <2>2 DEF Bijection, Injection, IsInjective
    <2>4. s \in [1..Cardinality(Teams) -> Teams] /\ IsInjective(s)
        BY <2>3 DEF SetToSeq
    <2>5. s \in Injection(1..Cardinality(Teams), Teams)
        BY <2>4 DEF Injection, IsInjective
    <2>6. IsFiniteSet(1..Cardinality(Teams)) /\ Cardinality(1..Cardinality(Teams)) = Cardinality(Teams)
        BY <2>1, FS_Interval
    <2> HIDE DEF s
    <2>7. s \in Surjection(1..Cardinality(Teams), Teams)
        BY <2>5, <2>6, TeamsAssumption, FS_Injection
    <2> QED
        BY <2>1, <2>4, <2>7, SeqDef DEF Surjection
<1>2. /\ Others \in Seq(K) /\ Len(Others) = 10 /\ DOMAIN Others = 1..10
      /\ \A x \in K : \E i \in 1..10 : Others[i] = x
      /\ \A i \in 1..10 : /\ Others[i] = "env" => i = 7
                          /\ Others[i] = "rule" => i = 10
    BY DEF Others
<1>3. ToSet(Others) = K
    BY <1>2 DEF ToSet, Others
<1>4. Teams \cap K = {} /\ Objects = Teams \cup K
    BY <1>3, TeamsAssumption DEF Objects
<1>5. "env" \in K /\ "rule" \in K
    OBVIOUS
<1> HIDE DEF s, K
<1>6. s \in Seq(Objects) /\ Others \in Seq(Objects)
    BY <1>1, <1>2, <1>4, SeqMonotonic
<1>7. PICK n \in Nat : n = Len(s)
    BY <1>6, LenProperties
<1>8. /\ Order = s \o Others /\ Len(s \o Others) = n + 10 /\ DOMAIN (s \o Others) = 1..n + 10
      /\ \A i \in 1..n + 10 : (s \o Others)[i] = IF i <= n THEN s[i] ELSE Others[i - n]
    <2>1. /\ s \o Others \in Seq(Objects) /\ Len(s \o Others) = Len(s) + Len(Others)
          /\ \A i \in 1..Len(s) + Len(Others) :
                 (s \o Others)[i] = IF i <= Len(s) THEN s[i] ELSE Others[i - Len(s)]
        BY <1>6, ConcatProperties
    <2>2. DOMAIN (s \o Others) = 1..Len(s \o Others)
        BY <2>1, LenProperties
    <2> QED
        BY <1>2, <1>7, <2>1, <2>2 DEF Order, s
<1>9. DOMAIN s = 1..n /\ \A i \in 1..n : s[i] \in Teams
    <2>1. DOMAIN s = 1..n
        BY <1>1, <1>7, LenProperties
    <2>2. \A i \in 1..n : s[i] \in Teams
        BY <1>1, <1>7, ElementOfSeq
    <2> QED
        BY <2>1, <2>2
<1>10. \A i \in 1..10 : Others[i] \in K
    BY <1>2, ElementOfSeq
<1>11. ASSUME NEW i \in 1..n + 10, i > n
       PROVE  i - n \in 1..10 /\ Order[i] = Others[i - n] /\ Order[i] \notin Teams
    <2>1. i - n \in 1..10 /\ Order[i] = Others[i - n]
        BY <1>8, <1>11
    <2> QED
        BY <1>4, <1>10, <2>1
<1>12. ASSUME NEW i \in 1..n + 10, i <= n
       PROVE  Order[i] \in Teams /\ Order[i] = s[i]
    BY <1>8, <1>9, <1>12
<1>13. \A o \in Objects : \E i \in DOMAIN Order : Order[i] = o
    <2> SUFFICES ASSUME NEW o \in Objects
                 PROVE  \E i \in DOMAIN Order : Order[i] = o
        OBVIOUS
    <2>1. CASE o \in Teams
        <3>1. PICK i \in 1..n : s[i] = o
            BY <1>1, <1>9, <2>1
        <3>2. i \in 1..n + 10 /\ i <= n
            BY <3>1
        <3> QED
            BY <1>8, <3>1, <3>2
    <2>2. CASE o \in K
        <3>1. PICK i \in 1..10 : Others[i] = o
            BY <1>2, <2>2
        <3>2. i + n \in 1..n + 10 /\ ~(i + n <= n) /\ (i + n) - n = i
            BY <3>1
        <3> QED
            BY <1>8, <3>1, <3>2
    <2> QED
        BY <1>4, <2>1, <2>2
<1>14. ASSUME NEW i \in DOMAIN Order, NEW j \in DOMAIN Order, i < j
       PROVE  /\ Order[j] \in Teams => Order[i] \in Teams
              /\ Order[j] = "env" => Order[i] # "rule"
    <2>1. i \in 1..n + 10 /\ j \in 1..n + 10
        BY <1>8
    <2>2. CASE i <= n
        BY <1>4, <1>5, <1>12, <2>1, <2>2
    <2>3. CASE i > n
        <3>1. j > n
            BY <1>14, <2>1, <2>3
        <3>2. /\ i - n \in 1..10 /\ j - n \in 1..10 /\ i - n < j - n
              /\ Order[i] = Others[i - n] /\ Order[j] = Others[j - n] /\ Order[j] \notin Teams
            BY <1>11, <1>14, <2>1, <2>3, <3>1
        <3> QED
            BY <1>2, <3>2
    <2> QED
        BY <2>1, <2>2, <2>3
<1> QED
    BY <1>13, <1>14

\* A plan has the patch of each object, in order.
LEMMA PlanIsExact ==
    /\ Follows(Patches, InOrder)
    /\ \A i \in DOMAIN Patches : Patches[i].of \in Objects /\ Patch(Patches[i].of) = <<Patches[i]>>
    /\ \A o \in Objects : Patch(o) # <<>> => \E i \in DOMAIN Patches : Patches[i].of = o
<1> DEFINE ss == [i \in DOMAIN Order |-> Patch(Order[i])]
<1>1. /\ DOMAIN Order = 1..Len(Order) /\ Len(Order) \in Nat
      /\ \A i \in DOMAIN Order : Order[i] \in Objects
    BY OrderFacts, LenProperties, ElementOfSeq
<1>2. \A i \in DOMAIN Order : ss[i] = Patch(Order[i]) /\ ss[i] \in Seq(PatchSet)
    BY <1>1, PatchFacts
<1>3. ss \in [1..Len(Order) -> Seq(PatchSet)] /\ DOMAIN ss = DOMAIN Order
    BY <1>1, <1>2
<1>4. Patches = FlattenSeq(ss)
    BY DEF Patches
<1> HIDE DEF ss
<1>5. ss \in Seq(Seq(PatchSet))
    BY <1>1, <1>3, SeqDef
<1>6. FlattenSeq(ss) \in Seq(PatchSet) /\ Range(FlattenSeq(ss)) = UNION {Range(ss[i]) : i \in DOMAIN ss}
    BY <1>5, FlattenRange
<1>7. ASSUME NEW o \in Objects
      PROVE  Patch(o) = <<>> \/ \E p : Patch(o) = <<p>>
    BY DEF Patch
<1>8. ASSUME NEW o \in Objects, NEW p, Patch(o) = <<p>>
      PROVE  Range(Patch(o)) = {p} /\ p.of = o /\ DOMAIN Patch(o) = {1}
    <2>1. Range(<<p>>) = {p} /\ DOMAIN <<p>> = {1}
        BY DEF Range
    <2> QED
        BY <1>8, <2>1, PatchFacts
<1>9. Range(<<>>) = {} /\ DOMAIN <<>> = {}
    BY DEF Range
<1>10. \A i \in DOMAIN ss : Follows(ss[i], InOrder)
    <2> SUFFICES ASSUME NEW i \in DOMAIN ss
                 PROVE  Follows(ss[i], InOrder)
        OBVIOUS
    <2>1. DOMAIN ss[i] = {} \/ DOMAIN ss[i] = {1}
        BY <1>1, <1>2, <1>3, <1>7, <1>8, <1>9
    <2> QED
        BY <2>1 DEF Follows
<1>11. ASSUME NEW i \in DOMAIN ss, NEW j \in DOMAIN ss, i < j, NEW x \in Range(ss[i]), NEW y \in Range(ss[j])
       PROVE  <<x, y>> \in InOrder
    <2>1. Order[i] \in Objects /\ Order[j] \in Objects
        BY <1>1, <1>3
    <2>2. x.of = Order[i] /\ y.of = Order[j]
        BY <1>2, <1>3, <2>1, PatchFacts
    <2>3. x \in PatchSet /\ y \in PatchSet
        BY <1>2, <1>3, RangeOfSeq
    <2>4. /\ Order[j] \in Teams => Order[i] \in Teams
          /\ Order[j] = "env" => Order[i] # "rule"
        BY <1>3, <1>11, OrderIsKept
    <2> QED
        BY <2>2, <2>3, <2>4 DEF InOrder
<1>12. Follows(FlattenSeq(ss), InOrder)
    BY <1>5, <1>10, <1>11, FlattenFollows
<1>13. ASSUME NEW k \in DOMAIN Patches
       PROVE  Patches[k].of \in Objects /\ Patch(Patches[k].of) = <<Patches[k]>>
    <2>1. Patches[k] \in Range(Patches)
        BY DEF Range
    <2>2. PICK i \in DOMAIN ss : Patches[k] \in Range(ss[i])
        BY <1>4, <1>6, <2>1
    <2>3. ss[i] = Patch(Order[i]) /\ Order[i] \in Objects
        BY <1>1, <1>2, <1>3
    <2>4. PICK p : Patch(Order[i]) = <<p>>
        BY <1>7, <1>9, <2>2, <2>3
    <2> QED
        BY <1>8, <2>2, <2>3, <2>4
<1>14. ASSUME NEW o \in Objects, Patch(o) # <<>>
       PROVE  \E k \in DOMAIN Patches : Patches[k].of = o
    <2>1. PICK i \in DOMAIN ss : Order[i] = o
        BY <1>3, OrderIsKept
    <2>2. PICK p : Patch(o) = <<p>>
        BY <1>7, <1>14
    <2>3. p \in Range(ss[i]) /\ p.of = o
        BY <1>2, <1>3, <1>8, <2>1, <2>2
    <2>4. p \in Range(Patches)
        BY <1>4, <1>6, <2>3
    <2> QED
        BY <2>3, <2>4 DEF Range
<1> QED
    BY <1>4, <1>12, <1>13, <1>14
-----------------------------------------------------------------------------
(* References: the requests of a patch, one by one.                        *)

\* A list of requests that add `inc` and remove `exc`, each once, and take nobody away
\* who was added before.
IsList(L, field, inc, exc) ==
    /\ \E S : L \in Seq(S)
    /\ Range(L) = {Entry("include", field, x) : x \in inc} \cup {Entry("exclude", field, x) : x \in exc}
    /\ \A i, j \in DOMAIN L : i < j /\ L[j].op = "exclude" => L[i].item # L[j].item

LEMMA EntryIs ==
    ASSUME NEW act, NEW field, NEW x
    PROVE  Entry(act, field, x).op = act /\ Entry(act, field, x).field = field /\ Entry(act, field, x).item = x
BY DEF Entry

\* Each member of a set once.
OnceEach(L, S) ==
    L \in Seq(S) /\ Range(L) = S /\ \A i, j \in DOMAIN L : i # j => L[i].item # L[j].item

\* One request for each entry.
LEMMA EachIsOnce ==
    ASSUME NEW act, NEW field, NEW items, IsFiniteSet(items)
    PROVE  OnceEach(Each(act, field, items), {Entry(act, field, x) : x \in items})
<1> DEFINE s == SetToSeq(items)
           L == Each(act, field, items)
<1>1. /\ s \in Seq(items) /\ \A i, j \in DOMAIN s : i # j => s[i] # s[j]
    BY SetAsSequence
<1>2. \A x \in items : \E i \in DOMAIN s : s[i] = x
    <2>1. Cardinality(items) \in Nat /\ ExistsBijection(1..Cardinality(items), items)
        BY FS_CardinalityType
    <2>2. PICK f : f \in Bijection(1..Cardinality(items), items)
        BY <2>1 DEF ExistsBijection
    <2>3. f \in [1..Cardinality(items) -> items] /\ IsInjective(f)
        BY <2>2 DEF Bijection, Injection, IsInjective
    <2>4. s \in [1..Cardinality(items) -> items] /\ IsInjective(s)
        BY <2>3 DEF SetToSeq
    <2>5. s \in Injection(1..Cardinality(items), items)
        BY <2>4 DEF Injection, IsInjective
    <2>6. IsFiniteSet(1..Cardinality(items)) /\ Cardinality(1..Cardinality(items)) = Cardinality(items)
        BY <2>1, FS_Interval
    <2> HIDE DEF s
    <2>7. s \in Surjection(1..Cardinality(items), items)
        BY <2>5, <2>6, FS_Injection
    <2> QED
        BY <2>4, <2>7 DEF Surjection
<1>3. DOMAIN L = DOMAIN s /\ \A i \in DOMAIN s : L[i] = Entry(act, field, s[i])
    BY DEF Each
<1>4. \A i \in DOMAIN s : s[i] \in items
    BY <1>1, LenProperties, ElementOfSeq
<1>5. L \in Seq({Entry(act, field, x) : x \in items})
    BY EachFacts
<1> HIDE DEF s, L
<1>6. Range(L) = {Entry(act, field, x) : x \in items}
    BY <1>2, <1>3, <1>4 DEF Range
<1>7. \A i, j \in DOMAIN L : i # j => L[i].item # L[j].item
    BY <1>1, <1>3, EntryIs
<1> QED
    BY <1>5, <1>6, <1>7 DEF L, OnceEach

\* Two runs of such requests, one after the other.
LEMMA TwoLists ==
    ASSUME NEW S, NEW s \in Seq(S), NEW t \in Seq(S),
           \A i, j \in DOMAIN s : i < j /\ s[j].op = "exclude" => s[i].item # s[j].item,
           \A i, j \in DOMAIN t : i < j /\ t[j].op = "exclude" => t[i].item # t[j].item,
           \A x \in Range(s), y \in Range(t) : y.op = "exclude" => x.item # y.item
    PROVE  /\ s \o t \in Seq(S) /\ Range(s \o t) = Range(s) \cup Range(t)
           /\ \A i, j \in DOMAIN (s \o t) : i < j /\ (s \o t)[j].op = "exclude" => (s \o t)[i].item # (s \o t)[j].item
<1> DEFINE R == {q \in S \X S : q[2].op = "exclude" => q[1].item # q[2].item}
<1>1. s \o t \in Seq(S) /\ Range(s \o t) = Range(s) \cup Range(t)
    BY ConcatProperties, RangeConcatenation
<1>2. /\ \A i \in DOMAIN s : s[i] \in S
      /\ \A i \in DOMAIN t : t[i] \in S
      /\ \A i \in DOMAIN (s \o t) : (s \o t)[i] \in S
    BY <1>1, LenProperties, ElementOfSeq
<1>3. Follows(s, R) /\ Follows(t, R)
    BY <1>2 DEF Follows
<1>4. \A x \in Range(s), y \in Range(t) : <<x, y>> \in R
    BY <1>2 DEF Range
<1> HIDE DEF R
<1>5. Follows(s \o t, R)
    BY <1>3, <1>4, FollowsConcat
<1> USE DEF R
<1> QED
    BY <1>1, <1>2, <1>5 DEF Follows

\* Both ways to bring a list up to date.
LEMMA AddThenRemoveIsList ==
    ASSUME NEW field, NEW current, NEW wanted, IsFiniteSet(current), IsFiniteSet(wanted)
    PROVE  IsList(AddThenRemove(field, current, wanted), field, wanted \ current, current \ wanted)
<1> DEFINE a == Each("include", field, wanted \ current)
           b == Each("exclude", field, current \ wanted)
           A == {Entry("include", field, x) : x \in wanted \ current}
           B == {Entry("exclude", field, x) : x \in current \ wanted}
<1>1. IsFiniteSet(wanted \ current) /\ IsFiniteSet(current \ wanted)
    BY FS_Subset
<1>2. OnceEach(a, A) /\ OnceEach(b, B)
    BY <1>1, EachIsOnce
<1>3. \A x \in A, y \in B : x.item # y.item
    BY EntryIs
<1>4. DOMAIN a \subseteq Int /\ DOMAIN b \subseteq Int
    BY <1>2, LenProperties DEF OnceEach
<1>5. AddThenRemove(field, current, wanted) = a \o b
    BY DEF AddThenRemove
<1> HIDE DEF a, b, A, B
<1>6. a \in Seq(A \cup B) /\ b \in Seq(A \cup B)
    BY <1>2, SeqMonotonic DEF OnceEach
<1>7. /\ \A i, j \in DOMAIN a : i < j => a[i].item # a[j].item
      /\ \A i, j \in DOMAIN b : i < j => b[i].item # b[j].item
    BY <1>2, <1>4 DEF OnceEach
<1>8. /\ a \o b \in Seq(A \cup B) /\ Range(a \o b) = A \cup B
      /\ \A i, j \in DOMAIN (a \o b) : i < j /\ (a \o b)[j].op = "exclude" => (a \o b)[i].item # (a \o b)[j].item
    BY <1>2, <1>3, <1>6, <1>7, TwoLists DEF OnceEach
<1> QED
    BY <1>5, <1>8 DEF IsList, A, B

LEMMA RemoveThenAddIsList ==
    ASSUME NEW field, NEW exc, NEW inc, IsFiniteSet(exc), IsFiniteSet(inc)
    PROVE  IsList(Each("exclude", field, exc) \o Each("include", field, inc), field, inc, exc)
<1> DEFINE a == Each("exclude", field, exc)
           b == Each("include", field, inc)
           A == {Entry("exclude", field, x) : x \in exc}
           B == {Entry("include", field, x) : x \in inc}
<1>1. OnceEach(a, A) /\ OnceEach(b, B)
    BY EachIsOnce
<1>2. \A y \in B : y.op # "exclude"
    BY EntryIs
<1>3. DOMAIN a \subseteq Int /\ DOMAIN b \subseteq Int
    BY <1>1, LenProperties DEF OnceEach
<1> HIDE DEF a, b, A, B
<1>4. a \in Seq(A \cup B) /\ b \in Seq(A \cup B)
    BY <1>1, SeqMonotonic DEF OnceEach
<1>5. /\ \A i, j \in DOMAIN a : i < j => a[i].item # a[j].item
      /\ \A i, j \in DOMAIN b : i < j => b[i].item # b[j].item
    BY <1>1, <1>3 DEF OnceEach
<1>6. /\ a \o b \in Seq(A \cup B) /\ Range(a \o b) = A \cup B
      /\ \A i, j \in DOMAIN (a \o b) : i < j /\ (a \o b)[j].op = "exclude" => (a \o b)[i].item # (a \o b)[j].item
    BY <1>1, <1>2, <1>4, <1>5, TwoLists DEF OnceEach
<1> QED
    BY <1>6 DEF IsList, a, b, A, B

LEMMA NoList ==
    ASSUME NEW field
    PROVE  IsList(<<>>, field, {}, {})
<1>1. <<>> \in Seq({}) /\ DOMAIN <<>> = {} /\ Range(<<>>) = {}
    BY DEF Range
<1> QED
    BY <1>1 DEF IsList

LEMMA NothingLeft ==
    ASSUME NEW field, NEW inc, NEW exc, IsList(<<>>, field, inc, exc)
    PROVE  inc = {} /\ exc = {}
<1>1. Range(<<>>) = {}
    BY DEF Range
<1> QED
    BY <1>1 DEF IsList

\* The first request of a list, and those that are left.
LEMMA FirstOfList ==
    ASSUME NEW L, NEW field, NEW inc, NEW exc, IsList(L, field, inc, exc), L # <<>>
    PROVE  /\ Head(L).field = field /\ Head(L).op \in {"include", "exclude"}
           /\ Head(L).op = "include" =>
                 /\ Head(L).item \in inc /\ Head(L).item \notin exc
                 /\ \E some : some \cup {Head(L).item} = inc /\ IsList(Tail(L), field, some, exc)
           /\ Head(L).op = "exclude" =>
                 /\ Head(L).item \in exc
                 /\ IsList(Tail(L), field, inc, exc \ {Head(L).item})
<1> DEFINE I == {Entry("include", field, x) : x \in inc}
           E == {Entry("exclude", field, x) : x \in exc}
           h == Head(L)
           T == Tail(L)
<1>1. PICK S : L \in Seq(S)
    BY DEF IsList
<1>2. PICK n \in Nat : n = Len(L) /\ n # 0
    BY <1>1, LenProperties, EmptySeq
<1>3. /\ DOMAIN L = 1..n /\ 1 \in DOMAIN L /\ h = L[1] /\ T \in Seq(S)
      /\ DOMAIN T = 1..n - 1
      /\ \A i \in 1..n - 1 : i + 1 \in DOMAIN L /\ T[i] = L[i + 1]
    <2>1. h = L[1] /\ T \in Seq(S) /\ Len(T) = n - 1 /\ \A i \in 1..Len(T) : T[i] = L[i + 1]
        BY <1>1, <1>2, HeadTailProperties
    <2>2. DOMAIN T = 1..Len(T) /\ DOMAIN L = 1..n
        BY <1>1, <1>2, <2>1, LenProperties
    <2> QED
        BY <1>2, <2>1, <2>2
<1>4. Range(L) = I \cup E /\ h \in I \cup E
    BY <1>3 DEF IsList, Range
<1>5. Range(L) = {h} \cup Range(T)
    <2>1. \A i \in DOMAIN L : i = 1 \/ i - 1 \in 1..n - 1
        BY <1>2, <1>3
    <2>2. \A i \in 1..n - 1 : T[i] \in Range(L)
        BY <1>3 DEF Range
    <2>3. \A i \in DOMAIN L : i # 1 => L[i] \in Range(T)
        <3> SUFFICES ASSUME NEW i \in DOMAIN L, i # 1
                     PROVE  L[i] \in Range(T)
            OBVIOUS
        <3>1. i - 1 \in 1..n - 1 /\ (i - 1) + 1 = i
            BY <1>3, <2>1
        <3>2. T[i - 1] = L[i]
            BY <1>3, <3>1
        <3> QED
            BY <1>3, <3>1, <3>2 DEF Range
    <2> QED
        BY <1>3, <2>2, <2>3 DEF Range
<1>6. \A y \in Range(T) : y.op = "exclude" => h.item # y.item
    <2> SUFFICES ASSUME NEW i \in 1..n - 1, T[i].op = "exclude"
                 PROVE  h.item # T[i].item
        BY <1>3 DEF Range
    <2>1. i + 1 \in DOMAIN L /\ 1 < i + 1 /\ T[i] = L[i + 1]
        BY <1>3
    <2> QED
        BY <1>3, <2>1 DEF IsList
<1>7. \A i, j \in DOMAIN T : i < j /\ T[j].op = "exclude" => T[i].item # T[j].item
    <2> SUFFICES ASSUME NEW i \in 1..n - 1, NEW j \in 1..n - 1, i < j, T[j].op = "exclude"
                 PROVE  T[i].item # T[j].item
        BY <1>3
    <2>1. /\ i + 1 \in DOMAIN L /\ j + 1 \in DOMAIN L /\ i + 1 < j + 1
          /\ T[i] = L[i + 1] /\ T[j] = L[j + 1]
        BY <1>3
    <2> QED
        BY <2>1 DEF IsList
<1>8. /\ \A s \in I : s.op = "include" /\ s.field = field /\ s.item \in inc /\ s = Entry("include", field, s.item)
      /\ \A s \in E : s.op = "exclude" /\ s.field = field /\ s.item \in exc /\ s = Entry("exclude", field, s.item)
    BY EntryIs
<1>9. CASE h.op = "include"
    <2> DEFINE some == {x \in inc : Entry("include", field, x) \in Range(T)}
    <2>1. h \in I /\ h.item \in inc
        BY <1>4, <1>8, <1>9
    <2>2. E \subseteq Range(T)
        BY <1>4, <1>5, <1>8, <1>9
    <2>3. h.item \notin exc
        <3> SUFFICES ASSUME h.item \in exc
                     PROVE  FALSE
            OBVIOUS
        <3>1. Entry("exclude", field, h.item) \in Range(T)
            BY <2>2
        <3> QED
            BY <1>6, <3>1, EntryIs
    <2>4. some \cup {h.item} = inc
        <3>1. \A x \in inc : Entry("include", field, x) \in Range(T) \/ x = h.item
            BY <1>4, <1>5, EntryIs
        <3> QED
            BY <2>1, <3>1
    <2>5. Range(T) = {Entry("include", field, x) : x \in some} \cup E
        <3>1. Range(T) \subseteq I \cup E
            BY <1>4, <1>5
        <3> QED
            BY <1>8, <2>2, <3>1
    <2> HIDE DEF some
    <2>6. IsList(T, field, some, exc)
        BY <1>3, <1>7, <2>5 DEF IsList
    <2> QED
        BY <1>8, <1>9, <2>1, <2>3, <2>4, <2>6
<1>10. CASE h.op = "exclude"
    <2>1. h \in E /\ h.item \in exc
        BY <1>4, <1>8, <1>10
    <2>2. I \subseteq Range(T)
        BY <1>4, <1>5, <1>8, <1>10
    <2>3. h \notin Range(T)
        BY <1>6, <1>10
    <2>4. Range(T) = I \cup {Entry("exclude", field, x) : x \in exc \ {h.item}}
        <3>1. Range(T) = (I \cup E) \ {h}
            BY <1>4, <1>5, <2>3
        <3>2. \A x \in exc : Entry("exclude", field, x) = h <=> x = h.item
            BY <1>8, <2>1, EntryIs
        <3>3. h \notin I
            BY <1>8, <1>10
        <3> QED
            BY <1>8, <3>1, <3>2, <3>3
    <2>5. IsList(T, field, inc, exc \ {h.item})
        BY <1>3, <1>7, <2>4 DEF IsList
    <2> QED
        BY <1>8, <1>10, <2>1, <2>5
<1> QED
    BY <1>4, <1>8, <1>9, <1>10
-----------------------------------------------------------------------------
(* References: what the requests of each kind of patch are.                *)

ListOf(o) == IF o \in Teams \cup {"managers"} THEN "refs" ELSE "checks"

PutThenList(o, ss, new, inc, exc) ==
    \E L : ss = <<Update(new)>> \o L /\ IsList(L, ListOf(o), inc, exc)

\* Which kind of object it is.
LEMMA KindsOfObjects ==
    /\ \A t \in Teams : t \in Objects /\ t \notin HasActors /\ t \notin Selective /\ t \notin Rules
                        /\ t \notin Environments /\ t \notin Permanent
                        /\ t \notin {"managers", "secret", "variable", "orgrule", "repo", "perms",
                                     "env", "pages", "branch", "rule"}
    /\ {"managers", "secret", "variable", "orgrule", "repo", "perms", "env", "pages", "branch", "rule"}
           \subseteq Objects \ Teams
    /\ HasActors = {"orgrule", "rule", "env", "pages", "branch"}
    /\ Rules = {"orgrule", "rule"} /\ Selective = {"secret", "variable"}
    /\ Environments = {"env", "pages"} /\ Permanent = {"managers", "perms"}
    /\ Rules \cup Selective \cup Environments \cup Permanent \cup HasActors \subseteq Objects \ Teams
<1> DEFINE K == {"managers", "secret", "variable", "orgrule", "repo", "perms", "env", "pages", "branch", "rule"}
<1>1. ToSet(Others) = K
    <2>1. DOMAIN Others = 1..10
        BY DEF Others
    <2> QED
        BY <2>1 DEF ToSet, Others
<1>2. Teams \cap K = {} /\ Objects = Teams \cup K
    BY <1>1, TeamsAssumption DEF Objects
<1>3. /\ HasActors = {"orgrule", "rule", "env", "pages", "branch"}
      /\ Rules = {"orgrule", "rule"} /\ Selective = {"secret", "variable"}
      /\ Environments = {"env", "pages"} /\ Permanent = {"managers", "perms"}
    BY DEF HasActors, Rules, Selective, Environments, Permanent
<1> QED
    BY <1>2, <1>3

\* What is sent of entries is what is configured, but for checks of apps.
LEMMA SentChecks ==
    ASSUME NEW o, o \notin Rules, o # "branch", IsObject(config[o])
    PROVE  Sent(o).checks = config[o].checks
<1>1. Sent(o).checks = StoredChecks(o, config[o].checks)
    BY DEF Sent, IsObject, Fields
<1>2. \A c : StoredCheck(o, c) = c
    BY DEF StoredCheck
<1> QED
    BY <1>1, <1>2 DEF StoredChecks

\* The requests for a team: it is created or changed first, then its members.
LEMMA StepsOfTeam ==
    ASSUME LiveInv, NEW p \in PatchSet, p.of \in Teams, p.kind \in {"add", "change"}
    PROVE  LET o == p.of IN
           /\ p.kind = "add" =>
                 PutThenList(o, StepsOf(p), [refs |-> {Creator}, checks |-> {}, data |-> config[o].data],
                             config[o].refs, {Creator})
           /\ p.kind = "change" =>
                 PutThenList(o, StepsOf(p), [f \in p.changed \ {"refs"} |-> Sent(o)[f]],
                             IF "refs" \in p.changed THEN config[o].refs \ live[o].refs ELSE {},
                             IF "refs" \in p.changed THEN live[o].refs \ config[o].refs ELSE {})
<1> DEFINE o == p.of
           c == Sent(o)
<1>1. o \in Objects /\ o \notin HasActors /\ o \in Teams /\ ListOf(o) = "refs"
    BY KindsOfObjects DEF ListOf
<1>2. c.refs = config[o].refs /\ c.data = config[o].data /\ IsFiniteSet(c.refs) /\ IsFiniteSet(live[o].refs)
    BY <1>1, SentFacts DEF LiveInv, IsObject
<1>3. StepsOf(p) = TeamSteps(o, p, c)
    BY KindsOfObjects DEF StepsOf, Sent
<1>4. CASE p.kind = "add"
    <2> DEFINE new == [refs |-> {Creator}, checks |-> {}, data |-> config[o].data]
               a == Each("exclude", "refs", {Creator})
               b == Each("include", "refs", config[o].refs)
    <2>1. StepsOf(p) = (<<Update(new)>> \o a) \o b
        BY <1>2, <1>3, <1>4 DEF TeamSteps, AddTeam
    <2>2. IsFiniteSet({Creator}) /\ IsFiniteSet(config[o].refs)
        BY <1>2, FS_Singleton
    <2>3. /\ a \in Seq({Entry("exclude", "refs", x) : x \in {Creator}})
          /\ b \in Seq({Entry("include", "refs", x) : x \in config[o].refs})
        BY <2>2, EachFacts
    <2>4. IsList(a \o b, "refs", config[o].refs, {Creator})
        BY <2>2, RemoveThenAddIsList
    <2> DEFINE A == {Entry("exclude", "refs", x) : x \in {Creator}}
               B == {Entry("include", "refs", x) : x \in config[o].refs}
    <2> HIDE DEF a, b, A, B, new
    <2>5. /\ a \in Seq(A \cup B \cup {Update(new)}) /\ b \in Seq(A \cup B \cup {Update(new)})
          /\ <<Update(new)>> \in Seq(A \cup B \cup {Update(new)})
        BY <2>3, SeqMonotonic DEF A, B
    <2>6. (<<Update(new)>> \o a) \o b = <<Update(new)>> \o (a \o b)
        BY <2>5, ConcatAssociative
    <2>7. PutThenList(o, StepsOf(p), new, config[o].refs, {Creator})
        BY <1>1, <2>1, <2>4, <2>6 DEF PutThenList
    <2> QED
        BY <1>4, <2>7 DEF new
<1>5. CASE p.kind = "change"
    <2> DEFINE new == [f \in p.changed \ {"refs"} |-> c[f]]
               L == IF "refs" \in p.changed THEN AddThenRemove("refs", live[o].refs, c.refs) ELSE <<>>
               inc == IF "refs" \in p.changed THEN config[o].refs \ live[o].refs ELSE {}
               exc == IF "refs" \in p.changed THEN live[o].refs \ config[o].refs ELSE {}
    <2>1. StepsOf(p) = <<Update(new)>> \o L
        BY <1>3, <1>5 DEF TeamSteps, ChangeTeam
    <2>2. IsList(L, "refs", inc, exc)
        BY <1>2, AddThenRemoveIsList, NoList
    <2> HIDE DEF L, new, inc, exc
    <2>3. PutThenList(o, StepsOf(p), new, inc, exc)
        BY <1>1, <2>1, <2>2 DEF PutThenList
    <2> QED
        BY <1>5, <2>3 DEF new, inc, exc
<1> QED
    BY <1>4, <1>5

\* Lists that are always there have nothing but entries.
LEMMA StepsOfLists ==
    ASSUME LiveInv, NEW p \in PatchSet, p.kind \in {"add", "change"}
    PROVE  /\ p.of = "managers" =>
                 IsList(StepsOf(p), "refs", config["managers"].refs \ live["managers"].refs,
                        live["managers"].refs \ config["managers"].refs)
           /\ p.of = "perms" =>
                 IsList(StepsOf(p), "checks", config["perms"].checks \ ReadPermissions,
                        {q \in ReadPermissions : q[1] \notin TeamsIn(config["perms"].checks)})
<1>1. /\ "managers" \in Objects /\ "managers" \notin HasActors /\ "managers" \notin Teams
      /\ "perms" \in Objects /\ "perms" \notin Rules /\ "perms" \notin Teams
    BY KindsOfObjects
<1>2. CASE p.of = "managers"
    <2>1. StepsOf(p) = AddThenRemove("refs", live["managers"].refs, Sent("managers").refs)
        BY <1>1, <1>2 DEF StepsOf, Sent, ManagerSteps, ReadManagers, Environments
    <2>2. /\ Sent("managers").refs = config["managers"].refs /\ IsFiniteSet(config["managers"].refs)
          /\ IsFiniteSet(live["managers"].refs)
        BY <1>1, SentFacts DEF LiveInv, IsObject
    <2> QED
        BY <1>2, <2>1, <2>2, AddThenRemoveIsList
<1>3. CASE p.of = "perms"
    <2> DEFINE from == ReadPermissions
               exc == {q \in from : q[1] \notin TeamsIn(config["perms"].checks)}
               inc == config["perms"].checks \ from
    <2>1. Sent("perms").checks = config["perms"].checks /\ IsFiniteSet(config["perms"].checks)
          /\ IsFiniteSet(live["perms"].checks)
        BY <1>1, SentChecks DEF LiveInv, IsObject
    <2>2. StepsOf(p) = PermissionSteps(Sent("perms"))
        BY <1>1, <1>3 DEF StepsOf, Sent, Environments
    <2>3. StepsOf(p) = Each("exclude", "checks", exc) \o Each("include", "checks", inc)
        BY <2>1, <2>2 DEF PermissionSteps, TeamsIn
    <2>4. from \subseteq live["perms"].checks
        BY DEF ReadPermissions
    <2>5. IsFiniteSet(exc) /\ IsFiniteSet(inc)
        <3>1. exc \subseteq live["perms"].checks /\ inc \subseteq config["perms"].checks
            BY <2>4
        <3> QED
            BY <2>1, <3>1, FS_Subset
    <2> HIDE DEF from, exc, inc
    <2>6. IsList(StepsOf(p), "checks", inc, exc)
        BY <2>3, <2>5, RemoveThenAddIsList
    <2> QED
        BY <1>1, <1>3, <2>6 DEF from, exc, inc
<1> QED
    BY <1>2, <1>3

\* The requests for an environment: itself, then its branch policies.
LEMMA StepsOfEnvironment ==
    ASSUME LiveInv, NEW p \in PatchSet, p.of \in Environments, p.kind \in {"add", "change"}
    PROVE  PutThenList(p.of, StepsOf(p), [f \in p.changed \ {"checks"} |-> Sent(p.of)[f]],
                       IF "checks" \in p.changed THEN config[p.of].checks \ live[p.of].checks ELSE {},
                       IF "checks" \in p.changed THEN live[p.of].checks \ config[p.of].checks ELSE {})
<1> DEFINE o == p.of
           new == [f \in p.changed \ {"checks"} |-> Sent(o)[f]]
           L == IF "checks" \in p.changed THEN AddThenRemove("checks", live[o].checks, config[o].checks) ELSE <<>>
           inc == IF "checks" \in p.changed THEN config[o].checks \ live[o].checks ELSE {}
           exc == IF "checks" \in p.changed THEN live[o].checks \ config[o].checks ELSE {}
<1>1. o \in Objects \ Teams /\ o \in Environments /\ o \notin Rules /\ o # "branch" /\ ListOf(o) = "checks"
      /\ o \notin {"managers", "secret", "variable", "orgrule", "repo", "perms", "branch", "rule"}
    BY KindsOfObjects DEF ListOf
<1>2. Sent(o).checks = config[o].checks /\ IsFiniteSet(config[o].checks) /\ IsFiniteSet(live[o].checks)
    BY <1>1, SentChecks DEF LiveInv, IsObject
<1>3. StepsOf(p) = EnvironmentSteps(o, p, Sent(o))
    BY <1>1 DEF StepsOf, Sent
<1>4. StepsOf(p) = <<Update(new)>> \o L
    BY <1>2, <1>3 DEF EnvironmentSteps, PolicySteps
<1>5. IsList(L, "checks", inc, exc)
    BY <1>2, AddThenRemoveIsList, NoList
<1> HIDE DEF L, new, inc, exc
<1>6. PutThenList(o, StepsOf(p), new, inc, exc)
    BY <1>1, <1>4, <1>5 DEF PutThenList
<1> QED
    BY <1>6 DEF new, inc, exc

\* Those that are sent with one request, or two.
LEMMA StepsOfOthers ==
    ASSUME NEW p \in PatchSet, p.of \notin Teams, p.kind \in {"add", "change"}
    PROVE  LET o == p.of IN
           /\ o = "secret" \/ (o \in {"variable", "branch"} /\ p.kind = "add") =>
                 StepsOf(p) = <<Update(Sent(o))>>
           /\ o = "variable" /\ p.kind = "change" =>
                 StepsOf(p) = <<Update([data |-> Sent(o).data])>>
                     \o (IF "selected" \in Sent(o).data THEN <<Update([refs |-> Sent(o).refs])>> ELSE <<>>)
           /\ o \in Rules => StepsOf(p) = <<Update(PartsOfRule(Sent(o)))>>
           /\ o = "repo" \/ (o = "branch" /\ p.kind = "change") =>
                 StepsOf(p) = <<Update([f \in p.changed |-> Sent(o)[f]])>>
<1> DEFINE o == p.of
<1>1. "branch" \notin Environments /\ Rules = {"orgrule", "rule"} /\ "rule" \notin Environments
    BY KindsOfObjects
<1>2. ASSUME o = "secret"
      PROVE  StepsOf(p) = <<Update(Sent(o))>>
    <2>1. StepsOf(p) = SecretSteps(p, Sent(o))
        BY <1>1, <1>2 DEF StepsOf, Sent, Environments
    <2> QED
        BY <2>1 DEF SecretSteps, AddSecret, ChangeSecret
<1>3. ASSUME o = "variable"
      PROVE  /\ p.kind = "add" => StepsOf(p) = <<Update(Sent(o))>>
             /\ p.kind = "change" =>
                   StepsOf(p) = <<Update([data |-> Sent(o).data])>>
                       \o (IF "selected" \in Sent(o).data THEN <<Update([refs |-> Sent(o).refs])>> ELSE <<>>)
    <2>1. StepsOf(p) = VariableSteps(p, Sent(o))
        BY <1>1, <1>3 DEF StepsOf, Sent, Environments
    <2> QED
        BY <2>1 DEF VariableSteps, AddVariable, ChangeVariable
<1>4. ASSUME o = "branch"
      PROVE  /\ p.kind = "add" => StepsOf(p) = <<Update(Sent(o))>>
             /\ p.kind = "change" => StepsOf(p) = <<Update([f \in p.changed |-> Sent(o)[f]])>>
    <2>1. StepsOf(p) = BranchSteps(p, Sent(o))
        BY <1>1, <1>4 DEF StepsOf, Sent, Environments
    <2> QED
        BY <2>1 DEF BranchSteps, AddBranch, ChangeBranch
<1>5. ASSUME o \in Rules
      PROVE  StepsOf(p) = <<Update(PartsOfRule(Sent(o)))>>
    BY <1>1, <1>5 DEF StepsOf, Sent, OrgRuleSteps, RepoRuleSteps, Environments
<1>6. ASSUME o = "repo"
      PROVE  StepsOf(p) = <<Update([f \in p.changed |-> Sent(o)[f]])>>
    BY <1>1, <1>6 DEF StepsOf, Sent, RepoSteps, Environments
<1> HIDE DEF o
<1>7. /\ o = "secret" \/ (o \in {"variable", "branch"} /\ p.kind = "add") =>
             StepsOf(p) = <<Update(Sent(o))>>
      /\ o = "variable" /\ p.kind = "change" =>
             StepsOf(p) = <<Update([data |-> Sent(o).data])>>
                 \o (IF "selected" \in Sent(o).data THEN <<Update([refs |-> Sent(o).refs])>> ELSE <<>>)
      /\ o \in Rules => StepsOf(p) = <<Update(PartsOfRule(Sent(o)))>>
      /\ o = "repo" \/ (o = "branch" /\ p.kind = "change") =>
             StepsOf(p) = <<Update([f \in p.changed |-> Sent(o)[f]])>>
    <2> HIDE DEF StepsOf
    <2> QED
        BY <1>2, <1>3, <1>4, <1>5, <1>6
<1> QED
    BY <1>7 DEF o
-----------------------------------------------------------------------------
(* References: what is stored.                                             *)

\* A request keeps what is stored as GitHub has it.
Legal(o, s) ==
    /\ s.op = "put" =>
          /\ o \notin Permanent
          /\ "refs" \in DOMAIN s.item =>
                /\ s.item.refs \subseteq Stored(o, hist.next)
                /\ o \in Selective /\ "second" \in s.item.refs => live["repo"] # None
          /\ "checks" \in DOMAIN s.item =>
                /\ o \in Rules => "any" \notin s.item.checks
                /\ HasEntries(o) \/ s.item.checks = {}
          /\ "data" \in DOMAIN s.item => s.item.data = config[o].data
    /\ s.op \in {"include", "exclude"} =>
          /\ o \in Teams \cup Environments \cup Permanent /\ s.field = ListOf(o)
          /\ s.op = "include" /\ s.field = "refs" => s.item \in Mentions(o)
          /\ s.op = "include" /\ o = "perms" => s.item[1] \in Teams

AllLegal(o, ss) == (\E S : ss \in Seq(S)) /\ \A s \in Range(ss) : Legal(o, s)

StoredInv ==
    /\ IsConfiguration(config) /\ IsStored(live, ids, hist.next)
    /\ steps # <<>> => AllLegal(Current.of, steps)

\* What is legal part by part is legal.
LEMMA LegalConcat ==
    ASSUME NEW o, NEW s, NEW t, AllLegal(o, s), AllLegal(o, t)
    PROVE  AllLegal(o, s \o t)
<1>1. PICK S : s \in Seq(S)
    BY DEF AllLegal
<1>2. PICK T : t \in Seq(T)
    BY DEF AllLegal
<1>3. s \in Seq(S \cup T) /\ t \in Seq(S \cup T)
    BY <1>1, <1>2, SeqMonotonic
<1>4. s \o t \in Seq(S \cup T) /\ Range(s \o t) = Range(s) \cup Range(t)
    BY <1>3, ConcatProperties, RangeConcatenation
<1> HIDE DEF Legal
<1> QED
    BY <1>4 DEF AllLegal

LEMMA OneIsLegal ==
    ASSUME NEW o, NEW x, Legal(o, x)
    PROVE  AllLegal(o, <<x>>)
<1>1. <<x>> \in Seq({x}) /\ DOMAIN <<x>> = {1} /\ <<x>>[1] = x
    OBVIOUS
<1>2. Range(<<x>>) = {x}
    BY <1>1 DEF Range
<1> HIDE DEF Legal
<1> QED
    BY <1>1, <1>2 DEF AllLegal

LEMMA NothingIsLegal ==
    ASSUME NEW o
    PROVE  AllLegal(o, <<>>)
<1>1. <<>> \in Seq({}) /\ DOMAIN <<>> = {}
    OBVIOUS
<1>2. Range(<<>>) = {}
    BY <1>1 DEF Range
<1> QED
    BY <1>1, <1>2 DEF AllLegal

\* What is resolved can be stored.
LEMMA ResolvedIsStored ==
    ASSUME LiveInv, TeamsInv, IsConfiguration(config), NEW o \in Objects, config[o] # None, Resolvable(o, config[o])
    PROVE  /\ Sent(o).refs \subseteq Stored(o, hist.next)
           /\ o \in Selective /\ "second" \in Sent(o).refs => live["repo"] # None
           /\ o \in Rules => "any" \notin Sent(o).checks
           /\ HasEntries(o) \/ Sent(o).checks = {}
<1>1. /\ Sent(o).refs = Resolved(o, config[o].refs) /\ Sent(o).checks = StoredChecks(o, config[o].checks)
      /\ o \notin HasActors => Sent(o).refs = config[o].refs
    BY SentFacts DEF LiveInv
<1>2. config[o].refs \subseteq Mentions(o) /\ (HasEntries(o) \/ config[o].checks = {})
    BY DEF IsConfiguration
<1>3. CASE o \in HasActors
    <2>1. \A n \in config[o].refs : Identity(n) \in Stored(o, hist.next)
        <3> SUFFICES ASSUME NEW n \in config[o].refs
                     PROVE  Identity(n) \in Stored(o, hist.next)
            OBVIOUS
        <3>1. n \in Mentions(o)
            BY <1>2
        <3>2. PICK k \in Nat \ {0} : k = hist.next
            BY DEF TeamsInv
        <3>3. \E i \in 0..k - 1 : Identity(n) = <<n, i>>
            <4>1. n \in Teams => ids[n] \in 0..k - 1
                BY <3>2 DEF TeamsInv
            <4>2. 0 \in 0..k - 1
                BY <3>2
            <4> QED
                BY <4>1, <4>2 DEF Identity
        <3> QED
            BY <1>3, <3>1, <3>2, <3>3 DEF Stored
    <2>2. Resolved(o, config[o].refs) \subseteq {Identity(n) : n \in config[o].refs}
        BY <1>3 DEF Resolved, HasActors, BypassIds, AllowanceIds, ReviewerIds, Rules, Environments
    <2>3. o \notin Selective
        BY <1>3, KindsOfObjects
    <2>4. Sent(o).refs \subseteq Stored(o, hist.next)
        BY <1>1, <2>1, <2>2
    <2>5. o \in Rules => "any" \notin Sent(o).checks
        <3>1. o \in Rules => \A c : StoredCheck(o, c) # "any"
            BY DEF StoredCheck, StoredRuleCheck, Rules
        <3> QED
            BY <1>1, <3>1 DEF StoredChecks
    <2> QED
        BY <1>3, <2>3, <2>4, <2>5 DEF HasEntries
<1>4. CASE o \notin HasActors
    <2>1. Sent(o).refs = config[o].refs
        BY <1>1, <1>4
    <2>2. o \in Selective /\ "second" \in config[o].refs => live["repo"] # None
        <3> SUFFICES ASSUME o \in Selective, "second" \in config[o].refs
                     PROVE  live["repo"] # None
            OBVIOUS
        <3>1. Exists("second")
            BY DEF Resolvable, Misses, IsRequired
        <3>2. "second" \notin Teams /\ "second" \notin Users \cup Apps \cup Roles \cup {"first"}
            BY TeamsAssumption, NamesAssumption DEF Roles
        <3> QED
            BY <3>1, <3>2 DEF Exists
    <2>3. o \notin Rules
        BY <1>4 DEF HasActors
    <2> QED
        BY <1>1, <1>2, <1>4, <2>1, <2>2, <2>3 DEF Stored, StoredChecks
<1> QED
    BY <1>3, <1>4

\* Requests that send what was resolved are legal, and so are lists of entries.
LEMMA UpdateIsLegal ==
    ASSUME LiveInv, TeamsInv, IsConfiguration(config), NEW o \in Objects \ Permanent, config[o] # None,
           Resolvable(o, config[o]), NEW new, DOMAIN new \subseteq Fields, \A f \in DOMAIN new : new[f] = Sent(o)[f]
    PROVE  AllLegal(o, <<Update(new)>>)
<1>1. Update(new).op = "put" /\ Update(new).item = new
    BY DEF Update
<1>2. /\ "refs" \in DOMAIN new => new.refs = Sent(o).refs
      /\ "checks" \in DOMAIN new => new.checks = Sent(o).checks
      /\ "data" \in DOMAIN new => new.data = config[o].data
    BY SentFacts DEF LiveInv
<1>3. Legal(o, Update(new))
    BY <1>1, <1>2, ResolvedIsStored DEF Legal
<1> QED
    BY <1>3, OneIsLegal

LEMMA ListIsLegal ==
    ASSUME NEW o \in Teams \cup Environments \cup Permanent, NEW L, NEW inc, NEW exc, IsList(L, ListOf(o), inc, exc),
           ListOf(o) = "refs" => inc \subseteq Mentions(o),
           o = "perms" => TeamsIn(inc) \subseteq Teams
    PROVE  AllLegal(o, L)
<1>1. ASSUME NEW s \in Range(L)
      PROVE  Legal(o, s)
    <2>1. \/ \E x \in inc : s = Entry("include", ListOf(o), x)
          \/ \E x \in exc : s = Entry("exclude", ListOf(o), x)
        BY <1>1 DEF IsList
    <2>2. o = "perms" => \A x \in inc : x[1] \in Teams
        BY DEF TeamsIn
    <2> QED
        BY <2>1, <2>2, EntryIs DEF Legal
<1> HIDE DEF Legal
<1> QED
    BY <1>1 DEF AllLegal, IsList

LEMMA PutThenListIsLegal ==
    ASSUME NEW o \in Teams \cup Environments, NEW ss, NEW new, NEW inc, NEW exc, PutThenList(o, ss, new, inc, exc),
           ListOf(o) = "refs" => inc \subseteq Mentions(o), AllLegal(o, <<Update(new)>>)
    PROVE  AllLegal(o, ss)
<1>1. PICK L : ss = <<Update(new)>> \o L /\ IsList(L, ListOf(o), inc, exc)
    BY DEF PutThenList
<1>2. o # "perms"
    BY KindsOfObjects
<1>3. AllLegal(o, L)
    BY <1>1, <1>2, ListIsLegal
<1> QED
    BY <1>1, <1>3, LegalConcat

\* The requests of any patch.
LEMMA StepsAreLegal ==
    ASSUME LiveInv, TeamsInv, IsConfiguration(config), NEW p \in PatchSet,
           p.kind # "remove" => config[p.of] # None /\ Resolvable(p.of, config[p.of])
    PROVE  AllLegal(p.of, StepsOf(p))
<1> DEFINE o == p.of
<1>1. o \in Objects /\ p.kind \in {"remove", "add", "change"} /\ p.changed \subseteq Fields
    BY DEF PatchSet
<1>2. CASE p.kind = "remove"
    <2>1. StepsOf(p) = <<Entry("delete", "data", {})>>
        BY <1>2 DEF StepsOf
    <2>2. Legal(o, Entry("delete", "data", {}))
        BY EntryIs DEF Legal
    <2> QED
        BY <2>1, <2>2, OneIsLegal
<1> SUFFICES ASSUME p.kind \in {"add", "change"}
             PROVE  AllLegal(o, StepsOf(p))
    BY <1>1, <1>2
<1>3. /\ config[o] # None /\ Resolvable(o, config[o]) /\ DOMAIN Sent(o) = Fields
      /\ config[o].refs \subseteq Mentions(o) /\ Sent(o).data = config[o].data
    BY <1>1, SentFacts DEF IsConfiguration, LiveInv
<1>4. ASSUME o \notin Permanent, NEW new, DOMAIN new \subseteq Fields, \A f \in DOMAIN new : new[f] = Sent(o)[f]
      PROVE  AllLegal(o, <<Update(new)>>)
    BY <1>1, <1>3, <1>4, UpdateIsLegal
<1>5. CASE o \in Teams
    <2>1. ListOf(o) = "refs" /\ o \notin Permanent /\ Mentions(o) = Users /\ o \notin Selective
          /\ o \notin Rules /\ o \notin HasActors
        BY <1>3, <1>5, KindsOfObjects DEF ListOf, Mentions
    <2>2. CASE p.kind = "add"
        <3> DEFINE new == [refs |-> {Creator}, checks |-> {}, data |-> config[o].data]
        <3>1. PutThenList(o, StepsOf(p), new, config[o].refs, {Creator})
            BY <1>5, <2>2, StepsOfTeam
        <3>2. {Creator} \subseteq Stored(o, hist.next)
            BY <2>1, CreatorAssumption DEF Stored
        <3>3. Legal(o, Update(new))
            BY <2>1, <3>2 DEF Legal, Update
        <3> HIDE DEF new
        <3> QED
            BY <1>3, <1>5, <3>1, <3>3, OneIsLegal, PutThenListIsLegal
    <2>3. CASE p.kind = "change"
        <3> DEFINE new == [f \in p.changed \ {"refs"} |-> Sent(o)[f]]
                   inc == IF "refs" \in p.changed THEN config[o].refs \ live[o].refs ELSE {}
                   exc == IF "refs" \in p.changed THEN live[o].refs \ config[o].refs ELSE {}
        <3>1. PutThenList(o, StepsOf(p), new, inc, exc)
            BY <1>5, <2>3, StepsOfTeam
        <3>2. inc \subseteq Mentions(o)
            BY <1>3
        <3>3. DOMAIN new \subseteq Fields /\ \A f \in DOMAIN new : new[f] = Sent(o)[f]
            BY <1>1
        <3> HIDE DEF new, inc, exc
        <3>4. AllLegal(o, <<Update(new)>>)
            BY <1>4, <2>1, <3>3
        <3> QED
            BY <1>5, <3>1, <3>2, <3>4, PutThenListIsLegal
    <2> QED
        BY <2>2, <2>3
<1>6. CASE o = "managers"
    <2>1. IsList(StepsOf(p), "refs", config[o].refs \ live[o].refs, live[o].refs \ config[o].refs)
        BY <1>6, StepsOfLists
    <2>2. /\ ListOf(o) = "refs" /\ o \in Teams \cup Environments \cup Permanent /\ o # "perms"
          /\ config[o].refs \ live[o].refs \subseteq Mentions(o)
        BY <1>3, <1>6, KindsOfObjects DEF ListOf
    <2> HIDE DEF o
    <2> QED
        BY <2>1, <2>2, ListIsLegal
<1>7. CASE o = "perms"
    <2>1. IsList(StepsOf(p), "checks", config[o].checks \ ReadPermissions,
                 {q \in ReadPermissions : q[1] \notin TeamsIn(config[o].checks)})
        BY <1>7, StepsOfLists
    <2>2. ListOf(o) = "checks" /\ o \in Permanent /\ TeamsIn(config[o].checks \ ReadPermissions) \subseteq Teams
        BY <1>7, KindsOfObjects DEF ListOf, IsConfiguration, TeamsIn
    <2> DEFINE exc == {q \in ReadPermissions : q[1] \notin TeamsIn(config[o].checks)}
               inc == config[o].checks \ ReadPermissions
    <2>3. IsList(StepsOf(p), ListOf(o), inc, exc) /\ TeamsIn(inc) \subseteq Teams
        BY <2>1, <2>2
    <2>4. ListOf(o) # "refs" /\ o \in Teams \cup Environments \cup Permanent
        BY <2>2
    <2> HIDE DEF o, exc, inc
    <2> QED
        BY <2>3, <2>4, ListIsLegal
<1>8. CASE o \in Environments
    <2> DEFINE new == [f \in p.changed \ {"checks"} |-> Sent(o)[f]]
               inc == IF "checks" \in p.changed THEN config[o].checks \ live[o].checks ELSE {}
               exc == IF "checks" \in p.changed THEN live[o].checks \ config[o].checks ELSE {}
    <2>1. PutThenList(o, StepsOf(p), new, inc, exc)
        BY <1>8, StepsOfEnvironment
    <2>2. ListOf(o) = "checks" /\ o \notin Permanent
        BY <1>8, KindsOfObjects DEF ListOf
    <2>3. DOMAIN new \subseteq Fields /\ \A f \in DOMAIN new : new[f] = Sent(o)[f]
        BY <1>1
    <2> HIDE DEF new, inc, exc
    <2>4. AllLegal(o, <<Update(new)>>)
        BY <1>4, <2>2, <2>3
    <2> QED
        BY <1>8, <2>1, <2>2, <2>4, PutThenListIsLegal
<1>9. CASE o \in Selective \cup Rules \cup {"repo", "branch"}
    <2>1. o \notin Teams /\ o \notin Permanent
        BY <1>9, KindsOfObjects
    <2>2. AllLegal(o, <<Update(Sent(o))>>)
        BY <1>3, <1>4, <2>1
    <2>3. /\ AllLegal(o, <<Update([data |-> Sent(o).data])>>)
          /\ AllLegal(o, <<Update([refs |-> Sent(o).refs])>>)
        BY <1>4, <2>1 DEF Fields
    <2>4. AllLegal(o, <<Update(PartsOfRule(Sent(o)))>>)
        BY <1>4, <2>1 DEF Fields, PartsOfRule
    <2>5. AllLegal(o, <<Update([f \in p.changed |-> Sent(o)[f]])>>)
        BY <1>1, <1>4, <2>1
    <2>6. AllLegal(o, <<Update([data |-> Sent(o).data])>>
                     \o (IF "selected" \in Sent(o).data THEN <<Update([refs |-> Sent(o).refs])>> ELSE <<>>))
        BY <2>3, NothingIsLegal, LegalConcat
    <2>7. /\ o = "secret" \/ (o \in {"variable", "branch"} /\ p.kind = "add") =>
                 StepsOf(p) = <<Update(Sent(o))>>
          /\ o = "variable" /\ p.kind = "change" =>
                 StepsOf(p) = <<Update([data |-> Sent(o).data])>>
                     \o (IF "selected" \in Sent(o).data THEN <<Update([refs |-> Sent(o).refs])>> ELSE <<>>)
          /\ o \in Rules => StepsOf(p) = <<Update(PartsOfRule(Sent(o)))>>
          /\ o = "repo" \/ (o = "branch" /\ p.kind = "change") =>
                 StepsOf(p) = <<Update([f \in p.changed |-> Sent(o)[f]])>>
        BY <2>1, StepsOfOthers
    <2> HIDE DEF o
    <2>8. o \in {"secret", "variable", "repo", "branch"} \/ o \in Rules
        BY <1>9 DEF Selective
    <2> QED
        BY <2>2, <2>4, <2>5, <2>6, <2>7, <2>8
<1>10. \/ o \in Teams \/ o = "managers" \/ o = "perms" \/ o \in Environments
       \/ o \in Selective \cup Rules \cup {"repo", "branch"}
    BY <1>1, PatchKinds, KindsOfObjects
<1> QED
    BY <1>5, <1>6, <1>7, <1>8, <1>9, <1>10

-----------------------------------------------------------------------------
(* References: what is stored stays as GitHub has it.                      *)

\* One object, as it is stored next to the identities and a repository.
Existing(i) == {t \in Teams : i[t] # 0}
StoredAs(o, x, i, next, repo) ==
    /\ x.refs \subseteq Stored(o, next) /\ (HasEntries(o) \/ x.checks = {})
    /\ o = "managers" => x.refs \subseteq Existing(i)
    /\ o = "perms" => TeamsIn(x.checks) \subseteq Existing(i) /\ OneLevelEach(x.checks)
    /\ o \in Selective /\ "second" \in x.refs => repo # None
    /\ o \in Rules => "any" \notin x.checks
    /\ o \in Environments /\ "selected" \notin x.data => x.checks = {}
    /\ o \in Permanent => x.data = {}

\* What is stored, object by object.
LEMMA StoredEach ==
    ASSUME NEW l, NEW i, NEW next
    PROVE  IsStored(l, i, next) <=> \A o \in Objects : StoredAs(o, l[o], i, next, l["repo"])
<1>1. {"managers", "perms"} \subseteq Objects /\ Selective \subseteq Objects /\ Rules \subseteq Objects
      /\ Environments \subseteq Objects /\ Permanent \subseteq Objects
    BY KindsOfObjects
<1>2. ASSUME IsStored(l, i, next), NEW o \in Objects
      PROVE  StoredAs(o, l[o], i, next, l["repo"])
    BY <1>2 DEF IsStored, StoredAs, Existing
<1>3. ASSUME \A o \in Objects : StoredAs(o, l[o], i, next, l["repo"])
      PROVE  IsStored(l, i, next)
    BY <1>1, <1>3 DEF IsStored, StoredAs, Existing
<1> QED
    BY <1>2, <1>3

\* With fewer entries and more identities given, as long as those exist that are named.
LEMMA FewerAreStored ==
    ASSUME NEW o \in Objects, NEW x, NEW y, NEW i, NEW j, NEW repo, NEW newrepo,
           NEW next \in Nat, NEW later \in Nat, next <= later,
           StoredAs(o, x, i, next, repo), y.refs \subseteq x.refs, y.checks \subseteq x.checks, y.data = x.data,
           o = "managers" => y.refs \subseteq Existing(j),
           o = "perms" => TeamsIn(y.checks) \subseteq Existing(j),
           o \in Selective /\ "second" \in y.refs => newrepo # None
    PROVE  StoredAs(o, y, j, later, newrepo)
<1>1. Stored(o, next) \subseteq Stored(o, later)
    <2>1. 0..next - 1 \subseteq 0..later - 1
        OBVIOUS
    <2> QED
        BY <2>1 DEF Stored
<1>2. y.refs \subseteq Stored(o, later)
    BY <1>1 DEF StoredAs
<1>3. o = "perms" => OneLevelEach(y.checks)
    BY DEF StoredAs, OneLevelEach
<1> QED
    BY <1>2, <1>3 DEF StoredAs

LEMMA WithoutIs ==
    ASSUME NEW l, NEW n, DOMAIN l = Objects, \A o \in Objects : DOMAIN l[o] = Fields
    PROVE  /\ \A o \in Objects :
                 /\ Without(l, n)[o].data = l[o].data
                 /\ Without(l, n)[o].refs =
                       IF o \in {"managers", "secret", "variable"} THEN l[o].refs \ {n} ELSE l[o].refs
                 /\ Without(l, n)[o].checks =
                       IF o = "perms" THEN {p \in l[o].checks : p[1] # n} ELSE l[o].checks
                 /\ o \notin {"managers", "perms", "secret", "variable"} => Without(l, n)[o] = l[o]
<1> DEFINE m == [l["managers"] EXCEPT !.refs = @ \ {n}]
           q == [l["perms"] EXCEPT !.checks = {p \in @ : p[1] # n}]
           s == [l["secret"] EXCEPT !.refs = @ \ {n}]
           v == [l["variable"] EXCEPT !.refs = @ \ {n}]
<1>1. {"managers", "perms", "secret", "variable"} \subseteq Objects
    BY KindsOfObjects
<1>2. ASSUME NEW x, DOMAIN x = Fields
      PROVE  /\ [x EXCEPT !.refs = @ \ {n}].refs = x.refs \ {n} /\ [x EXCEPT !.refs = @ \ {n}].checks = x.checks
             /\ [x EXCEPT !.refs = @ \ {n}].data = x.data
             /\ [x EXCEPT !.checks = {p \in @ : p[1] # n}].checks = {p \in x.checks : p[1] # n}
             /\ [x EXCEPT !.checks = {p \in @ : p[1] # n}].refs = x.refs
             /\ [x EXCEPT !.checks = {p \in @ : p[1] # n}].data = x.data
    BY <1>2 DEF Fields
<1>3. /\ m.refs = l["managers"].refs \ {n} /\ m.checks = l["managers"].checks /\ m.data = l["managers"].data
      /\ s.refs = l["secret"].refs \ {n} /\ s.checks = l["secret"].checks /\ s.data = l["secret"].data
      /\ v.refs = l["variable"].refs \ {n} /\ v.checks = l["variable"].checks /\ v.data = l["variable"].data
      /\ q.checks = {p \in l["perms"].checks : p[1] # n} /\ q.refs = l["perms"].refs /\ q.data = l["perms"].data
    <2>1. /\ DOMAIN l["managers"] = Fields /\ DOMAIN l["secret"] = Fields
          /\ DOMAIN l["variable"] = Fields /\ DOMAIN l["perms"] = Fields
        BY <1>1
    <2> QED
        BY <1>2, <2>1
<1>4. /\ Without(l, n) = [[[[l EXCEPT !["managers"] = m] EXCEPT !["perms"] = q]
                              EXCEPT !["secret"] = s] EXCEPT !["variable"] = v]
    BY <1>1 DEF Without
<1> HIDE DEF m, q, s, v
<1>5. /\ Without(l, n)["managers"] = m /\ Without(l, n)["perms"] = q
      /\ Without(l, n)["secret"] = s /\ Without(l, n)["variable"] = v
      /\ \A o \in Objects : o \notin {"managers", "perms", "secret", "variable"} =>
                                Without(l, n)[o] = l[o]
    BY <1>1, <1>4
<1> QED
    BY <1>3, <1>5

\* What a legal request leaves is stored as the rest.
LEMMA AfterIsStored ==
    ASSUME LiveInv, TeamsInv, RestInv, NEW o \in Objects, NEW s, Sound(o, s), Legal(o, s), Accepted(o, s),
           StoredAs(o, live[o], ids, hist.next, live["repo"])
    PROVE  StoredAs(o, After(o, s), ids, hist.next, live["repo"])
<1> DEFINE y == After(o, s)
           b == Before(o)
           OK(x) == StoredAs(o, x, ids, hist.next, live["repo"])
<1>1. OK(b) /\ DOMAIN b = Fields
    <2>1. live[o] = None => b = Blank(o)
        BY DEF Before
    <2>2. Blank(o).refs = {} /\ Blank(o).checks = {} /\ Blank(o).data = {}
        BY DEF Blank
    <2>3. OK(Blank(o))
        BY <2>2 DEF StoredAs, TeamsIn, OneLevelEach
    <2> QED
        BY <2>1, <2>3, BeforeFacts DEF Before
<1>2. CASE s.op = "delete"
    <2>1. y = None /\ None.refs = {} /\ None.checks = {}
        BY <1>2 DEF After, None
    <2>2. o \notin Permanent
        BY <1>2 DEF Sound, RestInv
    <2> QED
        BY <2>1, <2>2 DEF StoredAs, TeamsIn, OneLevelEach, Permanent
<1>3. CASE s.op = "put"
    <2> DEFINE m == Merged(o, s.item)
    <2>1. /\ m.refs = IF "refs" \in DOMAIN s.item THEN s.item.refs ELSE b.refs
          /\ m.checks = IF "checks" \in DOMAIN s.item THEN s.item.checks ELSE b.checks
          /\ DOMAIN m = Fields
        BY DEF Merged, Fields
    <2>2. y = IF "selected" \in m.data THEN m
              ELSE CASE o \in Environments -> [m EXCEPT !.checks = {}]
                     [] o \in Selective     -> [m EXCEPT !.refs = {}]
                     [] OTHER               -> m
        BY <1>3 DEF After, Merged, Before
    <2>3. /\ y.data = m.data /\ y.refs \subseteq m.refs /\ y.checks \subseteq m.checks
          /\ o \in Environments /\ "selected" \notin y.data => y.checks = {}
        <3> HIDE DEF m
        <3>1. /\ [m EXCEPT !.checks = {}].checks = {} /\ [m EXCEPT !.checks = {}].refs = m.refs
              /\ [m EXCEPT !.checks = {}].data = m.data
              /\ [m EXCEPT !.refs = {}].refs = {} /\ [m EXCEPT !.refs = {}].checks = m.checks
              /\ [m EXCEPT !.refs = {}].data = m.data
            BY <2>1 DEF Fields
        <3>2. o \in Environments => o \notin Selective
            BY KindsOfObjects
        <3> HIDE DEF y
        <3> QED
            BY <2>2, <3>1, <3>2
    <2>4. o \notin Permanent /\ o # "managers" /\ o # "perms"
        BY <1>3 DEF Legal, Permanent
    <2>5. /\ m.refs \subseteq Stored(o, hist.next)
          /\ HasEntries(o) \/ m.checks = {}
          /\ o \in Selective /\ "second" \in m.refs => live["repo"] # None
          /\ o \in Rules => "any" \notin m.checks
        BY <1>1, <1>3, <2>1 DEF Legal, StoredAs
    <2> HIDE DEF m
    <2> QED
        BY <2>3, <2>4, <2>5 DEF StoredAs
<1>4. CASE s.op \in {"include", "exclude"}
    <2>1. /\ o \in Teams \cup Environments \cup Permanent /\ s.field = ListOf(o)
          /\ s.field = "refs" \/ s.field = "checks"
          /\ s.field = "refs" <=> o \in Teams \cup {"managers"}
        BY <1>4 DEF Legal, ListOf
    <2>2. /\ o \in Teams \cup Permanent => ids[TeamOf(o, s)] # 0
          /\ s.op = "include" /\ o \in Environments => "selected" \in live[o].data /\ live[o] # None
        BY <1>4 DEF Accepted
    <2>3. /\ s.op = "include" /\ o = "perms" => y = [b EXCEPT !.checks = {p \in @ : p[1] # s.item[1]} \cup {s.item}]
          /\ s.op = "include" /\ o # "perms" => y = [b EXCEPT ![s.field] = @ \cup {s.item}]
          /\ s.op = "exclude" => y = [b EXCEPT ![s.field] = @ \ {s.item}]
        BY <1>4 DEF After, Before
    <2> HIDE DEF y, b
    <2>4. CASE s.op = "exclude"
        <3>1. y.refs \subseteq b.refs /\ y.checks \subseteq b.checks /\ y.data = b.data
            BY <1>1, <2>1, <2>3, <2>4 DEF Fields
        <3>2. PICK k \in Nat : k = hist.next
            BY DEF TeamsInv
        <3>3. /\ o = "managers" => y.refs \subseteq Existing(ids)
              /\ o = "perms" => TeamsIn(y.checks) \subseteq Existing(ids)
              /\ o \in Selective /\ "second" \in y.refs => live["repo"] # None
            BY <1>1, <3>1 DEF StoredAs, TeamsIn
        <3> QED
            BY <1>1, <3>1, <3>2, <3>3, FewerAreStored DEF y
    <2>5. CASE s.op = "include" /\ o = "perms"
        <3>1. y.refs = b.refs /\ y.data = b.data /\ y.checks = {p \in b.checks : p[1] # s.item[1]} \cup {s.item}
            BY <1>1, <2>3, <2>5 DEF Fields
        <3>2. s.item[1] \in Teams /\ ids[s.item[1]] # 0
            BY <1>4, <2>1, <2>2, <2>5 DEF Legal, TeamOf, Permanent
        <3>3. TeamsIn(y.checks) \subseteq Existing(ids) /\ OneLevelEach(y.checks)
            BY <1>1, <2>5, <3>1, <3>2 DEF StoredAs, TeamsIn, OneLevelEach, Existing
        <3>4. o \notin Selective /\ o \notin Rules /\ o \notin Environments /\ o # "managers" /\ HasEntries(o)
            BY <2>5, KindsOfObjects DEF HasEntries
        <3>5. StoredAs(o, y, ids, hist.next, live["repo"])
            BY <1>1, <3>1, <3>3, <3>4 DEF StoredAs
        <3> QED
            BY <3>5 DEF y
    <2>6. CASE s.op = "include" /\ o # "perms"
        <3>1. /\ y.data = b.data
              /\ y.refs = IF s.field = "refs" THEN b.refs \cup {s.item} ELSE b.refs
              /\ y.checks = IF s.field = "checks" THEN b.checks \cup {s.item} ELSE b.checks
            BY <1>1, <2>1, <2>3, <2>6 DEF Fields
        <3>2. CASE o \in Teams \cup {"managers"}
            <4>1. s.item \in Mentions(o) /\ Stored(o, hist.next) = Mentions(o)
                BY <2>1, <2>6, <3>2, KindsOfObjects DEF Legal, Stored
            <4>2. o = "managers" => Mentions(o) = Teams /\ ids[s.item] # 0
                BY <2>2, KindsOfObjects DEF TeamOf, Mentions
            <4>3. /\ o # "perms" /\ o \notin Selective /\ o \notin Rules /\ o \notin Environments
                  /\ ~HasEntries(o)
                BY <3>2, KindsOfObjects DEF HasEntries
            <4>4. s.field = "refs"
                BY <2>1, <3>2
            <4>5. y.refs = b.refs \cup {s.item} /\ y.checks = b.checks
                BY <3>1, <4>4
            <4>6. StoredAs(o, y, ids, hist.next, live["repo"])
                BY <1>1, <3>1, <4>1, <4>2, <4>3, <4>5 DEF StoredAs, Existing
            <4> QED
                BY <4>6 DEF y
        <3>3. CASE o \in Environments
            <4>1. /\ o \notin Selective /\ o \notin Rules /\ o # "managers" /\ HasEntries(o) /\ o \notin Permanent
                  /\ o \notin Teams
                BY <3>3, KindsOfObjects DEF HasEntries
            <4>2. "selected" \in y.data
                BY <2>2, <2>6, <3>1, <3>3 DEF b, Before
            <4>3. y.refs = b.refs
                BY <2>1, <3>1, <4>1
            <4>4. StoredAs(o, y, ids, hist.next, live["repo"])
                BY <1>1, <2>6, <4>1, <4>2, <4>3 DEF StoredAs
            <4> QED
                BY <4>4 DEF y
        <3> QED
            BY <2>1, <2>6, <3>2, <3>3 DEF Permanent
    <2> QED
        BY <1>4, <2>4, <2>5, <2>6
<1> QED
    BY <1>2, <1>3, <1>4 DEF Sound

\* Who is gone with an object that a request deletes.
GoneWith(o, y) ==
    IF y # None THEN {} ELSE IF o \in Teams THEN {o} ELSE IF o = "repo" THEN {"second"} ELSE {}

HistInv == hist \in [failed : BOOLEAN, disturbed : BOOLEAN, calm : Nat, next : Nat]

\* What a request changes, to the entry.
LEMMA DoneExactly ==
    ASSUME LiveInv, TeamsInv, Step, NEW o \in Objects, o = Current.of, Sound(o, Head(steps)),
           NEW y, y = After(o, Head(steps))
    PROVE  /\ live'[o] = y
           /\ \A x \in Objects : x # o =>
                 /\ live'[x].data = live[x].data
                 /\ live'[x].refs = IF x \in {"managers", "secret", "variable"}
                                    THEN live[x].refs \ GoneWith(o, y) ELSE live[x].refs
                 /\ live'[x].checks = IF x = "perms" THEN {p \in live[x].checks : p[1] \notin GoneWith(o, y)}
                                                     ELSE live[x].checks
                 /\ x \notin {"managers", "perms", "secret", "variable"} => live'[x] = live[x]
           /\ \A t \in Teams : t # o => ids'[t] = ids[t]
           /\ o \in Teams => ids'[o] = IF y = None THEN 0 ELSE IF ids[o] = 0 THEN hist.next ELSE ids[o]
           /\ hist.next \in Nat /\ hist'.next \in Nat /\ hist.next <= hist'.next
           /\ o \notin Teams => ids' = ids /\ hist' = hist
           /\ HistInv => /\ HistInv'
                        /\ hist'.failed = hist.failed /\ hist'.calm = hist.calm
                        /\ hist'.disturbed = hist.disturbed
<1> DEFINE l == [live EXCEPT ![o] = y]
<1>1. /\ live' = IF o \in Teams /\ l[o] = None THEN Without(l, o)
                 ELSE IF o = "repo" /\ l[o] = None THEN Without(l, "second") ELSE l
      /\ ids' = IF o \in Teams THEN [ids EXCEPT ![o] = IF l[o] = None THEN 0
                                                       ELSE IF @ = 0 THEN hist.next ELSE @] ELSE ids
      /\ hist' = IF o \in Teams /\ live[o] = None THEN [hist EXCEPT !.next = @ + 1] ELSE hist
    BY DEF Step
<1>2. DOMAIN live = Objects /\ DOMAIN ids = Teams /\ \A x \in Objects : IsObject(live[x])
    BY DEF LiveInv
<1>3. DOMAIN l = Objects /\ l[o] = y /\ \A x \in Objects : x # o => l[x] = live[x]
    BY <1>2
<1>4. IsObject(y)
    BY AfterFacts
<1>5. \A x \in Objects : DOMAIN l[x] = Fields
    BY <1>2, <1>3, <1>4 DEF IsObject
<1>6. o \in Teams \/ o = "repo" => o \notin {"managers", "perms", "secret", "variable"}
    BY PatchKinds
<1>7. PICK n \in Nat : n = hist.next
    BY DEF TeamsInv
<1>8. /\ hist.next \in Nat /\ hist'.next \in Nat /\ hist.next <= hist'.next
      /\ HistInv => /\ HistInv'
                   /\ hist'.failed = hist.failed /\ hist'.calm = hist.calm
                   /\ hist'.disturbed = hist.disturbed
    <2>1. "next" \in DOMAIN hist
        BY DEF TeamsInv
    <2>2. CASE hist' = hist
        BY <1>7, <2>2 DEF HistInv
    <2>3. CASE hist' = [hist EXCEPT !.next = n + 1]
        <3>1. hist'.next = n + 1
            BY <2>1, <2>3
        <3>2. n + 1 \in Nat /\ n <= n + 1
            OBVIOUS
        <3>3. HistInv => /\ HistInv'
                         /\ hist'.failed = hist.failed /\ hist'.calm = hist.calm
                         /\ hist'.disturbed = hist.disturbed
            BY <2>3, <3>2 DEF HistInv
        <3> QED
            BY <1>7, <3>1, <3>2, <3>3
    <2> QED
        BY <1>1, <1>7, <2>2, <2>3
<1>9. /\ \A t \in Teams : t # o => ids'[t] = ids[t]
      /\ o \in Teams => ids'[o] = IF y = None THEN 0 ELSE IF ids[o] = 0 THEN hist.next ELSE ids[o]
      /\ o \notin Teams => ids' = ids /\ hist' = hist
    BY <1>1, <1>2, <1>3
<1> HIDE DEF l
<1>10. ASSUME NEW x \in Objects, x # o
       PROVE  /\ live'[x].data = live[x].data
              /\ live'[x].refs = IF x \in {"managers", "secret", "variable"}
                                 THEN live[x].refs \ GoneWith(o, y) ELSE live[x].refs
              /\ live'[x].checks = IF x = "perms" THEN {p \in live[x].checks : p[1] \notin GoneWith(o, y)}
                                                  ELSE live[x].checks
              /\ x \notin {"managers", "perms", "secret", "variable"} => live'[x] = live[x]
    <2>1. l[x] = live[x]
        BY <1>3, <1>10
    <2>2. ASSUME NEW n1, live' = Without(l, n1), GoneWith(o, y) = {n1}
          PROVE  /\ live'[x].data = live[x].data
                 /\ live'[x].refs = IF x \in {"managers", "secret", "variable"}
                                    THEN live[x].refs \ GoneWith(o, y) ELSE live[x].refs
                 /\ live'[x].checks = IF x = "perms" THEN {p \in live[x].checks : p[1] \notin GoneWith(o, y)}
                                                     ELSE live[x].checks
                 /\ x \notin {"managers", "perms", "secret", "variable"} => live'[x] = live[x]
        <3>1. \A w \in Objects :
              /\ Without(l, n1)[w].data = l[w].data
              /\ Without(l, n1)[w].refs =
                    IF w \in {"managers", "secret", "variable"} THEN l[w].refs \ {n1} ELSE l[w].refs
              /\ Without(l, n1)[w].checks =
                    IF w = "perms" THEN {p \in l[w].checks : p[1] # n1} ELSE l[w].checks
              /\ w \notin {"managers", "perms", "secret", "variable"} => Without(l, n1)[w] = l[w]
            BY <1>3, <1>5, WithoutIs
        <3> HIDE DEF GoneWith
        <3> QED
            BY <2>1, <2>2, <3>1
    <2>3. CASE live' = l /\ GoneWith(o, y) = {}
        <3>1. live[x].checks = {p \in live[x].checks : p[1] \notin GoneWith(o, y)}
            BY <2>3
        <3>2. live'[x] = live[x]
            BY <2>1, <2>3
        <3> QED
            BY <2>3, <3>1, <3>2
    <2>4. \/ live' = Without(l, o) /\ GoneWith(o, y) = {o}
          \/ live' = Without(l, "second") /\ GoneWith(o, y) = {"second"}
          \/ live' = l /\ GoneWith(o, y) = {}
        <3>1. "repo" \notin Teams
            BY KindsOfObjects
        <3> QED
            BY <1>1, <1>3, <3>1 DEF GoneWith
    <2> QED
        BY <2>2, <2>3, <2>4
<1>11. live'[o] = y
    BY <1>3, DoneFacts
<1> QED
    BY <1>8, <1>9, <1>10, <1>11

LEMMA StepAround ==
    ASSUME RefInv, Step, NEW o, o = Current.of
    PROVE  /\ hist'.next \in Nat /\ hist.next <= hist'.next /\ (HistInv => HistInv')
           /\ \A x \in Objects : x # o /\ x \notin {"managers", "perms", "secret", "variable"} => live'[x] = live[x]
<1>1. o \in Objects /\ Sound(o, Head(steps)) /\ LiveInv /\ TeamsInv
    BY NextIsSound DEF RefInv, KeepInv, Step
<1>2. PICK y : y = After(o, Head(steps))
    OBVIOUS
<1>3. \A x \in Objects : x # o =>
          /\ live'[x].data = live[x].data
          /\ live'[x].refs = IF x \in {"managers", "secret", "variable"}
                             THEN live[x].refs \ GoneWith(o, y) ELSE live[x].refs
          /\ live'[x].checks = IF x = "perms" THEN {p \in live[x].checks : p[1] \notin GoneWith(o, y)}
                                              ELSE live[x].checks
          /\ x \notin {"managers", "perms", "secret", "variable"} => live'[x] = live[x]
    BY <1>1, <1>2, DoneExactly
<1>4. hist.next \in Nat /\ hist'.next \in Nat /\ hist.next <= hist'.next
    BY <1>1, <1>2, DoneExactly
<1>5. HistInv => /\ HistInv'
                 /\ hist'.failed = hist.failed /\ hist'.calm = hist.calm
                 /\ hist'.disturbed = hist.disturbed
    BY <1>1, <1>2, DoneExactly
<1> QED
    BY <1>3, <1>4, <1>5

\* Every request that is accepted.
LEMMA StepStores ==
    ASSUME RefInv, StoredInv, Step
    PROVE  IsStored(live, ids, hist.next)'
<1>1. PICK o : o = Current.of
    OBVIOUS
<1>2. PICK s : s = Head(steps)
    OBVIOUS
<1>3. PICK y : y = After(o, s)
    OBVIOUS
<1>4. o \in Objects /\ Sound(o, s) /\ LiveInv /\ TeamsInv /\ RestInv
    BY <1>1, <1>2, NextIsSound DEF RefInv, KeepInv, Step
<1>5. Legal(o, s) /\ Accepted(o, s) /\ IsStored(live, ids, hist.next)
    <2>1. AllLegal(o, steps) /\ steps # <<>>
        BY <1>1 DEF StoredInv, Step
    <2>2. PICK S : steps \in Seq(S)
        BY <2>1 DEF AllLegal
    <2>3. s \in Range(steps)
        <3>1. steps[1] = s /\ 1 \in DOMAIN steps
            BY <1>2, <2>1, <2>2, HeadTailProperties, LenProperties, EmptySeq
        <3> QED
            BY <3>1 DEF Range
    <2>4. Accepted(o, s)
        BY <1>1, <1>2 DEF Step
    <2>5. Legal(o, s)
        BY <2>1, <2>3 DEF AllLegal
    <2> QED
        BY <2>4, <2>5 DEF StoredInv
<1>6. \A x \in Objects : StoredAs(x, live[x], ids, hist.next, live["repo"])
    BY <1>5, StoredEach
<1>7. StoredAs(o, y, ids, hist.next, live["repo"])
    BY <1>3, <1>4, <1>5, <1>6, AfterIsStored
<1>8. /\ live'[o] = y
      /\ \A x \in Objects : x # o =>
            /\ live'[x].data = live[x].data
            /\ live'[x].refs = IF x \in {"managers", "secret", "variable"}
                               THEN live[x].refs \ GoneWith(o, y) ELSE live[x].refs
            /\ live'[x].checks = IF x = "perms" THEN {p \in live[x].checks : p[1] \notin GoneWith(o, y)}
                                                ELSE live[x].checks
            /\ x \notin {"managers", "perms", "secret", "variable"} => live'[x] = live[x]
      /\ \A t \in Teams : t # o => ids'[t] = ids[t]
      /\ o \in Teams => ids'[o] = IF y = None THEN 0 ELSE IF ids[o] = 0 THEN hist.next ELSE ids[o]
      /\ hist.next \in Nat /\ hist'.next \in Nat /\ hist.next <= hist'.next
      /\ o \notin Teams => ids' = ids /\ hist' = hist
    BY <1>1, <1>2, <1>3, <1>4, DoneExactly
<1>9. Existing(ids) \ GoneWith(o, y) \subseteq Existing(ids')
    <2>1. o \in Teams => o \in GoneWith(o, y) \/ ids'[o] # 0
        <3>1. hist.next # 0
            BY <1>4 DEF TeamsInv
        <3> QED
            BY <1>8, <3>1 DEF GoneWith
    <2> QED
        BY <1>8, <2>1 DEF Existing
<1>10. "second" \in GoneWith(o, y) \/ (live["repo"] # None => live'["repo"] # None)
    <2>1. "repo" \in Objects /\ "repo" \notin Teams
        BY KindsOfObjects
    <2>2. o # "repo" => live'["repo"] = live["repo"]
        BY <1>8, <2>1
    <2> QED
        BY <1>8, <2>1, <2>2 DEF GoneWith
<1>11. ASSUME NEW x \in Objects
       PROVE  StoredAs(x, live'[x], ids', hist'.next, live'["repo"])
    <2>1. CASE x = o
        <3>1. x \in {"managers", "perms"} \/ x \in Selective => ids' = ids /\ live'["repo"] = live["repo"]
            <4>1. /\ x \in {"managers", "perms"} \/ x \in Selective => x \notin Teams /\ x # "repo"
                  /\ "repo" \in Objects
                BY KindsOfObjects
            <4>2. x \in {"managers", "perms"} \/ x \in Selective => live'["repo"] = live["repo"]
                BY <1>8, <2>1, <4>1
            <4> QED
                BY <1>8, <2>1, <4>1, <4>2
        <3>2. PICK z : z = live'[x]
            OBVIOUS
        <3>3. z = y
            BY <1>8, <2>1, <3>2
        <3>4. /\ x = "managers" => z.refs \subseteq Existing(ids')
              /\ x = "perms" => TeamsIn(z.checks) \subseteq Existing(ids')
              /\ x \in Selective /\ "second" \in z.refs => live'["repo"] # None
            BY <1>7, <2>1, <3>1, <3>3 DEF StoredAs
        <3>5. StoredAs(x, z, ids, hist.next, live["repo"])
            BY <1>7, <2>1, <3>3
        <3>6. StoredAs(x, z, ids', hist'.next, live'["repo"])
            BY <1>8, <3>4, <3>5, FewerAreStored
        <3> QED
            BY <3>2, <3>6
    <2>2. CASE x # o
        <3>1. PICK z : z = live'[x]
            OBVIOUS
        <3>2. /\ z.data = live[x].data
              /\ z.refs = IF x \in {"managers", "secret", "variable"}
                          THEN live[x].refs \ GoneWith(o, y) ELSE live[x].refs
              /\ z.checks = IF x = "perms" THEN {p \in live[x].checks : p[1] \notin GoneWith(o, y)}
                                           ELSE live[x].checks
            BY <1>8, <2>2, <3>1
        <3>3. StoredAs(x, live[x], ids, hist.next, live["repo"])
            BY <1>6
        <3>4. x = "managers" => z.refs \subseteq Existing(ids')
            BY <1>9, <3>2, <3>3 DEF StoredAs
        <3>5. x = "perms" => TeamsIn(z.checks) \subseteq Existing(ids')
            BY <1>9, <3>2, <3>3 DEF StoredAs, TeamsIn
        <3>6. x \in Selective /\ "second" \in z.refs => live'["repo"] # None
            BY <1>10, <3>2, <3>3 DEF StoredAs, Selective
        <3>7. z.refs \subseteq live[x].refs /\ z.checks \subseteq live[x].checks
            BY <3>2
        <3>8. StoredAs(x, z, ids', hist'.next, live'["repo"])
            BY <1>8, <3>2, <3>3, <3>4, <3>5, <3>6, <3>7, FewerAreStored
        <3> QED
            BY <3>1, <3>8
    <2> QED
        BY <2>1, <2>2
<1>12. IsStored(live', ids', hist'.next)
    BY <1>11, StoredEach
<1> QED
    BY <1>12

\* A request that is legal stays so: identities are only given, and while selections are
\* sent the repository stays.
LEMMA LegalStays ==
    ASSUME NEW o, NEW ss, NEW tt, AllLegal(o, ss), (\E S : tt \in Seq(S)), Range(tt) \subseteq Range(ss),
           config' = config, hist.next \in Nat, hist'.next \in Nat, hist.next <= hist'.next,
           o \in Selective => (live["repo"] # None => live'["repo"] # None)
    PROVE  AllLegal(o, tt)'
<1>1. Stored(o, hist.next) \subseteq Stored(o, hist'.next)
    <2>1. PICK n \in Nat, m \in Nat : n = hist.next /\ m = hist'.next
        OBVIOUS
    <2>2. 0..n - 1 \subseteq 0..m - 1
        BY <2>1
    <2> QED
        BY <2>1, <2>2 DEF Stored
<1>2. ASSUME NEW s, Legal(o, s)
      PROVE  Legal(o, s)'
    <2>1. /\ Stored(o, hist.next)' = Stored(o, hist'.next)
          /\ config'[o].data = config[o].data
        OBVIOUS
    <2>2. s.op = "put" /\ "refs" \in DOMAIN s.item =>
              /\ s.item.refs \subseteq Stored(o, hist'.next)
              /\ o \in Selective /\ "second" \in s.item.refs => live'["repo"] # None
        BY <1>1, <1>2 DEF Legal
    <2> QED
        BY <1>2, <2>1, <2>2 DEF Legal
<1>3. \A s \in Range(tt) : Legal(o, s)'
    BY <1>2 DEF AllLegal
<1> QED
    BY <1>3 DEF AllLegal

LEMMA TailIsLegal ==
    ASSUME NEW o, NEW ss, AllLegal(o, ss), ss # <<>>
    PROVE  (\E S : Tail(ss) \in Seq(S)) /\ Range(Tail(ss)) \subseteq Range(ss)
<1>1. PICK S : ss \in Seq(S)
    BY DEF AllLegal
<1>2. /\ Tail(ss) \in Seq(S) /\ Len(Tail(ss)) = Len(ss) - 1 /\ Len(ss) \in Nat
      /\ \A i \in 1..Len(Tail(ss)) : Tail(ss)[i] = ss[i + 1]
    BY <1>1, HeadTailProperties, LenProperties
<1>3. DOMAIN Tail(ss) = 1..Len(Tail(ss)) /\ DOMAIN ss = 1..Len(ss)
    BY <1>1, <1>2, LenProperties
<1>4. \A i \in DOMAIN Tail(ss) : i + 1 \in DOMAIN ss /\ Tail(ss)[i] = ss[i + 1]
    BY <1>2, <1>3
<1> QED
    BY <1>2, <1>4 DEF Range

\* The requests that are left, with the patch or without it.
LEMMA LegalInStep ==
    ASSUME RefInv, StoredInv, config' = config, hist.next \in Nat, hist'.next \in Nat, hist.next <= hist'.next,
           IsStored(live, ids, hist.next)',
           steps # <<>> /\ Current.of \in Selective => (live["repo"] # None => live'["repo"] # None),
           \/ steps' = <<>>
           \/ UNCHANGED <<steps, todo>>
           \/ steps # <<>> /\ Advance
    PROVE  StoredInv'
<1>1. IsConfiguration(config)'
    BY DEF StoredInv
<1>2. ASSUME steps' # <<>>
      PROVE  AllLegal(Current.of, steps)'
    <2>1. steps # <<>>
        BY <1>2
    <2>2. PICK o : o = Current.of
        OBVIOUS
    <2>3. AllLegal(o, steps)
        BY <2>1, <2>2 DEF StoredInv
    <2>4. PICK S : steps \in Seq(S)
        BY <2>3 DEF AllLegal
    <2>5. (\E T : steps' \in Seq(T)) /\ Range(steps') \subseteq Range(steps)
        <3>1. CASE steps' = steps
            BY <2>4, <3>1
        <3>2. CASE steps' = Tail(steps)
            BY <2>1, <2>3, <3>2, TailIsLegal
        <3> QED
            BY <1>2, <3>1, <3>2 DEF Advance
    <2>6. todo' = todo
        <3>1. Tail(steps) # <<>> => Len(steps) # 1
            BY <2>1, <2>4, TailOf
        <3> QED
            BY <1>2, <3>1 DEF Advance
    <2>7. Current' = Current /\ Current'.of = o
        BY <2>2, <2>6 DEF Current
    <2>8. PICK tt : tt = steps'
        OBVIOUS
    <2>9. AllLegal(o, tt)'
        BY <2>1, <2>2, <2>3, <2>5, <2>8, LegalStays
    <2> QED
        BY <2>7, <2>8, <2>9 DEF AllLegal
<1> QED
    BY <1>1, <1>2 DEF StoredInv

\* What others do leaves what GitHub can store.
LEMMA OtherRemovesStores ==
    ASSUME RefInv, StoredInv, NEW t \in Teams, OtherRemovesTeam(t)
    PROVE  IsStored(live, ids, hist.next)'
<1> DEFINE l == [live EXCEPT ![t] = None]
<1>1. /\ ids' = [ids EXCEPT ![t] = 0] /\ live' = Without(l, t)
      /\ hist' = [hist EXCEPT !.calm = 0, !.disturbed = TRUE]
    BY DEF OtherRemovesTeam, Disturb
<1>2. /\ DOMAIN ids = Teams /\ DOMAIN live = Objects /\ \A x \in Objects : IsObject(live[x])
      /\ IsStored(live, ids, hist.next)
      /\ t \in Objects /\ t \notin {"managers", "perms", "secret", "variable", "repo"}
      /\ "repo" \in Objects /\ "repo" \notin {"managers", "perms", "secret", "variable"}
    BY KindsOfObjects DEF RefInv, KeepInv, LiveInv, StoredInv
<1>3. PICK n \in Nat : n = hist.next /\ hist'.next = n
    BY <1>1 DEF RefInv, TeamsInv
<1>4. DOMAIN l = Objects /\ l[t] = None /\ \A x \in Objects : x # t => l[x] = live[x]
    BY <1>2
<1>5. \A x \in Objects : DOMAIN l[x] = Fields
    BY <1>2, <1>4, NoneIsObject DEF IsObject
<1>6. \A x \in Objects : StoredAs(x, live[x], ids, n, live["repo"])
    BY <1>2, <1>3, StoredEach
<1>7. Existing(ids') = Existing(ids) \ {t}
    BY <1>1, <1>2 DEF Existing
<1> HIDE DEF l
<1>8. \A x \in Objects :
          /\ live'[x].data = l[x].data
          /\ live'[x].refs = IF x \in {"managers", "secret", "variable"} THEN l[x].refs \ {t} ELSE l[x].refs
          /\ live'[x].checks = IF x = "perms" THEN {p \in l[x].checks : p[1] # t} ELSE l[x].checks
          /\ x \notin {"managers", "perms", "secret", "variable"} => live'[x] = l[x]
    <2>1. \A x \in Objects :
              /\ Without(l, t)[x].data = l[x].data
              /\ Without(l, t)[x].refs =
                    IF x \in {"managers", "secret", "variable"} THEN l[x].refs \ {t} ELSE l[x].refs
              /\ Without(l, t)[x].checks = IF x = "perms" THEN {p \in l[x].checks : p[1] # t} ELSE l[x].checks
              /\ x \notin {"managers", "perms", "secret", "variable"} => Without(l, t)[x] = l[x]
        BY <1>4, <1>5, WithoutIs
    <2> QED
        BY <1>1, <2>1
<1>9. live'["repo"] = live["repo"]
    BY <1>2, <1>4, <1>8
<1>10. ASSUME NEW x \in Objects
       PROVE  StoredAs(x, live'[x], ids', n, live'["repo"])
    <2>1. CASE x = t
        <3>1. live'[x] = None /\ None.refs = {} /\ None.checks = {}
            BY <1>2, <1>4, <1>8, <2>1 DEF None
        <3>2. x \notin Permanent /\ x \notin {"managers", "perms"} /\ x \notin Rules
            BY <2>1, KindsOfObjects
        <3> QED
            BY <3>1, <3>2 DEF StoredAs
    <2>2. CASE x # t
        <3>1. PICK z : z = live'[x]
            OBVIOUS
        <3>2. /\ z.data = live[x].data
              /\ z.refs = IF x \in {"managers", "secret", "variable"} THEN live[x].refs \ {t} ELSE live[x].refs
              /\ z.checks = IF x = "perms" THEN {p \in live[x].checks : p[1] # t} ELSE live[x].checks
            BY <1>4, <1>8, <2>2, <3>1
        <3>3. StoredAs(x, live[x], ids, n, live["repo"])
            BY <1>6
        <3>4. /\ x = "managers" => z.refs \subseteq Existing(ids')
              /\ x = "perms" => TeamsIn(z.checks) \subseteq Existing(ids')
              /\ x \in Selective /\ "second" \in z.refs => live'["repo"] # None
            BY <1>7, <1>9, <3>2, <3>3 DEF StoredAs, TeamsIn
        <3>5. z.refs \subseteq live[x].refs /\ z.checks \subseteq live[x].checks
            BY <3>2
        <3>6. n <= n
            OBVIOUS
        <3>7. StoredAs(x, z, ids', n, live'["repo"])
            BY <3>2, <3>3, <3>4, <3>5, <3>6, FewerAreStored
        <3> QED
            BY <3>1, <3>7
    <2> QED
        BY <2>1, <2>2
<1>11. IsStored(live', ids', n)
    BY <1>10, StoredEach
<1> QED
    BY <1>3, <1>11

LEMMA OtherGrantsStores ==
    ASSUME RefInv, StoredInv, NEW o \in HasActors, NEW n, OtherGrants(o, n)
    PROVE  IsStored(live, ids, hist.next)'
<1>1. /\ live' = [live EXCEPT ![o].refs = @ \cup {Identity(n)}] /\ n \in Mentions(o)
      /\ ids' = ids /\ hist' = [hist EXCEPT !.calm = 0, !.disturbed = TRUE]
    BY DEF OtherGrants, Disturb
<1>2. /\ DOMAIN live = Objects /\ IsObject(live[o]) /\ o \in Objects /\ o # "repo" /\ "repo" \in Objects
      /\ IsStored(live, ids, hist.next) /\ o \notin Selective /\ o \notin {"managers", "perms"}
      /\ o \notin Permanent
    BY KindsOfObjects DEF RefInv, KeepInv, LiveInv, StoredInv
<1>3. PICK k \in Nat \ {0} : k = hist.next /\ hist'.next = k
    BY <1>1 DEF RefInv, TeamsInv
<1>4. /\ \A x \in Objects : x # o => live'[x] = live[x]
      /\ live'[o].refs = live[o].refs \cup {Identity(n)} /\ live'[o].checks = live[o].checks
      /\ live'[o].data = live[o].data
    BY <1>1, <1>2 DEF IsObject, Fields
<1>5. Identity(n) \in Stored(o, k)
    <2>1. \E i \in 0..k - 1 : Identity(n) = <<n, i>>
        <3>1. n \in Teams => ids[n] \in 0..k - 1
            BY <1>3 DEF RefInv, TeamsInv
        <3>2. 0 \in 0..k - 1
            OBVIOUS
        <3> QED
            BY <3>1, <3>2 DEF Identity
    <2> QED
        BY <1>1, <2>1 DEF Stored
<1>6. \A x \in Objects : StoredAs(x, live[x], ids, k, live["repo"])
    BY <1>2, <1>3, StoredEach
<1>7. live'["repo"] = live["repo"]
    BY <1>2, <1>4
<1>8. \A x \in Objects : StoredAs(x, live'[x], ids', k, live'["repo"])
    <2>1. StoredAs(o, live[o], ids, k, live["repo"])
        BY <1>2, <1>6
    <2>2. StoredAs(o, live'[o], ids, k, live["repo"])
        BY <1>2, <1>4, <1>5, <2>1 DEF StoredAs
    <2>3. \A x \in Objects : x # o => StoredAs(x, live'[x], ids, k, live["repo"])
        BY <1>4, <1>6
    <2> QED
        BY <1>1, <1>7, <2>2, <2>3
<1>9. IsStored(live', ids', k)
    BY <1>8, StoredEach
<1> QED
    BY <1>3, <1>9

LEMMA BeginStores ==
    ASSUME RefInv, StoredInv, Begin
    PROVE  StoredInv'
<1>1. /\ todo # <<>> /\ steps = <<>> /\ UNCHANGED <<live, ids, config, hist>>
      /\ Current.kind # "remove" => Resolvable(Current.of, config[Current.of])
    BY DEF Begin
<1>2. PICK p : p = Current
    OBVIOUS
<1>3. p \in PatchSet /\ (p.kind # "remove" => config[p.of] # None)
    <2>1. p = todo[1] /\ 1 \in DOMAIN todo /\ p \in PatchSet
        BY <1>1, <1>2, HeadTailProperties, LenProperties, EmptySeq DEF RefInv, KeepInv, TodoInv, Current
    <2> QED
        BY <2>1 DEF RefInv, KeepInv, TodoInv
<1>4. AllLegal(p.of, StepsOf(p))
    BY <1>1, <1>2, <1>3, StepsAreLegal DEF RefInv, KeepInv, StoredInv
<1>5. IsConfiguration(config)' /\ IsStored(live, ids, hist.next)'
    BY <1>1 DEF StoredInv
<1>6. CASE StepsOf(p) = <<>>
    <2>1. steps' = <<>>
        BY <1>1, <1>2, <1>6 DEF Begin
    <2> QED
        BY <1>5, <2>1 DEF StoredInv
<1>7. CASE StepsOf(p) # <<>>
    <2>1. steps' = StepsOf(p) /\ Current' = p
        BY <1>2, <1>7 DEF Begin, Current
    <2>2. PICK o, ss : o = p.of /\ ss = StepsOf(p)
        OBVIOUS
    <2>3. (\E S : ss \in Seq(S)) /\ hist.next \in Nat /\ hist.next <= hist.next /\ hist'.next = hist.next
        BY <1>1, <1>4, <2>2 DEF AllLegal, RefInv, TeamsInv
    <2>4. AllLegal(o, ss)'
        BY <1>1, <1>4, <2>2, <2>3, LegalStays
    <2>5. AllLegal(Current.of, steps)'
        BY <2>1, <2>2, <2>4 DEF AllLegal
    <2> QED
        BY <1>5, <2>5 DEF StoredInv
<1> QED
    BY <1>6, <1>7

\* What GitHub stores of the objects, and what is sent, is at all times what it can store.
THEOREM StoredInvariance == RefSpec => [](StoredInv /\ HistInv)
<1>1. RefInit => StoredInv /\ HistInv
    <2> SUFFICES ASSUME RefInit
                 PROVE  StoredInv /\ HistInv
        OBVIOUS
    <2>1. PICK c \in Cases : live = c.live /\ ids = c.ids /\ config = c.config
        BY DEF RefInit
    <2>2. PICK n \in Nat : n = Cardinality(Teams)
        BY TeamsAssumption, FS_CardinalityType
    <2>3. hist = [failed |-> FALSE, disturbed |-> FALSE, calm |-> 0, next |-> n + 1] /\ steps = <<>>
        BY <2>2 DEF RefInit
    <2>4. n + 1 \in Nat /\ hist.next = n + 1
        BY <2>3
    <2> QED
        BY <2>1, <2>2, <2>3, <2>4, ContentsAssumption DEF StoredInv, HistInv
<1>2. RefInv /\ StoredInv /\ HistInv /\ [RefNext]_refVars => (StoredInv /\ HistInv)'
    <2> SUFFICES ASSUME RefInv, StoredInv, HistInv, [RefNext]_refVars
                 PROVE  StoredInv' /\ HistInv'
        OBVIOUS
    <2>1. /\ hist.next \in Nat /\ hist.calm \in Nat /\ hist.calm + 1 \in Nat /\ hist.failed \in BOOLEAN
          /\ hist.next <= hist.next
        BY DEF HistInv
    <2>2. ASSUME UNCHANGED <<live, ids, config>>, HistInv', hist'.next = hist.next,
                 steps' = <<>> \/ UNCHANGED <<steps, todo>> \/ (steps # <<>> /\ Advance)
          PROVE  StoredInv'
        <3>1. IsStored(live, ids, hist.next)'
            BY <2>2 DEF StoredInv
        <3> QED
            BY <2>1, <2>2, <3>1, LegalInStep
    <2>3. CASE Plan
        <3>1. HistInv' /\ hist'.next = hist.next
            BY <2>3 DEF Plan, HistInv
        <3>2. steps' = <<>>
            BY <2>3 DEF Plan, RefInv, KeepInv, StepsInv
        <3> QED
            BY <2>2, <2>3, <3>1, <3>2 DEF Plan
    <2>4. CASE Begin
        BY <2>4, BeginStores DEF Begin, HistInv
    <2>5. CASE Unresolved
        <3>1. HistInv' /\ hist'.next = hist.next
            BY <2>5 DEF Unresolved, HistInv
        <3> QED
            BY <2>2, <2>5, <3>1 DEF Unresolved
    <2>6. CASE Step
        <3>1. PICK o : o = Current.of
            OBVIOUS
        <3>2. o \in Objects /\ Sound(o, Head(steps)) /\ LiveInv /\ TeamsInv
            BY <2>6, <3>1, NextIsSound DEF RefInv, KeepInv, Step
        <3>3. /\ hist'.next \in Nat /\ hist.next <= hist'.next /\ HistInv'
              /\ \A x \in Objects : x # o /\ x \notin {"managers", "perms", "secret", "variable"} => live'[x] = live[x]
            BY <2>6, <3>1, StepAround
        <3>4. o \in Selective => live'["repo"] = live["repo"]
            BY <3>3, KindsOfObjects
        <3>5. IsStored(live, ids, hist.next)'
            BY <2>6, StepStores
        <3>6. config' = config /\ steps # <<>> /\ Advance
            BY <2>6 DEF Step
        <3> QED
            BY <2>1, <3>1, <3>3, <3>4, <3>5, <3>6, LegalInStep
    <2>7. CASE Warn
        BY <2>2, <2>7 DEF Warn, HistInv
    <2>8. CASE Refuse
        <3>1. HistInv' /\ hist'.next = hist.next
            BY <2>8 DEF Refuse, HistInv
        <3> QED
            BY <2>2, <2>8, <3>1 DEF Refuse, GiveUp
    <2>9. CASE StepFails
        <3>1. HistInv' /\ hist'.next = hist.next
            BY <2>9 DEF StepFails, HistInv
        <3> QED
            BY <2>2, <2>9, <3>1 DEF StepFails, GiveUp
    <2>10. CASE Overlook
        <3>1. HistInv' /\ hist'.next = hist.next
            BY <2>10 DEF Overlook, HistInv
        <3> QED
            BY <2>2, <2>10, <3>1 DEF Overlook
    <2>11. CASE Complete
        <3>1. HistInv' /\ hist'.next = hist.next
            BY <2>1, <2>11 DEF Complete, HistInv
        <3> QED
            BY <2>2, <2>11, <3>1 DEF Complete
    <2>12. CASE Again
        BY <2>2, <2>12 DEF Again, HistInv
    <2>13. ASSUME Disturb
           PROVE  HistInv' /\ hist'.next = hist.next /\ UNCHANGED <<config, steps, todo>>
        BY <2>13 DEF Disturb, HistInv
    <2>14. CASE \E t \in Teams : OtherRemovesTeam(t)
        <3>1. PICK t \in Teams : OtherRemovesTeam(t)
            BY <2>14
        <3>2. HistInv' /\ hist'.next = hist.next /\ UNCHANGED <<config, steps, todo>>
            BY <2>13, <3>1 DEF OtherRemovesTeam
        <3>3. IsStored(live, ids, hist.next)'
            BY <3>1, OtherRemovesStores
        <3>4. live["repo"] # None => live'["repo"] # None
            <4>1. live'["repo"].data = live["repo"].data /\ IsObject(live["repo"]) /\ "repo" \in Objects
                <5> DEFINE l == [live EXCEPT ![t] = None]
                <5>1. /\ DOMAIN live = Objects /\ \A x \in Objects : IsObject(live[x])
                      /\ "repo" \in Objects /\ t # "repo" /\ t \in Objects
                    BY KindsOfObjects DEF RefInv, KeepInv, LiveInv
                <5>2. DOMAIN l = Objects /\ l["repo"] = live["repo"] /\ \A x \in Objects : IsObject(l[x])
                    BY <5>1, NoneIsObject
                <5>3. live' = Without(l, t)
                    BY <3>1 DEF OtherRemovesTeam
                <5> HIDE DEF l
                <5>4. Without(l, t)["repo"].data = l["repo"].data
                    BY <5>1, <5>2, WithoutFacts
                <5> QED
                    BY <5>1, <5>2, <5>3, <5>4
            <4> QED
                BY <4>1 DEF IsObject
        <3> QED
            BY <2>1, <3>2, <3>3, <3>4, LegalInStep
    <2>15. CASE \E a \in Apps : OtherUninstalls(a)
        BY <2>2, <2>13, <2>15 DEF OtherUninstalls
    <2>16. CASE \E o \in HasActors, n \in Teams \cup Users \cup Apps \cup Roles : OtherGrants(o, n)
        <3>1. PICK o \in HasActors, n \in Teams \cup Users \cup Apps \cup Roles : OtherGrants(o, n)
            BY <2>16
        <3>2. HistInv' /\ hist'.next = hist.next /\ UNCHANGED <<config, steps, todo>>
            BY <2>13, <3>1 DEF OtherGrants
        <3>3. IsStored(live, ids, hist.next)'
            BY <3>1, OtherGrantsStores
        <3>4. live'["repo"] = live["repo"]
            <4>1. "repo" \in Objects /\ o # "repo" /\ DOMAIN live = Objects
                BY KindsOfObjects DEF RefInv, KeepInv, LiveInv
            <4> QED
                BY <3>1, <4>1 DEF OtherGrants
        <3> QED
            BY <2>1, <3>2, <3>3, <3>4, LegalInStep
    <2>17. CASE BreakOff
        <3>1. HistInv' /\ hist'.next = hist.next
            BY <2>17 DEF BreakOff, HistInv
        <3> QED
            BY <2>2, <2>17, <3>1 DEF BreakOff
    <2>18. CASE UNCHANGED refVars
        BY <2>2, <2>18 DEF refVars, HistInv
    <2> QED
        BY <2>3, <2>4, <2>5, <2>6, <2>7, <2>8, <2>9, <2>10, <2>11, <2>12, <2>14, <2>15, <2>16, <2>17, <2>18
           DEF RefNext
<1> QED
    BY <1>1, <1>2, RefInvHolds, PTL DEF RefSpec

-----------------------------------------------------------------------------
(* References: what fits the configuration.                                *)

\* An object as it is found or left fits what is configured, field by field: who is named and
\* exists is there, whoever else is there cannot be seen; only teams that are not configured
\* are missing.
IsThere(x) == x.data # None.data
RefsFit(o, x) ==
    IF o \in HasActors
    THEN /\ \A n \in config[o].refs : IF Exists(n) THEN Identity(n) \in x.refs
                                                   ELSE n \in Teams /\ config[n] = None
         /\ \A n \in Mentions(o) :
                Identity(n) \in x.refs /\ Exists(n) /\ Readable(o, n) => n \in config[o].refs
    ELSE x.refs = Named(o) /\ \A n \in Named(o) : Exists(n)
ReadEntries(o, x) ==
    IF o \in Environments THEN (IF "selected" \in x.data THEN x.checks ELSE {})
                          ELSE {ReadCheck(o, c) : c \in x.checks}
ChecksFit(o, x) == {ReadCheck(o, StoredCheck(o, c)) : c \in config[o].checks} = ReadEntries(o, x)
FieldFits(o, x, f) ==
    /\ f = "refs" => RefsFit(o, x)
    /\ f = "checks" /\ ~NoRules(o) => ChecksFit(o, x)
    /\ f = "data" /\ ~NoRules(o) => x.data = config[o].data
Fits(o, x, F) == IsThere(x) /\ \A f \in Included(o) \ F : FieldFits(o, x, f)

GoodNow(o) == IF config[o] = None THEN live[o] = None \/ ComesByItself(o) ELSE Fits(o, live[o], {})

\* A patch whose turn has not come: what it does not change fits already.  Selections and
\* rulesets are sent as a whole.
Awaits(p) ==
    LET o == p.of IN
    /\ p.kind = "remove" => live[o] # None
    /\ p.kind = "add" => live[o] = None /\ p.changed = Fields
    /\ p.kind = "change" => /\ p.changed \subseteq Included(o) /\ live[o] # None
                            /\ o \notin Selective \cup Rules => Fits(o, live[o], p.changed)

\* An object with another list, and the list that requests for entries lead to.  Entries of
\* an environment that selects no branches are refused, and nobody needs them.
With(x, f, S) == [refs |-> IF f = "refs" THEN S ELSE x.refs,
                  checks |-> IF f = "checks" THEN S ELSE x.checks, data |-> x.data]
Final(o, x, inc, exc) ==
    IF o = "perms" THEN {p \in x.checks \ exc : p[1] \notin TeamsIn(inc)} \cup inc
                   ELSE (x[ListOf(o)] \ exc) \cup inc
Unselected(o) == o \in Environments /\ "selected" \notin config[o].data
LeadsWith(o, x, inc, exc) ==
    IF Unselected(o) THEN Fits(o, x, {})
    ELSE /\ exc \subseteq x[ListOf(o)]
         /\ o = "perms" => OneLevelEach(inc) /\ TeamsIn(inc) \cap TeamsIn(exc) = {}
         /\ Fits(o, With(x, ListOf(o), Final(o, x, inc, exc)), {})
Leads(o, x, L) == \E inc, exc : IsList(L, ListOf(o), inc, exc) /\ LeadsWith(o, x, inc, exc)

\* A patch that is being applied, its requests `ss`: what is left of them makes its object fit.
Underway(p, ss) ==
    LET o == p.of IN
    IF p.kind = "remove" THEN live[o] # None /\ ss = <<Entry("delete", "data", {})>>
    ELSE \/ Leads(o, live[o], ss)
         \/ Head(ss).op = "put" /\ Leads(o, After(o, Head(ss)), Tail(ss))
         \/ /\ o = "variable" /\ live[o] # None /\ Resolvable(o, config[o]) /\ "selected" \in config[o].data
            /\ ss = <<Update([data |-> config[o].data]), Update([refs |-> config[o].refs])>>

\* A selection that could not be resolved waits for the next run: its repository was
\* created too late.
Pending(o) == \E i \in DOMAIN todo : todo[i].of = o
Waits(o) == o \in Selective /\ config[o] # None /\ hist.failed
RepoThere == config["repo"] # None => live["repo"] # None

ApplyingInv ==
    /\ \A o \in Objects : ~Pending(o) => GoodNow(o) \/ (Waits(o) /\ hist.calm = 0)
    /\ \A p \in PatchSet :
          /\ (\E i \in DOMAIN todo : todo[i] = p /\ (i > 1 \/ steps = <<>>)) => Awaits(p)
          /\ steps # <<>> /\ Current = p => Underway(p, steps)
    /\ hist.calm # 0 => RepoThere

CalmInv ==
    /\ hist.disturbed => hist.calm = 0
    /\ Coherent /\ ~hist.disturbed =>
          /\ pc = "applying" => ApplyingInv
          /\ pc # "applying" /\ hist.calm # 0 =>
                \A o \in Objects : GoodNow(o) \/ (Waits(o) /\ hist.calm = 1)
SoundState ==
    LiveInv /\ TeamsInv /\ RestInv /\ IsConfiguration(config) /\ IsStored(live, ids, hist.next)

\* Who exists, and who is named by which object.
LEMMA WhoExists ==
    /\ \A n \in Users \cup Apps \cup Roles \cup {"first"} : Exists(n)
    /\ \A n \in Teams : n \notin Users \cup Apps \cup Roles \cup {"first", "second"} /\ (Exists(n) <=> ids[n] # 0)
    /\ Exists("second") <=> live["repo"] # None
BY TeamsAssumption, NamesAssumption DEF Exists, Roles

LEMMA WhoIsNamed ==
    ASSUME IsConfiguration(config), NEW o \in Objects
    PROVE  /\ Named(o) \subseteq config[o].refs /\ config[o].refs \subseteq Mentions(o)
           /\ o \notin Selective => Named(o) = config[o].refs
           /\ o \in HasActors => /\ o \notin Selective
                                 /\ Mentions(o) \subseteq Teams \cup Users \cup Apps \cup Roles
           /\ o \in Teams => Mentions(o) = Users
           /\ o = "managers" => Mentions(o) = Teams
           /\ o \in Selective => Mentions(o) = {"first", "second"}
           /\ o \in {"repo", "perms"} => Mentions(o) = {}
<1>1. Named(o) \subseteq config[o].refs /\ (o \notin Selective => Named(o) = config[o].refs)
    BY DEF Named
<1>2. config[o].refs \subseteq Mentions(o)
    BY DEF IsConfiguration
<1>3. o \in HasActors => o \notin Selective
    BY KindsOfObjects
<1>4. o \in HasActors => Mentions(o) \subseteq Teams \cup Users \cup Apps \cup Roles
    BY KindsOfObjects DEF Mentions
<1>5. /\ o \in Teams => Mentions(o) = Users
      /\ o = "managers" => Mentions(o) = Teams
    BY KindsOfObjects DEF Mentions
<1>6. /\ o \in Selective => Mentions(o) = {"first", "second"}
      /\ o \in {"repo", "perms"} => Mentions(o) = {}
    BY KindsOfObjects DEF Mentions
<1> QED
    BY <1>1, <1>2, <1>3, <1>4, <1>5, <1>6

LEMMA ObjectKinds ==
    ASSUME NEW o \in Objects
    PROVE  o \in HasActors \/ o \in Teams \/ o = "managers" \/ o \in Selective \/ o \in {"repo", "perms"}
BY PatchKinds, KindsOfObjects

LEMMA IdentityIs ==
    ASSUME NEW n
    PROVE  Identity(n)[1] = n
BY DEF Identity

\* What is read of entries.
LEMMA EntriesAreRead ==
    ASSUME SoundState, NEW o \in Objects
    PROVE  ReadChecks(o) = ReadEntries(o, live[o])
<1>1. CASE o = "perms"
    <2>1. o \notin Environments /\ o \notin Rules /\ o # "branch"
        BY <1>1, KindsOfObjects
    <2>2. \A c : ReadCheck(o, c) = c
        BY <2>1 DEF ReadCheck
    <2>3. ReadEntries(o, live[o]) = live[o].checks
        BY <2>1, <2>2 DEF ReadEntries
    <2>4. TeamsIn(live["perms"].checks) \subseteq {t \in Teams : ids[t] # 0}
        BY DEF SoundState, IsStored
    <2>5. ReadPermissions = live["perms"].checks
        BY <2>4 DEF ReadPermissions, TeamsIn
    <2> QED
        BY <1>1, <2>1, <2>3, <2>5 DEF ReadChecks
<1>2. CASE o \in Environments
    <2>1. o # "perms"
        BY <1>2, KindsOfObjects
    <2> QED
        BY <1>2, <2>1 DEF ReadChecks, ReadPolicies, ReadEntries
<1>3. CASE o # "perms" /\ o \notin Environments
    <2>1. ReadChecks(o) = {ReadCheck(o, c) : c \in live[o].checks}
        BY <1>3 DEF ReadChecks
    <2>2. ReadEntries(o, live[o]) = {ReadCheck(o, c) : c \in live[o].checks}
        BY <1>3 DEF ReadEntries
    <2> QED
        BY <2>1, <2>2
<1> QED
    BY <1>1, <1>2, <1>3

\* Whoever is read of an object is stored of it, exists, and can be mentioned.
LEMMA ActorsAreRead ==
    ASSUME SoundState, NEW o \in HasActors
    PROVE  /\ \A n : n \in Known(o) <=> Identity(n) \in live[o].refs /\ Exists(n)
           /\ Known(o) \subseteq Mentions(o)
           /\ ReadRefs(o) = {n \in Known(o) : Readable(o, n)}
<1>1. o \in Objects /\ o \notin Teams /\ o \notin Selective /\ o # "managers"
    BY KindsOfObjects
<1>2. live[o].refs \subseteq Mentions(o) \X (0..hist.next - 1)
    BY <1>1 DEF SoundState, IsStored, Stored
<1>3. ASSUME NEW n
      PROVE  n \in Known(o) <=> Identity(n) \in live[o].refs /\ Exists(n)
    BY IdentityIs DEF Known
<1>4. Known(o) \subseteq Mentions(o)
    BY <1>2 DEF Known
<1>5. CASE o \in Rules
    BY <1>1, <1>3, <1>4, <1>5, KindsOfObjects DEF ReadRefs, ReadBypasses
<1>6. CASE o \notin Rules
    <2>1. o \in Environments \/ o = "branch"
        BY <1>6 DEF HasActors
    <2>2. ReadRefs(o) = Known(o)
        BY <1>1, <1>6, <2>1, KindsOfObjects DEF ReadRefs, ReadAllowances, ReadReviewers, Selective
    <2>3. \A n \in Mentions(o) : n # "custom"
        <3>1. Mentions(o) \subseteq Teams \cup Users \cup Apps
            BY <1>1, <1>6, <2>1, KindsOfObjects DEF Mentions
        <3> QED
            BY <3>1, TeamsAssumption, NamesAssumption DEF Roles
    <2>4. \A n \in Known(o) : Readable(o, n)
        BY <1>4, <1>6, <2>3, KindsOfObjects DEF Readable
    <2> QED
        BY <1>3, <1>4, <2>2, <2>4
<1> QED
    BY <1>3, <1>4, <1>5, <1>6

\* Of the others, what is stored is read; selections only of what is for selected repositories.
LEMMA OthersAreRead ==
    ASSUME SoundState, NEW o \in Objects \ HasActors
    PROVE  ReadRefs(o) = live[o].refs /\ live[o].refs \subseteq Mentions(o)
<1>1. live[o].refs \subseteq Mentions(o)
    BY DEF SoundState, IsStored, Stored
<1>2. CASE o \in Teams
    BY <1>1, <1>2, KindsOfObjects DEF ReadRefs, ReadMembers
<1>3. CASE o = "managers"
    BY <1>1, <1>3, KindsOfObjects DEF ReadRefs, ReadManagers
<1>4. CASE o \in Selective
    <2>1. "selected" \notin live[o].data => live[o].refs = {}
        BY <1>4 DEF SoundState, LiveInv
    <2> QED
        BY <1>1, <1>4, <2>1, KindsOfObjects
           DEF ReadRefs, ReadSelectionOfSecret, ReadSelectionOfVariable, Selective
<1>5. CASE o \in {"repo", "perms"}
    <2>1. live[o].refs = {}
        BY <1>1, <1>5, WhoIsNamed DEF SoundState
    <2>2. ReadRefs(o) = {}
        BY <1>5, KindsOfObjects DEF ReadRefs, Rules, Environments
    <2> QED
        BY <1>1, <2>1, <2>2
<1> QED
    BY <1>1, <1>2, <1>3, <1>4, <1>5, ObjectKinds

\* What is read back as it is configured fits.
LEMMA RefsAsRead ==
    ASSUME SoundState, NEW o \in Objects, live[o] # None, config[o].refs = ReadRefs(o),
           o \in Selective => config[o].data = live[o].data
    PROVE  RefsFit(o, live[o])
<1>1. CASE o \in HasActors
    <2>1. /\ \A n : n \in Known(o) <=> Identity(n) \in live[o].refs /\ Exists(n)
          /\ ReadRefs(o) = {n \in Known(o) : Readable(o, n)}
        BY <1>1, ActorsAreRead
    <2>2. \A n \in config[o].refs : Exists(n) /\ Identity(n) \in live[o].refs
        BY <2>1
    <2>3. \A n \in Mentions(o) :
              Identity(n) \in live[o].refs /\ Exists(n) /\ Readable(o, n) => n \in config[o].refs
        BY <2>1
    <2> QED
        BY <1>1, <2>2, <2>3 DEF RefsFit
<1>2. CASE o \notin HasActors
    <2>1. config[o].refs = live[o].refs
        BY <1>2, OthersAreRead
    <2>2. /\ Named(o) \subseteq config[o].refs /\ config[o].refs \subseteq Mentions(o)
          /\ o \notin Selective => Named(o) = config[o].refs
          /\ o \in Teams => Mentions(o) = Users
          /\ o = "managers" => Mentions(o) = Teams
          /\ o \in Selective => Mentions(o) = {"first", "second"}
          /\ o \in {"repo", "perms"} => Mentions(o) = {}
        BY WhoIsNamed DEF SoundState
    <2>3. Named(o) = config[o].refs
        <3>1. CASE o \in Selective
            <4>1. "selected" \notin live[o].data => live[o].refs = {}
                BY <3>1 DEF SoundState, LiveInv
            <4> QED
                BY <2>1, <3>1, <4>1 DEF Named
        <3> QED
            BY <2>2, <3>1
    <2>4. \A n \in Named(o) : Exists(n)
        <3>1. CASE o \in Teams
            BY <2>2, <3>1, WhoExists
        <3>2. CASE o = "managers"
            <4>1. live["managers"].refs \subseteq {t \in Teams : ids[t] # 0}
                BY DEF SoundState, IsStored
            <4> QED
                BY <2>1, <2>3, <3>2, <4>1, WhoExists
        <3>3. CASE o \in Selective
            <4>1. "second" \in live[o].refs => live["repo"] # None
                BY <3>3 DEF SoundState, IsStored
            <4> QED
                BY <2>1, <2>2, <2>3, <3>3, <4>1, WhoExists
        <3>4. CASE o \in {"repo", "perms"}
            BY <2>2, <2>3, <3>4
        <3> QED
            BY <1>2, <3>1, <3>2, <3>3, <3>4, ObjectKinds
    <2> QED
        BY <1>2, <2>1, <2>3, <2>4 DEF RefsFit
<1> QED
    BY <1>1, <1>2

\* Checks read as they are configured are read so again when they are stored as configured.
LEMMA ChecksAsRead ==
    ASSUME SoundState, NEW o \in Objects, config[o].checks = ReadChecks(o)
    PROVE  ChecksFit(o, live[o])
<1>1. ReadEntries(o, live[o]) = config[o].checks
    BY EntriesAreRead
<1>2. \A c \in config[o].checks : ReadCheck(o, StoredCheck(o, c)) = c
    <2> SUFFICES ASSUME NEW c \in config[o].checks
                 PROVE  ReadCheck(o, StoredCheck(o, c)) = c
        OBVIOUS
    <2>1. CASE o \in Rules
        <3>1. o \notin Environments /\ o # "branch"
            BY <2>1, KindsOfObjects
        <3>2. PICK d \in live[o].checks : c = ReadCheck(o, d)
            BY <1>1, <3>1 DEF ReadEntries
        <3>3. d # "any"
            BY <2>1, <3>2 DEF SoundState, IsStored
        <3>4. c = IF d \in Apps \ installed THEN "number" ELSE d
            BY <2>1, <3>1, <3>2 DEF ReadCheck, ReadRuleCheck
        <3>5. ReadCheck(o, StoredCheck(o, c)) = ReadRuleCheck(StoredRuleCheck(c))
            BY <2>1, <3>1 DEF ReadCheck, StoredCheck
        <3>6. "number" \notin Apps
            BY NamesAssumption
        <3> QED
            BY <3>3, <3>4, <3>5, <3>6 DEF ReadRuleCheck, StoredRuleCheck
    <2>2. CASE o = "branch"
        <3>1. o \notin Environments /\ o \notin Rules
            BY <2>2, KindsOfObjects
        <3>2. PICK d \in live[o].checks : c = ReadCheck(o, d)
            BY <1>1, <3>1 DEF ReadEntries
        <3>3. c = IF d = "actions" THEN "none" ELSE d
            BY <2>2, <3>1, <3>2 DEF ReadCheck, ReadBranchCheck
        <3>4. ReadCheck(o, StoredCheck(o, c)) = ReadBranchCheck(StoredBranchCheck(c))
            BY <2>2, <3>1 DEF ReadCheck, StoredCheck
        <3> QED
            BY <3>3, <3>4 DEF ReadBranchCheck, StoredBranchCheck
    <2>3. CASE o \notin Rules /\ o # "branch"
        BY <2>3 DEF ReadCheck, StoredCheck
    <2> QED
        BY <2>1, <2>2, <2>3
<1>3. {ReadCheck(o, StoredCheck(o, c)) : c \in config[o].checks} = config[o].checks
    BY <1>2
<1> QED
    BY <1>1, <1>3 DEF ChecksFit

LEMMA FieldAsRead ==
    ASSUME SoundState, NEW o \in Objects, live[o] # None, NEW f \in Fields, config[o][f] = AsRead(o)[f],
           o \in Selective => config[o].data = live[o].data
    PROVE  FieldFits(o, live[o], f)
<1>1. AsRead(o) = [refs |-> ReadRefs(o), checks |-> ReadChecks(o), data |-> live[o].data]
    BY DEF AsRead
<1>2. f = "refs" => config[o].refs = ReadRefs(o)
    BY <1>1
<1>3. f = "checks" => config[o].checks = ReadChecks(o)
    BY <1>1
<1>4. f = "data" => live[o].data = config[o].data
    BY <1>1
<1> QED
    BY <1>2, <1>3, <1>4, RefsAsRead, ChecksAsRead DEF FieldFits

\* What fits is settled.
LEMMA GoodIsSettled ==
    ASSUME SoundState, NEW o \in Objects, GoodNow(o)
    PROVE  Settled(o)
<1>1. /\ IsObject(live[o]) /\ DOMAIN live[o] = Fields /\ IsObject(config[o])
      /\ \A t \in Teams : o \in HasActors => <<t, 0>> \notin live[o].refs
    BY DEF SoundState, LiveInv, IsObject
<1>2. CASE config[o] = None
    BY <1>2 DEF GoodNow, Settled
<1>3. CASE config[o] # None
    <2>1. Fits(o, live[o], {}) /\ live[o] # None
        BY <1>3 DEF GoodNow, Fits, IsThere
    <2>2. ASSUME "refs" \in Included(o)
          PROVE  Resolved(o, {n \in Named(o) : Exists(n)}) = live[o].refs \ (Unseen(o) \ Resolved(o, Named(o)))
        <3>1. RefsFit(o, live[o])
            BY <2>1, <2>2 DEF Fits, FieldFits
        <3>2. CASE o \notin HasActors
            <4>1. live[o].refs = Named(o) /\ \A n \in Named(o) : Exists(n)
                BY <3>1, <3>2 DEF RefsFit
            <4>2. \A names : Resolved(o, names) = names
                BY <3>2 DEF Resolved, HasActors
            <4>3. Unseen(o) = {}
                BY <3>2 DEF Unseen
            <4> QED
                BY <4>1, <4>2, <4>3
        <3>3. CASE o \in HasActors
            <4>1. Named(o) = config[o].refs /\ config[o].refs \subseteq Mentions(o)
                  /\ Mentions(o) \subseteq Teams \cup Users \cup Apps \cup Roles
                BY <3>3, WhoIsNamed DEF SoundState
            <4>2. /\ \A n \in config[o].refs : Exists(n) => Identity(n) \in live[o].refs
                  /\ \A n \in Mentions(o) :
                         Identity(n) \in live[o].refs /\ Exists(n) /\ Readable(o, n) => n \in config[o].refs
                BY <3>1, <3>3 DEF RefsFit
            <4> DEFINE there == {n \in Named(o) : Exists(n)}
            <4>3. Resolved(o, there) = {Identity(n) : n \in there}
                BY <3>3 DEF Resolved, HasActors, BypassIds, AllowanceIds, ReviewerIds
            <4>4. \A r : r \in Resolved(o, Named(o)) => \E n \in Named(o) : r = Identity(n)
                BY <3>3 DEF Resolved, HasActors, BypassIds, AllowanceIds, ReviewerIds
            <4>5. \A n \in there : Identity(n) \in Resolved(o, Named(o))
                BY <3>3 DEF Resolved, HasActors, BypassIds, AllowanceIds, ReviewerIds
            <4>6. \A r : r \in Unseen(o) <=>
                      r \in live[o].refs /\ (~Readable(o, r[1]) \/ r # Identity(r[1]) \/ ~Exists(r[1]))
                BY <3>3 DEF Unseen
            <4>7. live[o].refs \subseteq Mentions(o) \X (0..hist.next - 1)
                BY <3>3 DEF SoundState, IsStored, Stored
            <4>8. ASSUME NEW n \in Named(o), Identity(n) \in live[o].refs
                  PROVE  Exists(n)
                <5>1. CASE n \in Teams
                    <6>1. Identity(n) = <<n, ids[n]>>
                        BY <5>1 DEF Identity
                    <6>2. ids[n] # 0
                        BY <1>1, <3>3, <4>8, <5>1, <6>1
                    <6> QED
                        BY <5>1, <6>2, WhoExists
                <5>2. CASE n \notin Teams
                    BY <4>1, <4>8, <5>2, WhoExists
                <5> QED
                    BY <5>1, <5>2
            <4> HIDE DEF there
            <4>9. \A r \in Resolved(o, there) : r \in live[o].refs /\ r \in Resolved(o, Named(o))
                BY <4>1, <4>2, <4>3, <4>5 DEF there
            <4>10. ASSUME NEW r \in live[o].refs, r \notin Unseen(o) \ Resolved(o, Named(o))
                   PROVE  r \in Resolved(o, there)
                <5>1. CASE r \in Resolved(o, Named(o))
                    BY <4>3, <4>4, <4>8, <4>10, <5>1 DEF there
                <5>2. CASE r \notin Unseen(o)
                    <6>1. r[1] \in Mentions(o)
                        BY <4>7, <4>10
                    <6>2. r = Identity(r[1]) /\ Exists(r[1]) /\ Readable(o, r[1])
                        BY <4>6, <4>10, <5>2
                    <6>3. Identity(r[1]) \in live[o].refs
                        BY <4>10, <6>2
                    <6>4. r[1] \in there
                        BY <4>1, <4>2, <6>1, <6>2, <6>3 DEF there
                    <6> QED
                        BY <4>3, <6>2, <6>4
                <5> QED
                    BY <4>10, <5>1, <5>2
            <4>11. Resolved(o, there) = live[o].refs \ (Unseen(o) \ Resolved(o, Named(o)))
                BY <4>9, <4>10
            <4> QED
                BY <4>11 DEF there
        <3> QED
            BY <3>2, <3>3
    <2>3. ASSUME ~NoRules(o), "checks" \in Included(o)
          PROVE  {ReadCheck(o, StoredCheck(o, x)) : x \in config[o].checks} = AsRead(o).checks
        <3>1. ChecksFit(o, live[o])
            BY <2>1, <2>3 DEF Fits, FieldFits
        <3>2. AsRead(o).checks = ReadChecks(o)
            BY <2>1 DEF AsRead
        <3> QED
            BY <3>1, <3>2, EntriesAreRead DEF ChecksFit
    <2>4. ASSUME ~NoRules(o)
          PROVE  config[o].data = live[o].data
        <3>1. "data" \in Included(o)
            BY DEF Included, Fields
        <3> QED
            BY <2>1, <2>4, <3>1 DEF Fits, FieldFits
    <2> QED
        BY <1>3, <2>1, <2>2, <2>3, <2>4 DEF Settled
<1> QED
    BY <1>2, <1>3

\* What fits and is read back differently is never the same when read back.
LEMMA GoodIsRestless ==
    ASSUME SoundState, NEW o \in Objects, GoodNow(o), config[o] # None, Differing(o) # {}
    PROVE  Restless(o)
<1> SUFFICES ASSUME ~Restless(o)
             PROVE  FALSE
    OBVIOUS
<1>1. /\ \A c \in config[o].checks : ReadCheck(o, StoredCheck(o, c)) = c
      /\ o \in HasActors => \A n \in config[o].refs : Readable(o, n) /\ Exists(n)
      /\ Named(o) = config[o].refs
      /\ ~NoRules(o)
    BY DEF Restless
<1>2. Fits(o, live[o], {}) /\ live[o] # None
    BY DEF GoodNow, Fits, IsThere
<1>3. AsRead(o) = [refs |-> ReadRefs(o), checks |-> ReadChecks(o), data |-> live[o].data]
    BY <1>2 DEF AsRead
<1>4. PICK f \in Included(o) : config[o][f] # AsRead(o)[f]
    BY DEF Differing
<1>5. FieldFits(o, live[o], f) /\ f \in Fields
    BY <1>2, <1>4 DEF Fits, Included
<1>6. CASE f = "data"
    BY <1>1, <1>3, <1>4, <1>5, <1>6 DEF FieldFits
<1>7. CASE f = "checks"
    <2>1. ChecksFit(o, live[o])
        BY <1>1, <1>5, <1>7 DEF FieldFits
    <2>2. {ReadCheck(o, StoredCheck(o, c)) : c \in config[o].checks} = config[o].checks
        BY <1>1
    <2>3. config[o].checks = ReadChecks(o)
        BY <2>1, <2>2, EntriesAreRead DEF ChecksFit
    <2> QED
        BY <1>3, <1>4, <1>7, <2>3
<1>8. CASE f = "refs"
    <2>1. RefsFit(o, live[o])
        BY <1>5, <1>8 DEF FieldFits
    <2>2. config[o].refs = ReadRefs(o)
        <3>1. CASE o \in HasActors
            <4>1. /\ \A n : n \in Known(o) <=> Identity(n) \in live[o].refs /\ Exists(n)
                  /\ Known(o) \subseteq Mentions(o)
                  /\ ReadRefs(o) = {n \in Known(o) : Readable(o, n)}
                BY <3>1, ActorsAreRead
            <4>2. /\ \A n \in config[o].refs : Exists(n) => Identity(n) \in live[o].refs
                  /\ \A n \in Mentions(o) :
                         Identity(n) \in live[o].refs /\ Exists(n) /\ Readable(o, n) => n \in config[o].refs
                BY <2>1, <3>1 DEF RefsFit
            <4> QED
                BY <1>1, <3>1, <4>1, <4>2
        <3>2. CASE o \notin HasActors
            <4>1. ReadRefs(o) = live[o].refs
                BY <3>2, OthersAreRead
            <4> QED
                BY <1>1, <2>1, <3>2, <4>1 DEF RefsFit
        <3> QED
            BY <3>1, <3>2
    <2> QED
        BY <1>3, <1>4, <1>8, <2>2
<1> QED
    BY <1>5, <1>6, <1>7, <1>8 DEF Fields

\* Objects that are never the same are neither teams nor the repository.
LEMMA RestlessKinds ==
    ASSUME IsConfiguration(config), NEW o \in Objects, Restless(o)
    PROVE  o \notin Teams /\ o # "repo"
<1> SUFFICES ASSUME o \in Teams \/ o = "repo"
             PROVE  FALSE
    OBVIOUS
<1>1. /\ o \notin HasActors /\ o \notin Selective /\ o \notin Rules /\ ~HasEntries(o)
    BY KindsOfObjects DEF HasEntries
<1>2. config[o].checks = {} /\ Named(o) = config[o].refs
    BY <1>1 DEF IsConfiguration, Named
<1> QED
    BY <1>1, <1>2 DEF Restless, NoRules

-----------------------------------------------------------------------------
(* References: what goes on to fit while other objects change.             *)

\* Nobody who is configured goes away, nobody else is created, and who is created has an
\* identity that nobody had.
Steady ==
    /\ config' = config /\ installed' = installed
    /\ \A t \in Teams : \/ ids'[t] = ids[t]
                        \/ ids[t] = 0 /\ config[t] # None /\ ids'[t] = hist.next
                        \/ ids'[t] = 0 /\ config[t] = None
    /\ config["repo"] # None /\ live["repo"] # None => live'["repo"] # None

LEMMA SameConfig ==
    ASSUME config' = config, installed' = installed, NEW o
    PROVE  /\ Named(o)' = Named(o) /\ Included(o)' = Included(o) /\ NoRules(o)' = NoRules(o)
           /\ \A c : ReadCheck(o, c)' = ReadCheck(o, c)
           /\ \A n : Readable(o, n)' = Readable(o, n)
BY DEF Named, Included, NoRules, ReadCheck, ReadRuleCheck, ReadBranchCheck, Readable

LEMMA ConfigHas ==
    ASSUME SoundState, Coherent
    PROVE  /\ \A o \in Rules \cup {"managers"}, t \in Teams : t \in config[o].refs => config[t] # None
           /\ \A t \in TeamsIn(config["perms"].checks) : t \in Teams /\ config[t] # None
           /\ \A o \in Selective : "second" \in config[o].refs => config["repo"] # None
BY DEF SoundState, Coherent, TeamsIn, IsConfiguration

\* What fits goes on to fit.
LEMMA RefsStay ==
    ASSUME SoundState, Coherent, Steady, NEW o \in Objects, NEW x,
           o \in HasActors => x.refs \subseteq Stored(o, hist.next), RefsFit(o, x)
    PROVE  RefsFit(o, x)'
<1>1. CASE o \in HasActors
    <2>1. /\ config[o].refs \subseteq Mentions(o)
          /\ Mentions(o) \subseteq Teams \cup Users \cup Apps \cup Roles
        BY <1>1, WhoIsNamed DEF SoundState
    <2>2. /\ \A n \in config[o].refs : IF Exists(n) THEN Identity(n) \in x.refs
                                                    ELSE n \in Teams /\ config[n] = None
          /\ \A n \in Mentions(o) :
                 Identity(n) \in x.refs /\ Exists(n) /\ Readable(o, n) => n \in config[o].refs
        BY <1>1 DEF RefsFit
    <2>3. hist.next \in Nat \ {0}
        BY DEF SoundState, TeamsInv
    <2>4. \A n \in Users \cup Apps \cup Roles :
              /\ n \notin Teams /\ Exists(n) /\ Exists(n)'
              /\ Identity(n) = <<n, 0>> /\ Identity(n)' = <<n, 0>>
        BY TeamsAssumption DEF Exists, Identity
    <2>5. \A n \in Teams : /\ Identity(n) = <<n, ids[n]>> /\ Identity(n)' = <<n, ids'[n]>>
                           /\ Exists(n) <=> ids[n] # 0
                           /\ Exists(n)' <=> ids'[n] # 0
        BY TeamsAssumption DEF Exists, Identity
    <2>6. ASSUME NEW n \in config[o].refs
          PROVE  IF Exists(n)' THEN Identity(n)' \in x.refs ELSE n \in Teams /\ config[n] = None
        <3>1. CASE n \in Teams
            <4>1. CASE ids'[n] = ids[n]
                BY <2>2, <2>5, <3>1, <4>1
            <4>2. CASE ids[n] = 0 /\ config[n] # None
                BY <2>2, <2>5, <3>1, <4>2
            <4>3. CASE ids'[n] = 0 /\ config[n] = None
                BY <2>5, <3>1, <4>3
            <4> QED
                BY <3>1, <4>1, <4>2, <4>3 DEF Steady
        <3>2. CASE n \notin Teams
            BY <2>1, <2>2, <2>4, <3>2
        <3> QED
            BY <3>1, <3>2
    <2>7. ASSUME NEW n \in Mentions(o), Identity(n)' \in x.refs, Exists(n)', Readable(o, n)
          PROVE  n \in config[o].refs
        <3>1. CASE n \in Teams
            <4>1. CASE ids'[n] = ids[n]
                BY <2>2, <2>5, <2>7, <3>1, <4>1
            <4>2. CASE ids'[n] = hist.next
                BY <1>1, <2>3, <2>5, <2>7, <3>1, <4>2 DEF Stored
            <4>3. CASE ids'[n] = 0
                BY <2>5, <2>7, <3>1, <4>3
            <4> QED
                BY <3>1, <4>1, <4>2, <4>3 DEF Steady
        <3>2. CASE n \notin Teams
            BY <2>1, <2>2, <2>4, <2>7, <3>2
        <3> QED
            BY <3>1, <3>2
    <2>8. config' = config /\ installed' = installed
        BY DEF Steady
    <2>9. \A n : Readable(o, n)' = Readable(o, n)
        BY <2>8, SameConfig
    <2> QED
        BY <1>1, <2>6, <2>7, <2>8, <2>9 DEF RefsFit
<1>2. CASE o \notin HasActors
    <2>1. x.refs = Named(o) /\ \A n \in Named(o) : Exists(n)
        BY <1>2 DEF RefsFit
    <2>2. config' = config /\ installed' = installed
        BY DEF Steady
    <2>3. Named(o)' = Named(o)
        BY <2>2, SameConfig
    <2>4. /\ Named(o) \subseteq config[o].refs /\ config[o].refs \subseteq Mentions(o)
          /\ o \in Teams => Mentions(o) = Users
          /\ o = "managers" => Mentions(o) = Teams
          /\ o \in Selective => Mentions(o) = {"first", "second"}
          /\ o \in {"repo", "perms"} => Mentions(o) = {}
        BY WhoIsNamed DEF SoundState
    <2>5. \A n \in Named(o) : Exists(n)'
        <3>1. CASE o \in Teams
            BY <2>4, <3>1 DEF Exists
        <3>2. CASE o = "managers"
            <4> SUFFICES ASSUME NEW n \in Named(o)
                         PROVE  Exists(n)'
                OBVIOUS
            <4>1. n \in Teams /\ ids[n] # 0 /\ config[n] # None
                BY <2>1, <2>4, <3>2, WhoExists, ConfigHas
            <4>2. ids'[n] # 0
                BY <4>1 DEF Steady, SoundState, TeamsInv
            <4> QED
                BY <4>1, <4>2 DEF Exists
        <3>3. CASE o \in Selective
            <4>1. "second" \in Named(o) => live["repo"] # None /\ config["repo"] # None
                BY <2>1, <2>4, <3>3, WhoExists, ConfigHas
            <4>2. "second" \in Named(o) => live'["repo"] # None
                BY <4>1 DEF Steady
            <4> QED
                BY <2>4, <3>3, <4>2 DEF Exists
        <3>4. CASE o \in {"repo", "perms"}
            BY <2>4, <3>4
        <3> QED
            BY <1>2, <3>1, <3>2, <3>3, <3>4, ObjectKinds
    <2> QED
        BY <1>2, <2>1, <2>3, <2>5 DEF RefsFit
<1> QED
    BY <1>1, <1>2

LEMMA ChecksStay ==
    ASSUME config' = config, installed' = installed, NEW o, NEW x, ChecksFit(o, x)
    PROVE  ChecksFit(o, x)'
<1>1. \A c : ReadCheck(o, c)' = ReadCheck(o, c)
    BY SameConfig
<1>2. \A c : ReadCheck(o, StoredCheck(o, c))' = ReadCheck(o, StoredCheck(o, c))
    BY DEF StoredCheck, StoredRuleCheck, StoredBranchCheck, ReadCheck, ReadRuleCheck, ReadBranchCheck
<1>3. ReadEntries(o, x)' = ReadEntries(o, x)
    BY <1>1 DEF ReadEntries
<1> QED
    BY <1>2, <1>3 DEF ChecksFit

LEMMA FieldStays ==
    ASSUME SoundState, Coherent, Steady, NEW o \in Objects, NEW x, NEW f,
           o \in HasActors => x.refs \subseteq Stored(o, hist.next), FieldFits(o, x, f)
    PROVE  FieldFits(o, x, f)'
<1>1. config' = config /\ installed' = installed
    BY DEF Steady
<1>2. NoRules(o)' = NoRules(o)
    BY <1>1, SameConfig
<1>3. f = "refs" => RefsFit(o, x)'
    BY RefsStay DEF FieldFits
<1>4. f = "checks" /\ ~NoRules(o) => ChecksFit(o, x)'
    BY <1>1, ChecksStay DEF FieldFits
<1> QED
    BY <1>1, <1>2, <1>3, <1>4 DEF FieldFits

\* What fits goes on to fit while nobody who is configured goes away.
LEMMA FitsStay ==
    ASSUME SoundState, Coherent, Steady, NEW o \in Objects, NEW x, NEW F,
           o \in HasActors => x.refs \subseteq Stored(o, hist.next), Fits(o, x, F)
    PROVE  Fits(o, x, F)'
<1>1. Included(o)' = Included(o)
    BY SameConfig DEF Steady
<1>2. \A f \in Included(o) \ F : FieldFits(o, x, f)
    BY DEF Fits
<1>3. \A f \in Included(o) \ F : FieldFits(o, x, f)'
    BY <1>2, FieldStays
<1> QED
    BY <1>1, <1>3 DEF Fits, IsThere

\* The same of what there is after a step.
LEMMA FitsAfter ==
    ASSUME NEW o, NEW F, NEW x, x = live'[o], Fits(o, x, F)'
    PROVE  Fits(o, live[o], F)'
BY DEF Fits, IsThere, FieldFits, RefsFit, ChecksFit, ReadEntries
\* What somebody who goes away, `g`, takes along of an object that fits was not configured.
Lessened(o, z, g) ==
    /\ z.data = live[o].data
    /\ z.refs = IF o \in {"managers", "secret", "variable"} THEN live[o].refs \ g ELSE live[o].refs
    /\ z.checks = IF o = "perms" THEN {p \in live[o].checks : p[1] \notin g} ELSE live[o].checks
Unwanted(g) == \A n \in g : (n \in Teams /\ config[n] = None) \/ (n = "second" /\ config["repo"] = None)

LEMMA LessFits ==
    ASSUME SoundState, Coherent, NEW o \in Objects, NEW z, NEW g, Lessened(o, z, g), Unwanted(g),
           NEW f, FieldFits(o, live[o], f)
    PROVE  FieldFits(o, z, f)
<1>1. z.data = live[o].data
    BY DEF Lessened
<1>2. ASSUME RefsFit(o, live[o])
      PROVE  RefsFit(o, z)
    <2>1. CASE o \in {"managers", "secret", "variable"}
        <3>1. o \notin HasActors /\ (o = "managers" \/ o \in Selective)
            BY <2>1, KindsOfObjects
        <3>2. live[o].refs = Named(o) /\ \A n \in Named(o) : Exists(n)
            BY <1>2, <3>1 DEF RefsFit
        <3>3. /\ Named(o) \subseteq config[o].refs /\ config[o].refs \subseteq Mentions(o)
              /\ o = "managers" => Mentions(o) = Teams
              /\ o \in Selective => Mentions(o) = {"first", "second"}
            BY WhoIsNamed DEF SoundState
        <3>4. "second" \notin Teams /\ "first" \notin Teams /\ "first" # "second"
            BY TeamsAssumption
        <3>5. Named(o) \cap g = {}
            <4> SUFFICES ASSUME NEW n \in Named(o), n \in g
                         PROVE  FALSE
                OBVIOUS
            <4>1. CASE o = "managers"
                BY <3>3, <3>4, <4>1, ConfigHas DEF Unwanted
            <4>2. CASE o \in Selective
                BY <3>3, <3>4, <4>2, ConfigHas DEF Unwanted
            <4> QED
                BY <3>1, <4>1, <4>2
        <3>6. z.refs = live[o].refs
            BY <2>1, <3>2, <3>5 DEF Lessened
        <3> QED
            BY <3>1, <3>2, <3>6 DEF RefsFit
    <2>2. CASE o \notin {"managers", "secret", "variable"}
        <3>1. z.refs = live[o].refs
            BY <2>2 DEF Lessened
        <3> QED
            BY <1>2, <3>1 DEF RefsFit
    <2> QED
        BY <2>1, <2>2
<1>3. ASSUME ChecksFit(o, live[o])
      PROVE  ChecksFit(o, z)
    <2>1. z.checks = live[o].checks
        <3>1. CASE o = "perms"
            <4>1. o \notin Environments /\ o \notin Rules /\ o # "branch"
                BY <3>1, KindsOfObjects
            <4>2. \A c : ReadCheck(o, c) = c /\ StoredCheck(o, c) = c
                BY <4>1 DEF ReadCheck, StoredCheck
            <4>3. config[o].checks = live[o].checks
                <5>1. {ReadCheck(o, StoredCheck(o, c)) : c \in config[o].checks} = config[o].checks
                    BY <4>2
                <5>2. {ReadCheck(o, c) : c \in live[o].checks} = live[o].checks
                    BY <4>2
                <5> QED
                    BY <1>3, <4>1, <5>1, <5>2 DEF ChecksFit, ReadEntries
            <4>4. \A p \in live[o].checks : p[1] \notin g
                <5> SUFFICES ASSUME NEW p \in live[o].checks, p[1] \in g
                             PROVE  FALSE
                    OBVIOUS
                <5>1. p[1] \in TeamsIn(config["perms"].checks)
                    BY <3>1, <4>3 DEF TeamsIn
                <5>2. p[1] \in Teams /\ config[p[1]] # None
                    BY <5>1, ConfigHas
                <5>3. p[1] # "second"
                    BY <5>2, TeamsAssumption
                <5> QED
                    BY <5>2, <5>3 DEF Unwanted
            <4> QED
                BY <3>1, <4>4 DEF Lessened
        <3>2. CASE o # "perms"
            BY <3>2 DEF Lessened
        <3> QED
            BY <3>1, <3>2
    <2> QED
        BY <1>1, <1>3, <2>1 DEF ChecksFit, ReadEntries
<1> QED
    BY <1>1, <1>2, <1>3 DEF FieldFits

LEMMA SameIsLess ==
    ASSUME NEW o
    PROVE  Lessened(o, live[o], {}) /\ Unwanted({})
BY DEF Lessened, Unwanted

\* Objects that a step only takes somebody from go on to fit, or to wait.
LEMMA OthersStay ==
    ASSUME SoundState, Coherent, Steady, LiveInv', IsStored(live, ids, hist.next), NEW o \in Objects,
           NEW z, z = live'[o], NEW g, Lessened(o, z, g), Unwanted(g)
    PROVE  /\ \A F : Fits(o, live[o], F) => Fits(o, live[o], F)'
           /\ live[o] = None <=> live'[o] = None
           /\ GoodNow(o) => GoodNow(o)'
           /\ \A p : p.of = o /\ Awaits(p) => Awaits(p)'
<1>1. config' = config /\ installed' = installed
    BY DEF Steady
<1>2. Included(o)' = Included(o)
    BY <1>1, SameConfig
<1>3. IsObject(live[o]) /\ IsObject(z)
    BY DEF SoundState, LiveInv
<1>4. live[o] = None <=> z = None
    <2>1. z.data = live[o].data
        BY DEF Lessened
    <2>2. live[o] = None => z.refs = {} /\ z.checks = {}
        BY DEF Lessened, None
    <2>3. z = None => live[o] = None
        BY <1>3, <2>1 DEF IsObject
    <2>4. ASSUME live[o] = None
          PROVE  z = None
        <3>1. z.data = None.data
            BY <2>1, <2>4
        <3> QED
            BY <1>3, <3>1 DEF IsObject
    <2> QED
        BY <2>3, <2>4
<1>5. o \in HasActors => z.refs \subseteq Stored(o, hist.next)
    <2>1. o \in HasActors => o \notin {"managers", "secret", "variable"}
        BY KindsOfObjects
    <2> QED
        BY <2>1 DEF Lessened, IsStored
<1>6. ASSUME NEW F, Fits(o, live[o], F)
      PROVE  Fits(o, live[o], F)'
    <2>1. z.data = live[o].data
        BY DEF Lessened
    <2>2. \A f \in Included(o) \ F : FieldFits(o, live[o], f)
        BY <1>6 DEF Fits
    <2>3. \A f \in Included(o) \ F : FieldFits(o, z, f)
        BY <2>2, LessFits
    <2>4. Fits(o, z, F)
        BY <1>6, <2>1, <2>3 DEF Fits, IsThere
    <2>5. Fits(o, z, F)'
        BY <1>5, <2>4, FitsStay
    <2> QED
        BY <2>5, FitsAfter
<1>7. GoodNow(o) => GoodNow(o)'
    BY <1>1, <1>4, <1>6 DEF GoodNow, ComesByItself
<1>8. ASSUME NEW p, p.of = o, Awaits(p)
      PROVE  Awaits(p)'
    <2>1. /\ p.kind = "remove" => live[o] # None
          /\ p.kind = "add" => live[o] = None /\ p.changed = Fields
          /\ p.kind = "change" => /\ p.changed \subseteq Included(o) /\ live[o] # None
                                  /\ o \notin Selective \cup Rules => Fits(o, live[o], p.changed)
        BY <1>8 DEF Awaits
    <2>2. Fits(p.of, live[p.of], p.changed) => Fits(p.of, live[p.of], p.changed)'
        BY <1>6, <1>8
    <2> QED
        BY <1>2, <1>4, <1>8, <2>1, <2>2 DEF Awaits
<1> QED
    BY <1>4, <1>6, <1>7, <1>8
-----------------------------------------------------------------------------
(* References: the plan.                                                   *)

\* What needs no patch fits, and a patch that is planned can wait for its turn.
LEMMA PatchMeans ==
    ASSUME SoundState, NEW o \in Objects
    PROVE  /\ Patch(o) = <<>> => GoodNow(o)
           /\ \A p : Patch(o) = <<p>> => p.of = o /\ Awaits(p)
<1>1. IsObject(live[o]) /\ (live[o] # None => IsThere(live[o]))
    BY DEF SoundState, LiveInv, IsObject, IsThere
<1>2. "data" \in Included(o) /\ "data" \in Fields /\ Included(o) \subseteq Fields
    BY DEF Included, Fields
<1>3. live[o] # None => AsRead(o).data = live[o].data /\ AsRead(o)["data"] = live[o].data
    BY DEF AsRead
<1>4. ASSUME live[o] # None, NEW F, Differing(o) \subseteq F, o \in Selective => F = {}
      PROVE  Fits(o, live[o], F)
    <2> SUFFICES ASSUME NEW f \in Included(o) \ F
                 PROVE  FieldFits(o, live[o], f)
        BY <1>1, <1>4 DEF Fits
    <2>1. config[o][f] = AsRead(o)[f]
        BY <1>4 DEF Differing
    <2>2. o \in Selective => config[o].data = live[o].data
        BY <1>2, <1>3, <1>4 DEF Differing
    <2> QED
        BY <1>2, <1>4, <2>1, <2>2, FieldAsRead
<1>5. Patch(o) = <<>> => GoodNow(o)
    <2> SUFFICES ASSUME Patch(o) = <<>>
                 PROVE  GoodNow(o)
        OBVIOUS
    <2>1. CASE config[o] = None
        BY <2>1 DEF Patch, GoodNow
    <2>2. CASE config[o] # None
        <3>1. live[o] # None /\ Differing(o) = {}
            BY <2>2 DEF Patch
        <3>2. Fits(o, live[o], {})
            BY <1>4, <3>1
        <3> QED
            BY <2>2, <3>2 DEF GoodNow
    <2> QED
        BY <2>1, <2>2
<1>6. ASSUME NEW p, Patch(o) = <<p>>
      PROVE  p.of = o /\ Awaits(p)
    <2>1. \/ p = [of |-> o, kind |-> "remove", changed |-> {}] /\ live[o] # None
          \/ p = [of |-> o, kind |-> "add", changed |-> Fields] /\ live[o] = None
          \/ p = [of |-> o, kind |-> "change", changed |-> Differing(o)] /\ live[o] # None
        BY <1>6 DEF Patch
    <2>2. CASE p = [of |-> o, kind |-> "remove", changed |-> {}] /\ live[o] # None
        BY <2>2 DEF Awaits
    <2>3. CASE p = [of |-> o, kind |-> "add", changed |-> Fields] /\ live[o] = None
        BY <2>3 DEF Awaits
    <2>4. CASE p = [of |-> o, kind |-> "change", changed |-> Differing(o)] /\ live[o] # None
        <3>1. o \notin Selective => Fits(o, live[o], Differing(o))
            BY <1>4, <2>4
        <3>2. Differing(o) \subseteq Included(o)
            BY DEF Differing
        <3>3. p.of = o /\ p.kind = "change" /\ p.changed = Differing(o)
            BY <2>4
        <3> QED
            BY <2>4, <3>1, <3>2, <3>3 DEF Awaits
    <2> QED
        BY <2>1, <2>2, <2>3, <2>4
<1> QED
    BY <1>5, <1>6

\* Nothing changes when nothing changes.
LEMMA SameIsSteady ==
    ASSUME SoundState, Coherent, UNCHANGED <<live, ids, installed, config>>, NEW o \in Objects
    PROVE  /\ SoundState => Steady
           /\ GoodNow(o) => GoodNow(o)'
           /\ \A p : p.of = o /\ Awaits(p) => Awaits(p)'
           /\ \A F : Fits(o, live[o], F) => Fits(o, live[o], F)'
<1>1. Steady
    BY DEF Steady
<1>2. LiveInv'
    BY LiveStays DEF SoundState
<1>3. IsStored(live, ids, hist.next)
    BY DEF SoundState
<1> DEFINE z == live'[o]
<1>4. Lessened(o, z, {}) /\ Unwanted({})
    BY SameIsLess
<1> HIDE DEF z
<1>5. z = live'[o]
    BY DEF z
<1> QED
    BY <1>1, <1>2, <1>3, <1>4, <1>5, OthersStay

\* A plan has a patch of all that does not fit.
LEMMA PlanCalms ==
    ASSUME SoundState, StepsInv, HistInv, CalmInv, Plan
    PROVE  OrderInv' /\ CalmInv'
<1>1. /\ pc = "idle" /\ pc' = "applying" /\ todo' = Patches /\ steps' = steps /\ steps = <<>>
      /\ UNCHANGED <<live, ids, installed, config>>
    BY DEF Plan, StepsInv
<1>2. hist'.calm = hist.calm /\ hist'.disturbed = hist.disturbed
    BY DEF Plan, HistInv
<1>3. OrderInv'
    BY <1>1, PlanIsExact DEF OrderInv, Follows, InOrder
<1>4. ASSUME Coherent, ~hist.disturbed
      PROVE  ApplyingInv'
    <2>1. ASSUME NEW o \in Objects, ~Pending(o)'
          PROVE  GoodNow(o)'
        <3>1. \A i \in DOMAIN Patches : Patches[i].of # o
            BY <1>1, <2>1 DEF Pending
        <3>2. Patch(o) = <<>>
            BY <3>1, PlanIsExact
        <3> QED
            BY <1>1, <1>4, <3>2, PatchMeans, SameIsSteady
    <2>2. ASSUME NEW p \in PatchSet, NEW i \in DOMAIN todo', todo'[i] = p
          PROVE  Awaits(p)'
        <3>1. Patches[i] = p /\ p.of \in Objects /\ Patch(p.of) = <<p>>
            BY <1>1, <2>2, PlanIsExact
        <3>2. Awaits(p)
            BY <3>1, PatchMeans
        <3> QED
            BY <1>1, <1>4, <3>1, <3>2, SameIsSteady
    <2>3. hist'.calm # 0 => RepoThere'
        <3> SUFFICES ASSUME hist.calm # 0
                     PROVE  config["repo"] # None => live["repo"] # None
            BY <1>1, <1>2 DEF RepoThere
        <3>1. "repo" \in Objects /\ "repo" \notin Selective
            BY KindsOfObjects
        <3>2. GoodNow("repo")
            BY <1>1, <1>4, <3>1 DEF CalmInv, Waits
        <3> QED
            BY <3>2 DEF GoodNow, Fits, IsThere
    <2> QED
        BY <1>1, <2>1, <2>2, <2>3 DEF ApplyingInv
<1>5. Coherent' => Coherent
    BY <1>1 DEF Coherent, Deployable
<1> QED
    BY <1>1, <1>2, <1>3, <1>4, <1>5 DEF CalmInv
-----------------------------------------------------------------------------
(* References: the beginning of a patch.                                   *)

\* Everything that follows the teams finds those that are configured.
LEMMA TeamsThere ==
    ASSUME SoundState, TodoInv, OrderInv, ApplyingInv, todo # <<>>, Current.of \notin Teams
    PROVE  \A t \in Teams : config[t] # None <=> ids[t] # 0
<1> SUFFICES ASSUME NEW t \in Teams
             PROVE  config[t] # None <=> ids[t] # 0
    OBVIOUS
<1>1. t \in Objects /\ t \notin Selective /\ t # "pages"
    BY KindsOfObjects
<1>2. ~Pending(t)
    <2> SUFFICES ASSUME NEW i \in DOMAIN todo, todo[i].of = t
                 PROVE  FALSE
        BY DEF Pending
    <2>1. todo \in Seq(PatchSet) /\ 1 \in DOMAIN todo /\ Current = todo[1]
        BY DEF TodoInv, Current
    <2>2. i \in Nat /\ i >= 1
        BY <2>1
    <2>3. CASE i = 1
        BY <2>1, <2>3
    <2>4. CASE i > 1
        <3>1. <<todo[1], todo[i]>> \in InOrder
            BY <2>1, <2>2, <2>4 DEF OrderInv, Follows
        <3> QED
            BY <2>1, <3>1 DEF InOrder
    <2> QED
        BY <2>2, <2>3, <2>4
<1>3. GoodNow(t)
    BY <1>1, <1>2 DEF ApplyingInv, Waits
<1>4. live[t] = None <=> ids[t] = 0
    BY DEF SoundState, TeamsInv
<1> QED
    BY <1>1, <1>3, <1>4 DEF GoodNow, ComesByItself, Fits, IsThere

LEMMA FitsSame ==
    ASSUME NEW o, NEW x, NEW y, NEW F, x.refs = y.refs, x.checks = y.checks, x.data = y.data, Fits(o, x, F)
    PROVE  Fits(o, y, F)
BY DEF Fits, IsThere, FieldFits, RefsFit, ChecksFit, ReadEntries

\* What a request that sends an object leaves, field by field.
LEMMA AfterPut ==
    ASSUME NEW o, NEW new
    PROVE  /\ After(o, Update(new)).data = Merged(o, new).data
           /\ After(o, Update(new)).refs =
                 IF o \in Selective /\ "selected" \notin Merged(o, new).data /\ o \notin Environments
                 THEN {} ELSE Merged(o, new).refs
           /\ After(o, Update(new)).checks =
                 IF o \in Environments /\ "selected" \notin Merged(o, new).data THEN {} ELSE Merged(o, new).checks
<1> DEFINE m == Merged(o, new)
<1>1. m = [f \in Fields |-> IF f \in DOMAIN new THEN new[f] ELSE Before(o)[f]]
    BY DEF Merged
<1>2. DOMAIN m = Fields
    BY <1>1
<1>3. After(o, Update(new)) =
          IF "selected" \in m.data THEN m
          ELSE CASE o \in Environments -> [m EXCEPT !.checks = {}]
                 [] o \in Selective     -> [m EXCEPT !.refs = {}]
                 [] OTHER               -> m
    BY <1>1 DEF After, Update, Before
<1> HIDE DEF m
<1>4. Environments \cap Selective = {}
    BY DEF Environments, Selective
<1>5. CASE "selected" \in m.data
    BY <1>3, <1>5 DEF m
<1>6. CASE "selected" \notin m.data /\ o \in Environments
    <2>1. After(o, Update(new)) = [m EXCEPT !.checks = {}]
        BY <1>3, <1>4, <1>6
    <2> QED
        BY <1>2, <1>6, <2>1 DEF m, Fields
<1>7. CASE "selected" \notin m.data /\ o \in Selective /\ o \notin Environments
    <2>1. After(o, Update(new)) = [m EXCEPT !.refs = {}]
        BY <1>3, <1>4, <1>7
    <2> QED
        BY <1>2, <1>7, <2>1 DEF m, Fields
<1>8. CASE "selected" \notin m.data /\ o \notin Selective /\ o \notin Environments
    <2>1. After(o, Update(new)) = m
        BY <1>3, <1>8
    <2> QED
        BY <1>8, <2>1 DEF m
<1> QED
    BY <1>5, <1>6, <1>7, <1>8

LEMMA MergedIs ==
    ASSUME NEW o, NEW new
    PROVE  /\ Merged(o, new).refs = IF "refs" \in DOMAIN new THEN new.refs ELSE Before(o).refs
           /\ Merged(o, new).checks = IF "checks" \in DOMAIN new THEN new.checks ELSE Before(o).checks
           /\ Merged(o, new).data = IF "data" \in DOMAIN new THEN new.data ELSE Before(o).data
BY DEF Merged, Fields

\* Who is sent fits.
LEMMA SentRefsFit ==
    ASSUME SoundState, NEW o \in Objects, Resolvable(o, config[o]), o # "managers",
           o \in HasActors => \A t \in Teams : config[t] # None => ids[t] # 0,
           NEW x, x.refs = IF o \in HasActors THEN Sent(o).refs ELSE Named(o)
    PROVE  RefsFit(o, x)
<1>1. IsObject(config[o])
    BY DEF SoundState, LiveInv
<1>2. Sent(o).refs = Resolved(o, config[o].refs)
    BY <1>1, SentFacts
<1>3. /\ Named(o) \subseteq config[o].refs /\ config[o].refs \subseteq Mentions(o)
      /\ o \in HasActors => Mentions(o) \subseteq Teams \cup Users \cup Apps \cup Roles
      /\ o \in Teams => Mentions(o) = Users
      /\ o \in {"repo", "perms"} => Mentions(o) = {}
    BY WhoIsNamed DEF SoundState
<1>4. CASE o \in HasActors
    <2>0. x.refs = Resolved(o, config[o].refs)
        BY <1>2, <1>4
    <2>1. x.refs = {Identity(n) : n \in {m \in config[o].refs : Exists(m)}}
        <3>1. CASE o \in Rules
            <4>1. \A n \in config[o].refs : Exists(n)
                BY <3>1 DEF Resolvable, Misses, IsRequired
            <4>2. Resolved(o, config[o].refs) = BypassIds(config[o].refs)
                BY <3>1, KindsOfObjects DEF Resolved
            <4>3. {m \in config[o].refs : Exists(m)} = config[o].refs
                BY <4>1
            <4>4. BypassIds(config[o].refs) = {Identity(n) : n \in config[o].refs}
                BY DEF BypassIds
            <4> QED
                BY <2>0, <4>2, <4>3, <4>4
        <3>2. CASE o = "branch"
            <4>1. o \notin Rules /\ o \notin Environments
                BY <3>2, KindsOfObjects
            <4>2. Resolved(o, config[o].refs) = AllowanceIds(config[o].refs)
                BY <3>2, <4>1 DEF Resolved
            <4>3. AllowanceIds(config[o].refs) = {Identity(n) : n \in {m \in config[o].refs : Exists(m)}}
                BY DEF AllowanceIds
            <4> QED
                BY <2>0, <4>2, <4>3
        <3>3. CASE o \in Environments
            <4>1. o \notin Rules /\ o # "branch"
                BY <3>3, KindsOfObjects
            <4>2. Resolved(o, config[o].refs) = ReviewerIds(config[o].refs)
                BY <3>3, <4>1 DEF Resolved
            <4>3. ReviewerIds(config[o].refs) = {Identity(n) : n \in {m \in config[o].refs : Exists(m)}}
                BY DEF ReviewerIds
            <4> QED
                BY <2>0, <4>2, <4>3
        <3> QED
            BY <1>4, <3>1, <3>2, <3>3 DEF HasActors
    <2>2. ASSUME NEW n \in config[o].refs
          PROVE  IF Exists(n) THEN Identity(n) \in x.refs ELSE n \in Teams /\ config[n] = None
        <3>1. Exists(n) => Identity(n) \in x.refs
            BY <2>1
        <3>2. ~Exists(n) => n \in Teams /\ ids[n] = 0
            BY <1>3, <1>4, WhoExists
        <3> QED
            BY <1>4, <3>1, <3>2
    <2>3. ASSUME NEW n \in Mentions(o), Identity(n) \in x.refs
          PROVE  n \in config[o].refs
        <3>1. PICK m \in config[o].refs : Identity(n) = Identity(m)
            BY <2>1, <2>3
        <3>2. n = m
            BY <3>1, IdentityIs
        <3> QED
            BY <3>1, <3>2
    <2> QED
        BY <1>4, <2>2, <2>3 DEF RefsFit
<1>5. CASE o \notin HasActors
    <2>1. \A n \in Named(o) : Exists(n)
        <3>1. CASE o \in Teams
            BY <1>3, <3>1, WhoExists
        <3>2. CASE o \in Selective
            BY <1>3, <3>2 DEF Resolvable, Misses, IsRequired
        <3>3. CASE o \in {"repo", "perms"}
            BY <1>3, <3>3
        <3> QED
            BY <1>5, <3>1, <3>2, <3>3, ObjectKinds
    <2> QED
        BY <1>5, <2>1 DEF RefsFit
<1> QED
    BY <1>4, <1>5

LEMMA SentChecksFit ==
    ASSUME SoundState, NEW o \in Objects, NEW x, x.checks = Sent(o).checks,
           o \in Environments => "selected" \in x.data
    PROVE  ChecksFit(o, x)
<1>1. IsObject(config[o])
    BY DEF SoundState, LiveInv
<1>2. x.checks = {StoredCheck(o, c) : c \in config[o].checks}
    BY <1>1, SentFacts DEF StoredChecks
<1>3. ReadEntries(o, x) = {ReadCheck(o, c) : c \in x.checks}
    <2>1. CASE o \in Environments
        <3>1. o \notin Rules /\ o # "branch"
            BY <2>1, KindsOfObjects
        <3>2. {ReadCheck(o, c) : c \in x.checks} = x.checks
            BY <3>1 DEF ReadCheck
        <3> QED
            BY <2>1, <3>2 DEF ReadEntries
    <2>2. CASE o \notin Environments
        BY <2>2 DEF ReadEntries
    <2> QED
        BY <2>1, <2>2
<1> QED
    BY <1>2, <1>3 DEF ChecksFit

\* What was sent fits, if what was not sent did.
LEMMA SentFits ==
    ASSUME SoundState, NEW o \in Objects, Resolvable(o, config[o]), o # "managers",
           o \in HasActors => \A t \in Teams : config[t] # None => ids[t] # 0,
           NEW F, NEW x, IsThere(x),
           x.refs = IF "refs" \notin F THEN Before(o).refs
                    ELSE IF o \in HasActors THEN Sent(o).refs ELSE Named(o),
           Unselected(o) \/ x.checks = IF "checks" \in F THEN Sent(o).checks ELSE Before(o).checks,
           x.data = IF "data" \in F THEN config[o].data ELSE Before(o).data,
           \A f \in Included(o) \ F : FieldFits(o, Before(o), f)
    PROVE  Fits(o, x, {})
<1>1. Included(o) \subseteq Fields /\ "data" \in Included(o)
    BY DEF Included, Fields
<1>2. ~NoRules(o) => x.data = config[o].data
    BY <1>1 DEF FieldFits
<1>3. ASSUME "refs" \in Included(o)
      PROVE  RefsFit(o, x)
    <2>1. CASE "refs" \in F
        BY <2>1, SentRefsFit
    <2>2. CASE "refs" \notin F
        <3>1. RefsFit(o, Before(o))
            BY <1>3, <2>2 DEF FieldFits
        <3>2. x.refs = Before(o).refs
            BY <2>2
        <3> QED
            BY <3>1, <3>2 DEF RefsFit
    <2> QED
        BY <2>1, <2>2
<1>4. ASSUME "checks" \in Included(o), ~NoRules(o)
      PROVE  ChecksFit(o, x)
    <2>1. o \in Environments => "selected" \in x.data
        BY <1>2, <1>4 DEF Included
    <2>2. ~Unselected(o)
        BY <1>4 DEF Included, Unselected
    <2>3. CASE "checks" \in F
        BY <2>1, <2>2, <2>3, SentChecksFit
    <2>4. CASE "checks" \notin F
        <3>1. ChecksFit(o, Before(o))
            BY <1>4, <2>4 DEF FieldFits
        <3>2. x.checks = Before(o).checks
            BY <2>2, <2>4
        <3>3. o \in Environments /\ "selected" \notin Before(o).data => Before(o).checks = {}
            BY DEF Before, Blank, SoundState, IsStored
        <3>4. ReadEntries(o, x) = ReadEntries(o, Before(o))
            BY <2>1, <3>2, <3>3 DEF ReadEntries
        <3> QED
            BY <3>1, <3>4 DEF ChecksFit
    <2> QED
        BY <2>3, <2>4
<1> QED
    BY <1>1, <1>2, <1>3, <1>4 DEF Fits, FieldFits, Fields

\* An object that fits needs no further request.
LEMMA NothingLeadsOn ==
    ASSUME NEW o, o # "perms", NEW y, Fits(o, y, {})
    PROVE  Leads(o, y, <<>>)
<1>1. IsList(<<>>, ListOf(o), {}, {})
    BY NoList
<1>2. Final(o, y, {}, {}) = y[ListOf(o)]
    BY DEF Final
<1> DEFINE w == With(y, ListOf(o), Final(o, y, {}, {}))
<1>3. w.refs = y.refs /\ w.checks = y.checks /\ w.data = y.data
    BY <1>2 DEF With, ListOf
<1> HIDE DEF w
<1>4. Fits(o, w, {})
    BY <1>3, FitsSame
<1>5. LeadsWith(o, y, {}, {})
    BY <1>4 DEF LeadsWith, w
<1> QED
    BY <1>1, <1>5 DEF Leads

\* At the end of its requests an object fits.
LEMMA LeadsEnds ==
    ASSUME NEW o, NEW x, Leads(o, x, <<>>)
    PROVE  Fits(o, x, {})
<1>1. PICK inc, exc : IsList(<<>>, ListOf(o), inc, exc) /\ LeadsWith(o, x, inc, exc)
    BY DEF Leads
<1>2. inc = {} /\ exc = {}
    BY <1>1, NothingLeft
<1>3. CASE Unselected(o)
    BY <1>1, <1>3 DEF LeadsWith
<1>4. CASE ~Unselected(o)
    <2> DEFINE w == With(x, ListOf(o), Final(o, x, {}, {}))
    <2>1. Fits(o, w, {})
        BY <1>1, <1>2, <1>4 DEF LeadsWith
    <2>2. w.refs = x.refs /\ w.checks = x.checks /\ w.data = x.data
        <3>1. CASE o = "perms"
            <4>1. TeamsIn({}) = {}
                BY DEF TeamsIn
            <4>2. ListOf(o) = "checks"
                BY <3>1, KindsOfObjects DEF ListOf
            <4> QED
                BY <3>1, <4>1, <4>2 DEF Final, With
        <3>2. CASE o # "perms"
            <4>1. Final(o, x, {}, {}) = x[ListOf(o)]
                BY <3>2 DEF Final
            <4> QED
                BY <4>1 DEF With, ListOf
        <3> QED
            BY <3>1, <3>2
    <2> HIDE DEF w
    <2> QED
        BY <2>1, <2>2, FitsSame
<1> QED
    BY <1>3, <1>4

\* Nothing that fits depends on more than what there is and what is configured.
LEMMA SameFits ==
    ASSUME UNCHANGED <<live, ids, installed, config>>, NEW o, NEW x, NEW F, Fits(o, x, F)
    PROVE  Fits(o, x, F)'
<1>1. /\ Named(o)' = Named(o) /\ Included(o)' = Included(o) /\ NoRules(o)' = NoRules(o)
      /\ \A n : Readable(o, n)' = Readable(o, n)
    BY SameConfig
<1>2. \A n : Exists(n)' = Exists(n) /\ Identity(n)' = Identity(n)
    BY DEF Exists, Identity
<1>3. RefsFit(o, x) => RefsFit(o, x)'
    BY <1>1, <1>2 DEF RefsFit
<1>4. ChecksFit(o, x) => ChecksFit(o, x)'
    BY ChecksStay
<1> QED
    BY <1>1, <1>3, <1>4 DEF Fits, IsThere, FieldFits

LEMMA SameLeads ==
    ASSUME UNCHANGED <<live, ids, installed, config>>, NEW o, NEW x, NEW L, Leads(o, x, L)
    PROVE  Leads(o, x, L)'
<1>1. PICK inc, exc : IsList(L, ListOf(o), inc, exc) /\ LeadsWith(o, x, inc, exc)
    BY DEF Leads
<1>2. Unselected(o)' = Unselected(o)
    BY DEF Unselected
<1> DEFINE w == With(x, ListOf(o), Final(o, x, inc, exc))
<1>3. Fits(o, x, {}) => Fits(o, x, {})'
    BY SameFits
<1>4. Fits(o, w, {}) => Fits(o, w, {})'
    BY SameFits
<1>5. LeadsWith(o, x, inc, exc)'
    BY <1>1, <1>2, <1>3, <1>4 DEF LeadsWith
<1> QED
    BY <1>1, <1>5 DEF Leads

\* The same of what there is after a step, and of the requests that are left then.
LEMMA LeadsAfter ==
    ASSUME NEW o, NEW x, NEW L, Leads(o, x, L)'
    PROVE  x = live'[o] => Leads(o, live[o], L)'
<1> SUFFICES ASSUME x = live'[o]
             PROVE  Leads(o, live[o], L)'
    OBVIOUS
<1>1. PICK inc, exc : IsList(L, ListOf(o), inc, exc) /\ LeadsWith(o, x, inc, exc)'
    BY DEF Leads
<1>2. LeadsWith(o, live[o], inc, exc)'
    BY <1>1 DEF LeadsWith, With, Final, Fits, IsThere, FieldFits, RefsFit, ChecksFit, ReadEntries
<1> QED
    BY <1>1, <1>2 DEF Leads

-----------------------------------------------------------------------------
(* References: each kind of patch leads to what is configured.             *)

\* What a patch finds: the teams are there, and what it needs.
Ready(p) ==
    /\ p \in PatchSet /\ Awaits(p) /\ p.kind # "remove"
    /\ config[p.of] # None /\ Resolvable(p.of, config[p.of])
    /\ p.of \notin Teams => \A t \in Teams : config[t] # None <=> ids[t] # 0

\* What is known of a patch whose turn has come.
LEMMA WhatIsReady ==
    ASSUME SoundState, NEW p, Ready(p)
    PROVE  /\ p \in PatchSet /\ p.of \in Objects /\ p.kind \in {"add", "change"}
           /\ IsObject(config[p.of]) /\ DOMAIN Sent(p.of) = Fields
           /\ p.kind = "add" => live[p.of] = None /\ p.changed = Fields
           /\ p.kind = "change" => live[p.of] # None /\ p.changed \subseteq Included(p.of)
           /\ p.of \in HasActors => \A t \in Teams : config[t] # None => ids[t] # 0
           /\ p.of \notin Selective \cup Rules =>
                 \A f \in Included(p.of) \ p.changed : FieldFits(p.of, Before(p.of), f)
<1>1. p \in PatchSet /\ p.of \in Objects /\ p.kind \in {"add", "change"} /\ IsObject(config[p.of])
    BY DEF Ready, PatchSet, SoundState, LiveInv
<1>2. DOMAIN Sent(p.of) = Fields
    BY <1>1, SentFacts
<1>3. p.of \in HasActors => p.of \notin Teams
    BY KindsOfObjects
<1>4. /\ p.kind = "add" => live[p.of] = None /\ p.changed = Fields
      /\ p.kind = "change" => live[p.of] # None /\ p.changed \subseteq Included(p.of)
      /\ p.kind = "change" /\ p.of \notin Selective \cup Rules => Fits(p.of, live[p.of], p.changed)
    BY DEF Ready, Awaits
<1>5. Included(p.of) \subseteq Fields
    BY DEF Included
<1>6. live[p.of] # None => Before(p.of) = live[p.of]
    BY DEF Before
<1>7. ASSUME p.of \notin Selective \cup Rules, NEW f \in Included(p.of) \ p.changed
      PROVE  FieldFits(p.of, Before(p.of), f)
    BY <1>1, <1>4, <1>5, <1>6, <1>7 DEF Fits
<1> QED
    BY <1>1, <1>2, <1>3, <1>4, <1>7 DEF Ready

LEMMA SentData ==
    ASSUME NEW o \in Objects, IsObject(config[o]), NEW F, F \subseteq Fields
    PROVE  LET new == [f \in F |-> Sent(o)[f]] IN
           /\ DOMAIN new = F
           /\ "refs" \in F => new.refs = Sent(o).refs
           /\ "checks" \in F => new.checks = Sent(o).checks
           /\ "data" \in F => new.data = config[o].data
BY SentFacts DEF Fields

\* One request that sends some fields, or all.
LEMMA FieldsLead ==
    ASSUME SoundState, NEW o \in Objects \ Permanent, config[o] # None, Resolvable(o, config[o]),
           o \in HasActors => \A t \in Teams : config[t] # None => ids[t] # 0,
           NEW F, F \subseteq Fields, NEW new, DOMAIN new = F,
           "refs" \in F => new.refs = Sent(o).refs, "checks" \in F => new.checks = Sent(o).checks,
           "data" \in F => new.data = config[o].data,
           o \in Selective => F = Fields \/ ("selected" \notin config[o].data /\ F = {"data"}),
           o \notin Selective => \A f \in Included(o) \ F : FieldFits(o, Before(o), f)
    PROVE  Fits(o, After(o, Update(new)), {})
<1> DEFINE y == After(o, Update(new))
<1>1. IsObject(config[o]) /\ config[o].data # None.data /\ Before(o).data # None.data
    BY BeforeFacts DEF SoundState, LiveInv, IsObject
<1>2. /\ y.data = Merged(o, new).data
      /\ y.refs = IF o \in Selective /\ "selected" \notin Merged(o, new).data /\ o \notin Environments
                  THEN {} ELSE Merged(o, new).refs
      /\ y.checks = IF o \in Environments /\ "selected" \notin Merged(o, new).data
                    THEN {} ELSE Merged(o, new).checks
    BY AfterPut
<1>3. /\ Merged(o, new).refs = IF "refs" \in F THEN new.refs ELSE Before(o).refs
      /\ Merged(o, new).checks = IF "checks" \in F THEN new.checks ELSE Before(o).checks
      /\ Merged(o, new).data = IF "data" \in F THEN new.data ELSE Before(o).data
    BY MergedIs
<1> HIDE DEF y
<1>4. o # "managers" /\ "data" \in Included(o) /\ (o \in HasActors => o \notin Selective)
    BY KindsOfObjects DEF Included, Fields
<1>5. y.data = IF "data" \in F THEN config[o].data ELSE Before(o).data
    BY <1>2, <1>3
<1>6. IsThere(y)
    BY <1>1, <1>5 DEF IsThere
<1>7. CASE o \notin Selective
    <2>0. \A f \in Included(o) \ F : FieldFits(o, Before(o), f)
        BY <1>7
    <2>1. y.refs = IF "refs" \notin F THEN Before(o).refs
                   ELSE IF o \in HasActors THEN Sent(o).refs ELSE Named(o)
        <3>1. o \notin HasActors => Sent(o).refs = Named(o)
            BY <1>1, <1>7, SentFacts DEF Named
        <3> QED
            BY <1>2, <1>3, <1>7, <3>1
    <2>2. Unselected(o) \/ y.checks = IF "checks" \in F THEN Sent(o).checks ELSE Before(o).checks
        <3>1. CASE o \in Environments
            <4>1. ~NoRules(o)
                BY <3>1, KindsOfObjects DEF NoRules
            <4>2. y.data = config[o].data
                BY <1>4, <1>5, <2>0, <4>1 DEF FieldFits
            <4> QED
                BY <1>2, <1>3, <1>5, <3>1, <4>2 DEF Unselected
        <3>2. CASE o \notin Environments
            BY <1>2, <1>3, <3>2
        <3> QED
            BY <3>1, <3>2
    <2> QED
        BY <1>4, <1>5, <1>6, <2>0, <2>1, <2>2, SentFits DEF y
<1>8. CASE o \in Selective
    <2>1. o \notin HasActors /\ o \notin Environments /\ o \notin Rules /\ ~HasEntries(o)
        BY <1>8, KindsOfObjects DEF HasEntries
    <2>2. y.data = config[o].data
        <3>1. "data" \in F
            <4>1. F = Fields \/ F = {"data"}
                BY <1>8
            <4> QED
                BY <4>1 DEF Fields
        <3> QED
            BY <1>5, <3>1
    <2>3. y.refs = Named(o)
        <3>1. CASE "selected" \notin config[o].data
            BY <1>2, <1>5, <1>8, <2>1, <2>2, <3>1 DEF Named
        <3>2. CASE "selected" \in config[o].data
            <4>1. F = Fields
                BY <1>8, <3>2
            <4>2. Sent(o).refs = config[o].refs
                BY <1>1, <2>1, SentFacts
            <4> QED
                BY <1>2, <1>3, <1>5, <2>2, <3>2, <4>1, <4>2 DEF Named, Fields
        <3> QED
            BY <3>1, <3>2
    <2>4. y.checks = Sent(o).checks
        <3>1. config[o].checks = {} /\ Before(o).checks = {}
            BY <2>1 DEF SoundState, IsConfiguration, IsStored, Before, Blank
        <3>2. Sent(o).checks = {}
            BY <1>1, <3>1, SentFacts DEF StoredChecks
        <3> QED
            BY <1>2, <1>3, <2>1, <3>1, <3>2
    <2>5. "refs" \in Fields /\ "checks" \in Fields /\ "data" \in Fields /\ Included(o) \subseteq Fields
        BY DEF Fields, Included
    <2>6. \A f \in Included(o) \ Fields : FieldFits(o, Before(o), f)
        BY <2>5
    <2> QED
        BY <1>4, <1>6, <2>1, <2>2, <2>3, <2>4, <2>5, <2>6, SentFits DEF y
<1> QED
    BY <1>7, <1>8

LEMMA OneRequest ==
    ASSUME NEW p, p.kind # "remove", p.of # "perms", NEW new, StepsOf(p) = <<Update(new)>>,
           Fits(p.of, After(p.of, Update(new)), {})
    PROVE  StepsOf(p) # <<>> /\ Underway(p, StepsOf(p))
<1> DEFINE s == Update(new)
<1>1. s.op = "put"
    BY DEF Update
<1>2. Leads(p.of, After(p.of, s), <<>>)
    BY NothingLeadsOn
<1> HIDE DEF s
<1>3. StepsOf(p) = <<s>>
    BY DEF s
<1>4. Head(<<s>>) = s /\ Tail(<<s>>) = <<>> /\ <<s>> # <<>>
    OBVIOUS
<1> QED
    BY <1>1, <1>2, <1>3, <1>4 DEF Underway

LEMMA TwoInARow ==
    ASSUME NEW a, NEW b
    PROVE  <<a>> \o <<b>> = <<a, b>>
<1> DEFINE S == {a, b}
<1>1. <<a>> \in Seq(S) /\ <<b>> \in Seq(S)
    OBVIOUS
<1> HIDE DEF S
<1>2. Len(<<a>>) = 1 /\ Len(<<b>>) = 1 /\ <<a>>[1] = a /\ <<b>>[1] = b
    OBVIOUS
<1>3. /\ <<a>> \o <<b>> \in Seq(S) /\ Len(<<a>> \o <<b>>) = 2
      /\ (<<a>> \o <<b>>)[1] = a /\ (<<a>> \o <<b>>)[2] = b
    BY <1>1, <1>2, ConcatProperties
<1>4. <<a, b>> \in Seq({a, b}) /\ Len(<<a, b>>) = 2 /\ <<a, b>>[1] = a /\ <<a, b>>[2] = b
    OBVIOUS
<1>5. \A i \in 1..2 : (<<a>> \o <<b>>)[i] = <<a, b>>[i]
    BY <1>3, <1>4
<1> QED
    BY <1>3, <1>4, <1>5, SeqEqual DEF S

\* Secrets, variables, rulesets, repositories and branch protection rules.
LEMMA OthersAreReady ==
    ASSUME SoundState, NEW p, Ready(p), p.of \notin Teams \cup Permanent \cup Environments
    PROVE  StepsOf(p) # <<>> /\ Underway(p, StepsOf(p))
<1> DEFINE o == p.of
<1>1. /\ p \in PatchSet /\ o \in Objects /\ p.kind \in {"add", "change"}
      /\ IsObject(config[o]) /\ DOMAIN Sent(o) = Fields
      /\ p.kind = "add" => p.changed = Fields
      /\ p.kind = "change" => live[o] # None /\ p.changed \subseteq Included(o)
      /\ o \in HasActors => \A t \in Teams : config[t] # None => ids[t] # 0
      /\ o \notin Selective \cup Rules => \A f \in Included(o) \ p.changed : FieldFits(o, Before(o), f)
    BY WhatIsReady
<1>2. o \in Objects \ Permanent /\ config[o] # None /\ Resolvable(o, config[o]) /\ p.kind # "remove"
      /\ o # "perms"
    BY <1>1, KindsOfObjects DEF Ready
<1>3. /\ Sent(o).data = config[o].data /\ Sent(o).refs = Resolved(o, config[o].refs)
      /\ Sent(o).checks = StoredChecks(o, config[o].checks)
      /\ o \notin HasActors => Sent(o).refs = config[o].refs
    BY <1>1, SentFacts
<1>4. Included(o) \subseteq Fields /\ "data" \in Included(o)
    BY DEF Included, Fields
<1>5. \A f \in Included(o) \ Fields : FieldFits(o, Before(o), f)
    BY <1>4
<1>6. /\ o = "secret" \/ (o \in {"variable", "branch"} /\ p.kind = "add") => StepsOf(p) = <<Update(Sent(o))>>
      /\ o = "variable" /\ p.kind = "change" =>
            StepsOf(p) = <<Update([data |-> Sent(o).data])>>
                \o (IF "selected" \in Sent(o).data THEN <<Update([refs |-> Sent(o).refs])>> ELSE <<>>)
      /\ o \in Rules => StepsOf(p) = <<Update(PartsOfRule(Sent(o)))>>
      /\ o = "repo" \/ (o = "branch" /\ p.kind = "change") =>
            StepsOf(p) = <<Update([f \in p.changed |-> Sent(o)[f]])>>
    BY <1>1, StepsOfOthers
<1> HIDE DEF o
<1>7. CASE o = "secret" \/ (o \in {"variable", "branch"} /\ p.kind = "add")
    <2>1. Fits(o, After(o, Update(Sent(o))), {})
        <3>1. o \in Selective => Fields = Fields \/ ("selected" \notin config[o].data /\ Fields = {"data"})
            OBVIOUS
        <3> QED
            BY <1>1, <1>2, <1>3, <1>5, <3>1, FieldsLead
    <2> QED
        BY <1>2, <1>6, <1>7, <2>1, OneRequest DEF o
<1>8. CASE o \in Rules
    <2>1. o \notin Selective
        BY <1>8, KindsOfObjects
    <2> DEFINE new == PartsOfRule(Sent(o))
    <2>2. CASE NoRules(o)
        <3>1. Sent(o).checks = {} /\ Sent(o).data = {}
            BY <1>3, <2>2 DEF NoRules, StoredChecks
        <3>2. new = [refs |-> Sent(o).refs]
            BY <3>1 DEF PartsOfRule
        <3>3. DOMAIN new = {"refs"} /\ new.refs = Sent(o).refs /\ {"refs"} \subseteq Fields
            BY <3>2 DEF Fields
        <3>4. \A f \in Included(o) \ {"refs"} : FieldFits(o, Before(o), f)
            BY <2>2 DEF FieldFits
        <3> HIDE DEF new
        <3>5. Fits(o, After(o, Update(new)), {})
            BY <1>1, <1>2, <2>1, <3>3, <3>4, FieldsLead
        <3> QED
            BY <1>2, <1>6, <1>8, <3>5, OneRequest DEF o, new
    <2>3. CASE ~NoRules(o)
        <3>1. ~(Sent(o).checks = {} /\ Sent(o).data = {})
            <4>1. config[o].checks # {} => Sent(o).checks # {}
                BY <1>3 DEF StoredChecks
            <4> QED
                BY <1>3, <1>8, <2>3, <4>1 DEF NoRules
        <3>2. new = [refs |-> Sent(o).refs, checks |-> Sent(o).checks, data |-> Sent(o).data]
            BY <3>1 DEF PartsOfRule
        <3>3. DOMAIN new = Fields /\ new.refs = Sent(o).refs /\ new.checks = Sent(o).checks
              /\ new.data = config[o].data
            BY <1>3, <3>2 DEF Fields
        <3> HIDE DEF new
        <3>4. Fits(o, After(o, Update(new)), {})
            BY <1>1, <1>2, <1>5, <2>1, <3>3, FieldsLead
        <3> QED
            BY <1>2, <1>6, <1>8, <3>4, OneRequest DEF o, new
    <2> QED
        BY <2>2, <2>3
<1>9. CASE o = "repo" \/ (o = "branch" /\ p.kind = "change")
    <2>1. o \notin Selective \cup Rules
        BY <1>9, KindsOfObjects
    <2> DEFINE new == [f \in p.changed |-> Sent(o)[f]]
    <2>2. p.changed \subseteq Fields
        BY <1>1 DEF PatchSet
    <2>3. /\ DOMAIN new = p.changed
          /\ "refs" \in p.changed => new.refs = Sent(o).refs
          /\ "checks" \in p.changed => new.checks = Sent(o).checks
          /\ "data" \in p.changed => new.data = config[o].data
        BY <1>1, <2>2, SentData
    <2> HIDE DEF new
    <2>4. Fits(o, After(o, Update(new)), {})
        BY <1>1, <1>2, <2>1, <2>2, <2>3, FieldsLead
    <2> QED
        BY <1>2, <1>6, <1>9, <2>4, OneRequest DEF o, new
<1>10. CASE o = "variable" /\ p.kind = "change"
    <2>1. o \in Selective /\ o \notin HasActors
        BY <1>10, KindsOfObjects
    <2>2. CASE "selected" \in config[o].data
        <3>1. StepsOf(p) = <<Update([data |-> config[o].data])>> \o <<Update([refs |-> config[o].refs])>>
            BY <1>3, <1>6, <1>10, <2>1, <2>2
        <3>2. StepsOf(p) = <<Update([data |-> config[o].data]), Update([refs |-> config[o].refs])>>
            BY <3>1, TwoInARow
        <3>3. StepsOf(p) # <<>>
            BY <3>2
        <3> QED
            BY <1>1, <1>2, <1>10, <2>2, <3>2, <3>3 DEF Underway, o
    <2>3. CASE "selected" \notin config[o].data
        <3> DEFINE new == [data |-> config[o].data]
        <3>1. StepsOf(p) = <<Update(new)>> \o <<>>
            BY <1>3, <1>6, <1>10, <2>3
        <3>2. StepsOf(p) = <<Update(new)>>
            BY <3>1
        <3>3. DOMAIN new = {"data"} /\ new.data = config[o].data /\ {"data"} \subseteq Fields
            BY DEF Fields
        <3> HIDE DEF new
        <3>4. Fits(o, After(o, Update(new)), {})
            BY <1>1, <1>2, <2>1, <2>3, <3>3, FieldsLead
        <3> QED
            BY <1>2, <3>2, <3>4, OneRequest DEF o
    <2> QED
        BY <2>2, <2>3
<1>11. o = "secret" \/ o \in {"variable", "branch"} \/ o \in Rules \/ o = "repo"
    BY <1>1, PatchKinds DEF o, Rules, Permanent, Environments
<1> QED
    BY <1>1, <1>7, <1>8, <1>9, <1>10, <1>11

\* A request for some fields and then a list: what the list makes of the object fits.
LEMMA PutThenListLeads ==
    ASSUME NEW p, p.kind # "remove", NEW new, NEW inc, NEW exc, PutThenList(p.of, StepsOf(p), new, inc, exc),
           LeadsWith(p.of, After(p.of, Update(new)), inc, exc)
    PROVE  StepsOf(p) # <<>> /\ Underway(p, StepsOf(p))
<1>1. PICK L : StepsOf(p) = <<Update(new)>> \o L /\ IsList(L, ListOf(p.of), inc, exc)
    BY DEF PutThenList
<1> DEFINE s == Update(new)
<1>2. s.op = "put"
    BY DEF Update
<1>3. Leads(p.of, After(p.of, s), L)
    BY <1>1 DEF Leads
<1> HIDE DEF s
<1>4. StepsOf(p) = <<s>> \o L
    BY <1>1 DEF s
<1>5. PICK S : L \in Seq(S)
    BY <1>1 DEF IsList
<1>6. <<s>> \o L # <<>> /\ Head(<<s>> \o L) = s /\ Tail(<<s>> \o L) = L
    <2>1. <<s>> \in Seq(S \cup {s}) /\ L \in Seq(S \cup {s})
        BY <1>5
    <2> QED
        BY <2>1, Z3
<1> QED
    BY <1>2, <1>3, <1>4, <1>6 DEF Underway

\* The requests of each kind of patch lead to what is configured.
LEMMA EnvironmentsAreReady ==
    ASSUME SoundState, NEW p, Ready(p), p.of \in Environments
    PROVE  StepsOf(p) # <<>> /\ Underway(p, StepsOf(p))
<1> DEFINE o == p.of
           F == p.changed \ {"checks"}
           new == [f \in F |-> Sent(o)[f]]
           inc == IF "checks" \in p.changed THEN config[o].checks \ live[o].checks ELSE {}
           exc == IF "checks" \in p.changed THEN live[o].checks \ config[o].checks ELSE {}
           y == After(o, Update(new))
           w == With(y, "checks", (y.checks \ exc) \cup inc)
<1>1. /\ p \in PatchSet /\ o \in Objects /\ p.kind \in {"add", "change"} /\ p.kind # "remove"
      /\ IsObject(config[o]) /\ DOMAIN Sent(o) = Fields
      /\ p.changed \subseteq Fields
      /\ o \in HasActors => \A t \in Teams : config[t] # None => ids[t] # 0
      /\ o \notin Selective \cup Rules => \A f \in Included(o) \ p.changed : FieldFits(o, Before(o), f)
    BY WhatIsReady DEF PatchSet
<1>2. /\ o \in HasActors /\ o \notin Selective /\ o \notin Rules /\ o \notin Permanent /\ o # "managers" /\ o # "perms"
      /\ o # "branch" /\ ListOf(o) = "checks"
    BY KindsOfObjects DEF ListOf
<1>3. config[o] # None /\ Resolvable(o, config[o])
    BY DEF Ready
<1>4. PutThenList(o, StepsOf(p), new, inc, exc)
    BY <1>1, StepsOfEnvironment DEF SoundState
<1>5. /\ DOMAIN new = F
      /\ "refs" \in F => new.refs = Sent(o).refs
      /\ "checks" \in F => new.checks = Sent(o).checks
      /\ "data" \in F => new.data = config[o].data
    BY <1>1, SentData
<1>6. /\ y.data = Merged(o, new).data /\ y.refs = Merged(o, new).refs
      /\ y.checks = IF "selected" \notin Merged(o, new).data THEN {} ELSE Merged(o, new).checks
    BY <1>2, AfterPut
<1> HIDE DEF y
<1>7. /\ Merged(o, new).refs = IF "refs" \in F THEN new.refs ELSE Before(o).refs
      /\ Merged(o, new).checks = IF "checks" \in F THEN new.checks ELSE Before(o).checks
      /\ Merged(o, new).data = IF "data" \in F THEN new.data ELSE Before(o).data
    BY MergedIs
<1> HIDE DEF new
<1>8. /\ y.refs = IF "refs" \in p.changed THEN Sent(o).refs ELSE Before(o).refs
      /\ y.data = IF "data" \in p.changed THEN config[o].data ELSE Before(o).data
      /\ y.checks = IF "selected" \notin y.data THEN {} ELSE Before(o).checks
    BY <1>5, <1>6, <1>7
<1>9. y.data = config[o].data
    <2>1. "data" \in Included(o)
        BY DEF Included, Fields
    <2>2. ~NoRules(o)
        BY <1>2 DEF NoRules
    <2> QED
        BY <1>1, <1>2, <1>8, <2>1, <2>2 DEF FieldFits
<1>10. config[o].data # None.data
    BY <1>1, <1>3 DEF IsObject
<1>11. LeadsWith(o, y, inc, exc)
    <2>1. CASE Unselected(o)
        <3>1. IsThere(y)
            BY <1>9, <1>10 DEF IsThere
        <3>2. y.refs = IF "refs" \notin p.changed THEN Before(o).refs
                       ELSE IF o \in HasActors THEN Sent(o).refs ELSE Named(o)
            BY <1>2, <1>8
        <3>3. \A f \in Included(o) \ p.changed : FieldFits(o, Before(o), f)
            BY <1>1, <1>2
        <3>4. Fits(o, y, {})
            BY <1>1, <1>2, <1>3, <1>8, <2>1, <3>1, <3>2, <3>3, SentFits
        <3> QED
            BY <2>1, <3>4 DEF LeadsWith
    <2>2. CASE ~Unselected(o)
        <3>1. "selected" \in config[o].data
            BY <2>2 DEF Unselected
        <3>2. y.checks = Before(o).checks
            BY <1>8, <1>9, <3>1
        <3>3. Before(o).checks = live[o].checks
            BY DEF Before, Blank, None
        <3>4. Sent(o).checks = config[o].checks
            BY <1>1, <1>2, SentChecks
        <3>5. exc \subseteq y.checks
            BY <3>2, <3>3
        <3>6. w.refs = y.refs /\ w.data = y.data /\ w.checks = (y.checks \ exc) \cup inc
            BY DEF With
        <3>7. (y.checks \ exc) \cup inc = IF "checks" \in p.changed THEN Sent(o).checks ELSE Before(o).checks
            BY <3>2, <3>3, <3>4
        <3> HIDE DEF w
        <3>8. IsThere(w)
            BY <1>9, <1>10, <3>6 DEF IsThere
        <3>9. w.refs = IF "refs" \notin p.changed THEN Before(o).refs
                       ELSE IF o \in HasActors THEN Sent(o).refs ELSE Named(o)
            BY <1>2, <1>8, <3>6
        <3>10. w.data = IF "data" \in p.changed THEN config[o].data ELSE Before(o).data
            BY <1>8, <3>6
        <3>11. w.checks = IF "checks" \in p.changed THEN Sent(o).checks ELSE Before(o).checks
            BY <3>6, <3>7
        <3>12. \A f \in Included(o) \ p.changed : FieldFits(o, Before(o), f)
            BY <1>1, <1>2
        <3>13. Fits(o, w, {})
            BY <1>1, <1>2, <1>3, <3>8, <3>9, <3>10, <3>11, <3>12, SentFits
        <3>14. Final(o, y, inc, exc) = (y.checks \ exc) \cup inc
            BY <1>2 DEF Final
        <3> HIDE DEF inc, exc
        <3>15. y["checks"] = y.checks
            OBVIOUS
        <3> QED
            BY <1>2, <2>2, <3>5, <3>13, <3>14, <3>15 DEF LeadsWith, w
    <2> QED
        BY <2>1, <2>2
<1> HIDE DEF inc, exc
<1> QED
    BY <1>1, <1>4, <1>11, PutThenListLeads DEF y

LEMMA TeamsAreReady ==
    ASSUME SoundState, NEW p, Ready(p), p.of \in Teams
    PROVE  StepsOf(p) # <<>> /\ Underway(p, StepsOf(p))
<1> DEFINE o == p.of
<1>1. /\ p \in PatchSet /\ o \in Objects /\ p.kind \in {"add", "change"} /\ p.kind # "remove"
      /\ IsObject(config[o]) /\ DOMAIN Sent(o) = Fields
      /\ p.changed \subseteq Fields
      /\ p.kind = "add" => live[o] = None /\ p.changed = Fields
      /\ o \notin Selective \cup Rules => \A f \in Included(o) \ p.changed : FieldFits(o, Before(o), f)
    BY WhatIsReady DEF PatchSet
<1>2. /\ o \notin HasActors /\ o \notin Selective /\ o \notin Rules /\ o \notin Permanent /\ o # "managers"
      /\ o # "perms" /\ o \notin Environments /\ o # "branch" /\ ListOf(o) = "refs"
    BY KindsOfObjects DEF ListOf
<1>3. config[o] # None /\ Resolvable(o, config[o])
    BY DEF Ready
<1>4. config[o].data # None.data
    BY <1>1, <1>3 DEF IsObject
<1>5. Named(o) = config[o].refs /\ Sent(o).checks = config[o].checks /\ config[o].checks = {}
      /\ Before(o).checks = {} /\ ~Unselected(o)
    BY <1>1, <1>2, SentChecks DEF Named, SoundState, IsConfiguration, HasEntries, IsStored, Before, Blank, Unselected
<1>6. ASSUME NEW new, NEW inc, NEW exc, PutThenList(o, StepsOf(p), new, inc, exc),
             NEW F, F \subseteq Fields,
             exc \subseteq After(o, Update(new)).refs,
             (After(o, Update(new)).refs \ exc) \cup inc = IF "refs" \in F THEN config[o].refs ELSE Before(o).refs,
             After(o, Update(new)).data = IF "data" \in F THEN config[o].data ELSE Before(o).data,
             After(o, Update(new)).checks = {},
             After(o, Update(new)).data # None.data,
             \A f \in Included(o) \ F : FieldFits(o, Before(o), f)
      PROVE  StepsOf(p) # <<>> /\ Underway(p, StepsOf(p))
    <2> DEFINE y == After(o, Update(new))
               w == With(y, "refs", (y.refs \ exc) \cup inc)
    <2>1. w.refs = (y.refs \ exc) \cup inc /\ w.checks = y.checks /\ w.data = y.data
        BY DEF With
    <2>2. w.refs = IF "refs" \notin F THEN Before(o).refs ELSE IF o \in HasActors THEN Sent(o).refs ELSE Named(o)
        BY <1>2, <1>5, <1>6, <2>1
    <2>3. w.checks = IF "checks" \in F THEN Sent(o).checks ELSE Before(o).checks
        BY <1>5, <1>6, <2>1
    <2>4. IsThere(w) /\ w.data = IF "data" \in F THEN config[o].data ELSE Before(o).data
        BY <1>6, <2>1 DEF IsThere
    <2> HIDE DEF w
    <2>5. Fits(o, w, {})
        BY <1>1, <1>2, <1>3, <1>6, <2>2, <2>3, <2>4, SentFits
    <2>6. Final(o, y, inc, exc) = (y.refs \ exc) \cup inc /\ exc \subseteq y["refs"]
        BY <1>2, <1>6 DEF Final
    <2> HIDE DEF y
    <2>7. LeadsWith(o, y, inc, exc)
        BY <1>2, <1>5, <2>5, <2>6 DEF LeadsWith, w
    <2> QED
        BY <1>1, <1>6, <2>7, PutThenListLeads DEF y
<1>7. CASE p.kind = "add"
    <2> DEFINE new == [refs |-> {Creator}, checks |-> {}, data |-> config[o].data]
               y == After(o, Update(new))
    <2>1. PutThenList(o, StepsOf(p), new, config[o].refs, {Creator})
        BY <1>1, <1>7, StepsOfTeam DEF SoundState
    <2>2. DOMAIN new = Fields /\ new.refs = {Creator} /\ new.checks = {} /\ new.data = config[o].data
        BY DEF Fields
    <2>3. y.data = Merged(o, new).data /\ y.refs = Merged(o, new).refs /\ y.checks = Merged(o, new).checks
        BY <1>2, AfterPut
    <2> HIDE DEF y, new
    <2>4. y.refs = {Creator} /\ y.checks = {} /\ y.data = config[o].data
        BY <2>2, <2>3, MergedIs DEF Fields
    <2>5. "refs" \in Fields /\ "data" \in Fields /\ Included(o) \subseteq Fields
        BY DEF Included, Fields
    <2>6. \A f \in Included(o) \ Fields : FieldFits(o, Before(o), f)
        BY <2>5
    <2>7. (y.refs \ {Creator}) \cup config[o].refs = config[o].refs
        BY <2>4
    <2> QED
        BY <1>4, <1>6, <2>1, <2>4, <2>5, <2>6, <2>7 DEF y
<1>8. CASE p.kind = "change"
    <2> DEFINE F == p.changed \ {"refs"}
               new == [f \in F |-> Sent(o)[f]]
               inc == IF "refs" \in p.changed THEN config[o].refs \ live[o].refs ELSE {}
               exc == IF "refs" \in p.changed THEN live[o].refs \ config[o].refs ELSE {}
               y == After(o, Update(new))
    <2>1. PutThenList(o, StepsOf(p), new, inc, exc)
        BY <1>1, <1>8, StepsOfTeam DEF SoundState
    <2>2. /\ DOMAIN new = F
          /\ "refs" \in F => new.refs = Sent(o).refs
          /\ "checks" \in F => new.checks = Sent(o).checks
          /\ "data" \in F => new.data = config[o].data
        BY <1>1, SentData
    <2>3. y.data = Merged(o, new).data /\ y.refs = Merged(o, new).refs /\ y.checks = Merged(o, new).checks
        BY <1>2, AfterPut
    <2> HIDE DEF y, new
    <2>4. /\ y.refs = Before(o).refs /\ y.checks = {}
          /\ y.data = IF "data" \in p.changed THEN config[o].data ELSE Before(o).data
        BY <1>5, <2>2, <2>3, MergedIs
    <2>5. Before(o).refs = live[o].refs
        BY DEF Before, Blank, None
    <2>6. \A f \in Included(o) \ p.changed : FieldFits(o, Before(o), f)
        BY <1>1, <1>2
    <2>7. exc \subseteq y.refs /\ (y.refs \ exc) \cup inc = IF "refs" \in p.changed THEN config[o].refs ELSE Before(o).refs
        BY <2>4, <2>5
    <2>8. y.data # None.data
        BY <1>1, <1>4, <2>4, BeforeFacts DEF SoundState
    <2> HIDE DEF inc, exc
    <2> QED
        BY <1>1, <1>6, <2>1, <2>4, <2>6, <2>7, <2>8 DEF y
<1> QED
    BY <1>1, <1>7, <1>8

\* The lists that are always there.
LEMMA ListLeads ==
    ASSUME NEW p, p.kind # "remove", NEW inc, NEW exc, IsList(StepsOf(p), ListOf(p.of), inc, exc),
           LeadsWith(p.of, live[p.of], inc, exc), config[p.of] # None
    PROVE  \/ StepsOf(p) # <<>> /\ Underway(p, StepsOf(p))
           \/ StepsOf(p) = <<>> /\ GoodNow(p.of)
<1>1. Leads(p.of, live[p.of], StepsOf(p))
    BY DEF Leads
<1>2. CASE StepsOf(p) # <<>>
    BY <1>1, <1>2 DEF Underway
<1>3. CASE StepsOf(p) = <<>>
    <2>1. Fits(p.of, live[p.of], {})
        BY <1>1, <1>3, LeadsEnds
    <2> QED
        BY <1>3, <2>1 DEF GoodNow
<1> QED
    BY <1>2, <1>3

LEMMA ListsAreReady ==
    ASSUME SoundState, Coherent, NEW p, Ready(p), p.of \in Permanent
    PROVE  \/ StepsOf(p) # <<>> /\ Underway(p, StepsOf(p))
           \/ StepsOf(p) = <<>> /\ GoodNow(p.of)
<1> DEFINE o == p.of
<1>1. /\ p \in PatchSet /\ o \in Objects /\ p.kind \in {"add", "change"} /\ p.kind # "remove" /\ config[o] # None
      /\ \A t \in Teams : config[t] # None <=> ids[t] # 0
    BY WhatIsReady, KindsOfObjects DEF Ready
<1>2. /\ o \notin HasActors /\ o \notin Selective /\ o \notin Rules /\ o \notin Environments /\ o # "branch"
      /\ o \notin Teams
    BY KindsOfObjects
<1>3. ~Unselected(o) /\ Named(o) = config[o].refs /\ ~NoRules(o)
    BY <1>2 DEF Unselected, Named, NoRules
<1>4. config[o].data = {} /\ live[o].data = {}
    <2>1. \A x \in Permanent : config[x].data = {} /\ live[x].data = {}
        BY DEF SoundState, IsConfiguration, IsStored
    <2> QED
        BY <2>1
<1>5. None.data # {}
    BY DEF None
<1>6. CASE o = "managers"
    <2> DEFINE inc == config[o].refs \ live[o].refs
               exc == live[o].refs \ config[o].refs
               w == With(live[o], "refs", (live[o].refs \ exc) \cup inc)
    <2>1. ListOf(o) = "refs" /\ o # "perms" /\ ~HasEntries(o)
        BY <1>2, <1>6, KindsOfObjects DEF ListOf, HasEntries
    <2>2. IsList(StepsOf(p), "refs", inc, exc)
        BY <1>1, <1>6, StepsOfLists DEF SoundState
    <2>3. w.refs = config[o].refs /\ w.checks = live[o].checks /\ w.data = live[o].data
        BY DEF With
    <2> HIDE DEF w
    <2>4. RefsFit(o, w)
        <3>1. \A n \in Named(o) : n \in Teams /\ config[n] # None
            BY <1>1, <1>3, <1>6, WhoIsNamed, ConfigHas DEF SoundState
        <3>2. \A n \in Named(o) : Exists(n)
            BY <1>1, <3>1, WhoExists
        <3> QED
            BY <1>2, <1>3, <2>3, <3>2 DEF RefsFit
    <2>5. ChecksFit(o, w)
        <3>1. config[o].checks = {} /\ w.checks = {}
            BY <1>1, <2>1, <2>3 DEF SoundState, IsConfiguration, IsStored
        <3> QED
            BY <1>2, <3>1 DEF ChecksFit, ReadEntries
    <2>6. Fits(o, w, {})
        BY <1>4, <1>5, <2>3, <2>4, <2>5 DEF Fits, IsThere, FieldFits
    <2>7. Final(o, live[o], inc, exc) = (live[o].refs \ exc) \cup inc /\ exc \subseteq live[o]["refs"]
        BY <2>1 DEF Final
    <2> HIDE DEF inc, exc
    <2>8. LeadsWith(o, live[o], inc, exc)
        BY <1>3, <2>1, <2>6, <2>7 DEF LeadsWith, w
    <2> QED
        BY <1>1, <2>1, <2>2, <2>8, ListLeads
<1>7. CASE o = "perms"
    <2> DEFINE inc == config[o].checks \ live[o].checks
               exc == {q \in live[o].checks : q[1] \notin TeamsIn(config[o].checks)}
               w == With(live[o], "checks", Final(o, live[o], inc, exc))
    <2>1. ListOf(o) = "checks" /\ Mentions(o) = {}
        BY <1>2, <1>7, KindsOfObjects, WhoIsNamed DEF ListOf, SoundState
    <2>2. ReadPermissions = live[o].checks
        <3>1. TeamsIn(live["perms"].checks) \subseteq {t \in Teams : ids[t] # 0}
            BY DEF SoundState, IsStored
        <3> QED
            BY <1>7, <3>1 DEF ReadPermissions, TeamsIn
    <2>3. IsList(StepsOf(p), "checks", inc, exc)
        BY <1>1, <1>7, <2>2, StepsOfLists DEF SoundState
    <2>4. OneLevelEach(config[o].checks) /\ OneLevelEach(live[o].checks)
        BY <1>7 DEF SoundState, IsConfiguration, IsStored
    <2>5. Final(o, live[o], inc, exc) = config[o].checks
        <3>1. Final(o, live[o], inc, exc) = {q \in live[o].checks \ exc : q[1] \notin TeamsIn(inc)} \cup inc
            BY <1>7 DEF Final
        <3>2. ASSUME NEW q \in live[o].checks, q \notin exc, q[1] \notin TeamsIn(inc)
              PROVE  q \in config[o].checks
            <4>1. PICK c \in config[o].checks : c[1] = q[1]
                BY <3>2 DEF TeamsIn
            <4>2. c \in live[o].checks
                BY <3>2, <4>1 DEF TeamsIn
            <4> QED
                BY <2>4, <4>1, <4>2 DEF OneLevelEach
        <3>3. ASSUME NEW c \in config[o].checks, c \notin inc
              PROVE  c \in live[o].checks /\ c \notin exc /\ c[1] \notin TeamsIn(inc)
            <4>1. c \in live[o].checks /\ c \notin exc
                BY <3>3 DEF TeamsIn
            <4>2. ASSUME NEW d \in inc, d[1] = c[1]
                  PROVE  FALSE
                <5>1. d \in config[o].checks
                    OBVIOUS
                <5>2. d = c
                    BY <2>4, <4>2, <5>1 DEF OneLevelEach
                <5> QED
                    BY <3>3, <5>2
            <4> QED
                BY <4>1, <4>2 DEF TeamsIn
        <3>4. inc \subseteq config[o].checks
            OBVIOUS
        <3> HIDE DEF inc, exc
        <3> QED
            BY <3>1, <3>2, <3>3, <3>4
    <2>6. w.refs = live[o].refs /\ w.checks = config[o].checks /\ w.data = live[o].data
        BY <2>5 DEF With
    <2>7. OneLevelEach(inc) /\ TeamsIn(inc) \cap TeamsIn(exc) = {} /\ exc \subseteq live[o]["checks"]
        BY <2>4 DEF OneLevelEach, TeamsIn
    <2> HIDE DEF w, inc, exc
    <2>8. RefsFit(o, w)
        <3>1. config[o].refs = {} /\ live[o].refs = {}
            BY <1>1, <1>2, <2>1 DEF SoundState, IsConfiguration, IsStored, Stored
        <3> QED
            BY <1>2, <1>3, <2>6, <3>1 DEF RefsFit
    <2>9. ChecksFit(o, w)
        <3>1. \A c : ReadCheck(o, c) = c /\ StoredCheck(o, c) = c
            BY <1>2 DEF ReadCheck, StoredCheck
        <3>2. {ReadCheck(o, StoredCheck(o, c)) : c \in config[o].checks} = config[o].checks
            BY <3>1
        <3>3. {ReadCheck(o, c) : c \in w.checks} = w.checks
            BY <3>1
        <3> QED
            BY <1>2, <2>6, <3>2, <3>3 DEF ChecksFit, ReadEntries
    <2>10. Fits(o, w, {})
        BY <1>4, <1>5, <2>6, <2>8, <2>9 DEF Fits, IsThere, FieldFits
    <2>11. LeadsWith(o, live[o], inc, exc)
        BY <1>3, <2>1, <2>7, <2>10 DEF LeadsWith, w
    <2> QED
        BY <1>1, <2>1, <2>3, <2>11, ListLeads
<1> QED
    BY <1>6, <1>7 DEF Permanent

-----------------------------------------------------------------------------
(* References: what the actions leave of the patches.                      *)

\* A shorter plan is in order as well.
LEMMA OrderStays ==
    ASSUME TodoInv, OrderInv, todo' = todo \/ (todo # <<>> /\ todo' = Tail(todo))
    PROVE  OrderInv'
<1>1. todo \in Seq(PatchSet)
    BY DEF TodoInv
<1>2. CASE todo' = todo
    BY <1>2 DEF OrderInv
<1>3. CASE todo # <<>> /\ todo' = Tail(todo)
    <2>1. \A i \in DOMAIN todo' : i + 1 \in DOMAIN todo /\ todo'[i] = todo[i + 1] /\ i \in Nat
        BY <1>1, <1>3
    <2> QED
        BY <2>1 DEF OrderInv, Follows
<1> QED
    BY <1>2, <1>3

\* The patch goes on or is over; meanwhile all others go on to fit or to wait for their turn.
LEMMA PatchGoesOn ==
    ASSUME TodoInv, ApplyingInv, todo # <<>>, NEW p, p = Current,
           config' = config, hist'.calm = hist.calm, hist.failed => hist'.failed,
           \A x \in Objects : x # p.of /\ GoodNow(x) => GoodNow(x)',
           \A q \in PatchSet : q.of # p.of /\ Awaits(q) => Awaits(q)',
           hist.calm # 0 /\ RepoThere => RepoThere',
           \/ todo' = Tail(todo) /\ steps' = <<>> /\ (GoodNow(p.of)' \/ (Waits(p.of)' /\ hist.calm = 0))
           \/ todo' = todo /\ steps' # <<>> /\ Underway(p, steps)'
    PROVE  ApplyingInv'
<1>1. todo \in Seq(PatchSet) /\ 1 \in DOMAIN todo /\ p = todo[1] /\ p \in PatchSet
      /\ \A i \in DOMAIN todo : i > 1 => todo[i].of # p.of
    <2>1. todo \in Seq(PatchSet) /\ Follows(todo, OfDifferent)
        BY DEF TodoInv
    <2>2. 1 \in DOMAIN todo /\ p = todo[1] /\ p \in PatchSet
        BY <2>1 DEF Current
    <2>3. ASSUME NEW i \in DOMAIN todo, i > 1
          PROVE  todo[i].of # p.of
        <3>1. <<todo[1], todo[i]>> \in OfDifferent
            BY <2>1, <2>2, <2>3 DEF Follows
        <3> QED
            BY <2>2, <3>1 DEF OfDifferent
    <2> QED
        BY <2>1, <2>2, <2>3
<1>2. /\ \A x \in Objects : ~Pending(x) => GoodNow(x) \/ (Waits(x) /\ hist.calm = 0)
      /\ \A q \in PatchSet : \A i \in DOMAIN todo : todo[i] = q /\ i > 1 => Awaits(q)
      /\ hist.calm # 0 => RepoThere
    BY DEF ApplyingInv
<1>3. \A x : Waits(x) => Waits(x)'
    BY DEF Waits
<1>4. CASE todo' = Tail(todo) /\ steps' = <<>> /\ (GoodNow(p.of)' \/ (Waits(p.of)' /\ hist.calm = 0))
    <2>1. /\ \A i \in DOMAIN todo' : i + 1 \in DOMAIN todo /\ todo'[i] = todo[i + 1] /\ i \in Nat /\ i + 1 > 1
          /\ \A i \in DOMAIN todo : i # 1 => i - 1 \in DOMAIN todo' /\ todo'[i - 1] = todo[i]
        BY <1>1, <1>4
    <2>2. ASSUME NEW x \in Objects, ~Pending(x)'
          PROVE  GoodNow(x)' \/ (Waits(x)' /\ hist'.calm = 0)
        <3>1. CASE x = p.of
            BY <1>4, <3>1
        <3>2. CASE x # p.of
            <4>1. ~Pending(x)
                <5> SUFFICES ASSUME NEW i \in DOMAIN todo, todo[i].of = x
                             PROVE  FALSE
                    BY DEF Pending
                <5>1. i # 1
                    BY <1>1, <3>2
                <5>2. i - 1 \in DOMAIN todo' /\ todo'[i - 1].of = x
                    BY <2>1, <5>1
                <5> QED
                    BY <2>2, <5>2 DEF Pending
            <4> QED
                BY <1>2, <1>3, <3>2, <4>1
        <3> QED
            BY <3>1, <3>2
    <2>3. ASSUME NEW q \in PatchSet, NEW i \in DOMAIN todo', todo'[i] = q
          PROVE  Awaits(q)'
        <3>1. i + 1 \in DOMAIN todo /\ todo[i + 1] = q /\ i + 1 > 1
            BY <2>1, <2>3
        <3> QED
            BY <1>1, <1>2, <3>1
    <2> QED
        BY <1>2, <1>4, <2>2, <2>3 DEF ApplyingInv
<1>5. CASE todo' = todo /\ steps' # <<>> /\ Underway(p, steps)'
    <2>1. ASSUME NEW x \in Objects, ~Pending(x)'
          PROVE  GoodNow(x)' \/ (Waits(x)' /\ hist'.calm = 0)
        <3>1. ~Pending(x)
            BY <1>5, <2>1 DEF Pending
        <3>2. x # p.of
            BY <1>1, <3>1 DEF Pending
        <3> QED
            BY <1>2, <1>3, <3>1, <3>2
    <2>2. ASSUME NEW q \in PatchSet, NEW i \in DOMAIN todo', todo'[i] = q, i > 1
          PROVE  Awaits(q)'
        BY <1>1, <1>2, <1>5, <2>2
    <2>3. Current' = p
        BY <1>5 DEF Current
    <2>4. ASSUME NEW q \in PatchSet, Current' = q
          PROVE  Underway(q, steps)'
        BY <1>5, <2>3, <2>4
    <2> QED
        BY <1>2, <1>5, <2>1, <2>2, <2>4 DEF ApplyingInv
<1>6. \/ todo' = Tail(todo) /\ steps' = <<>> /\ (GoodNow(p.of)' \/ (Waits(p.of)' /\ hist.calm = 0))
      \/ todo' = todo /\ steps' # <<>> /\ Underway(p, steps)'
    OBVIOUS
<1> QED
    BY <1>4, <1>5, <1>6

LEMMA UnderwaySame ==
    ASSUME UNCHANGED <<live, ids, installed, config>>, NEW p, NEW ss, ss = steps', Underway(p, ss)
    PROVE  Underway(p, steps)'
<1>1. CASE p.kind = "remove"
    BY <1>1 DEF Underway
<1>2. CASE p.kind # "remove" /\ Leads(p.of, live[p.of], ss)
    <2>1. ASSUME NEW x, x = live'[p.of]
          PROVE  Leads(p.of, live[p.of], ss)'
        <3>1. Leads(p.of, x, ss)
            BY <1>2, <2>1
        <3>2. Leads(p.of, x, ss)'
            BY <3>1, SameLeads
        <3> QED
            BY <2>1, <3>2, LeadsAfter
    <2>2. Leads(p.of, live[p.of], steps)'
        BY <2>1 DEF Leads
    <2> QED
        BY <1>2, <2>2 DEF Underway
<1>3. CASE p.kind # "remove" /\ Head(ss).op = "put" /\ Leads(p.of, After(p.of, Head(ss)), Tail(ss))
    <2>1. ASSUME NEW y, y = After(p.of, Head(ss))
          PROVE  Leads(p.of, After(p.of, Head(steps)), Tail(steps))'
        <3>1. y = After(p.of, Head(steps))'
            BY <2>1 DEF After
        <3>2. Leads(p.of, y, Tail(ss))'
            BY <1>3, <2>1, SameLeads
        <3>3. PICK inc, exc : IsList(Tail(ss), ListOf(p.of), inc, exc) /\ LeadsWith(p.of, y, inc, exc)'
            BY <3>2 DEF Leads
        <3>4. LeadsWith(p.of, After(p.of, Head(steps)), inc, exc)'
            BY <3>1, <3>3 DEF LeadsWith, With, Final, Fits, IsThere, FieldFits, RefsFit, ChecksFit, ReadEntries
        <3> QED
            BY <3>3, <3>4 DEF Leads
    <2> QED
        BY <1>3, <2>1 DEF Underway
<1>4. CASE /\ p.kind # "remove" /\ p.of = "variable" /\ live[p.of] # None /\ Resolvable(p.of, config[p.of])
           /\ "selected" \in config[p.of].data
           /\ ss = <<Update([data |-> config[p.of].data]), Update([refs |-> config[p.of].refs])>>
    <2>1. Resolvable(p.of, config[p.of])'
        BY <1>4 DEF Resolvable, Misses, IsRequired, Checkable, Exists
    <2> QED
        BY <1>4, <2>1 DEF Underway
<1> QED
    BY <1>1, <1>2, <1>3, <1>4 DEF Underway

\* It is enough to look at calm runs of a configuration that has what it insists on.
LEMMA CalmGoesOn ==
    ASSUME CalmInv, config' = config, pc = "applying", pc' = "applying",
           hist'.disturbed = hist.disturbed, hist'.calm = hist.calm,
           Coherent /\ ~hist.disturbed /\ ApplyingInv => ApplyingInv'
    PROVE  CalmInv'
<1>1. Coherent' => Coherent
    BY DEF Coherent, Deployable
<1> QED
    BY <1>1 DEF CalmInv

LEMMA CurrentAwaits ==
    ASSUME TodoInv, ApplyingInv, todo # <<>>, steps = <<>>, NEW p, p = Current
    PROVE  /\ p \in PatchSet /\ p.of \in Objects /\ p.kind \in {"remove", "add", "change"} /\ Awaits(p)
           /\ p.kind = "remove" => config[p.of] = None
           /\ p.kind # "remove" => config[p.of] # None
<1>1. todo \in Seq(PatchSet) /\ 1 \in DOMAIN todo /\ p = todo[1] /\ p \in PatchSet
    BY DEF TodoInv, Current
<1>2. /\ p.kind = "remove" => config[p.of] = None
      /\ p.kind # "remove" => config[p.of] # None
    BY <1>1 DEF TodoInv
<1>3. Awaits(p)
    BY <1>1 DEF ApplyingInv
<1> QED
    BY <1>1, <1>2, <1>3 DEF PatchSet

LEMMA StepsLead ==
    ASSUME SoundState, Coherent, NEW p, Ready(p)
    PROVE  \/ StepsOf(p) # <<>> /\ Underway(p, StepsOf(p))
           \/ StepsOf(p) = <<>> /\ GoodNow(p.of)
BY TeamsAreReady, EnvironmentsAreReady, ListsAreReady, OthersAreReady

\* One lemma for each action.
LEMMA BeginCalms ==
    ASSUME SoundState, TodoInv, OrderInv, HistInv, CalmInv, Begin
    PROVE  OrderInv' /\ CalmInv'
<1>1. /\ pc = "applying" /\ pc' = pc /\ todo # <<>> /\ steps = <<>>
      /\ UNCHANGED <<live, ids, installed, config, hist>>
      /\ IF StepsOf(Current) = <<>> THEN todo' = Tail(todo) /\ steps' = steps
                                     ELSE steps' = StepsOf(Current) /\ todo' = todo
    BY DEF Begin
<1>2. OrderInv'
    BY <1>1, OrderStays
<1>3. ASSUME Coherent, ~hist.disturbed, ApplyingInv
      PROVE  ApplyingInv'
    <2> DEFINE p == Current
    <2>1. /\ p \in PatchSet /\ p.of \in Objects /\ p.kind \in {"remove", "add", "change"} /\ Awaits(p)
          /\ p.kind = "remove" => config[p.of] = None
          /\ p.kind # "remove" => config[p.of] # None
        BY <1>1, <1>3, CurrentAwaits
    <2>2. \/ StepsOf(p) # <<>> /\ Underway(p, StepsOf(p))
          \/ StepsOf(p) = <<>> /\ GoodNow(p.of)
        <3>1. CASE p.kind = "remove"
            <4>1. StepsOf(p) = <<Entry("delete", "data", {})>>
                BY <3>1 DEF StepsOf
            <4>2. live[p.of] # None
                BY <2>1, <3>1 DEF Awaits
            <4>3. StepsOf(p) # <<>>
                BY <4>1
            <4> QED
                BY <3>1, <4>1, <4>2, <4>3 DEF Underway
        <3>2. CASE p.kind # "remove"
            <4>1. Resolvable(p.of, config[p.of])
                BY <3>2 DEF Begin
            <4>2. p.of \notin Teams => \A t \in Teams : config[t] # None <=> ids[t] # 0
                BY <1>1, <1>3, TeamsThere
            <4>3. Ready(p)
                BY <2>1, <3>2, <4>1, <4>2 DEF Ready
            <4> QED
                BY <1>3, <4>3, StepsLead
        <3> QED
            BY <3>1, <3>2
    <2>3. \A x \in Objects : GoodNow(x) => GoodNow(x)'
        BY <1>1, <1>3, SameIsSteady
    <2>4. \A q \in PatchSet : Awaits(q) => Awaits(q)'
        BY <1>1, <1>3, SameIsSteady DEF PatchSet
    <2>5. RepoThere => RepoThere'
        BY <1>1 DEF RepoThere
    <2>6. ASSUME NEW q, q = Current
          PROVE  ApplyingInv'
        <3>1. CASE StepsOf(p) # <<>> /\ Underway(p, StepsOf(p))
            <4>1. todo' = todo /\ steps' # <<>> /\ steps' = StepsOf(p)
                BY <1>1, <3>1
            <4>2. ASSUME NEW ss, ss = steps'
                  PROVE  Underway(q, steps)'
                <5>1. Underway(q, ss)
                    BY <2>6, <3>1, <4>1, <4>2
                <5> QED
                    BY <1>1, <4>2, <5>1, UnderwaySame
            <4> QED
                BY <1>1, <1>3, <2>3, <2>4, <2>5, <2>6, <4>1, <4>2, PatchGoesOn
        <3>2. CASE StepsOf(p) = <<>> /\ GoodNow(p.of)
            <4>1. GoodNow(q.of)'
                BY <2>1, <2>3, <2>6, <3>2
            <4>2. todo' = Tail(todo) /\ steps' = <<>>
                BY <1>1, <3>2
            <4> QED
                BY <1>1, <1>3, <2>3, <2>4, <2>5, <2>6, <4>1, <4>2, PatchGoesOn
        <3> QED
            BY <2>2, <3>1, <3>2
    <2> QED
        BY <2>6
<1> QED
    BY <1>1, <1>2, <1>3, CalmGoesOn

\* Only a selection can name what does not exist yet, and only in the run that creates it.
LEMMA UnresolvedCalms ==
    ASSUME SoundState, TodoInv, OrderInv, HistInv, CalmInv, Unresolved
    PROVE  OrderInv' /\ CalmInv'
<1>1. /\ pc = "applying" /\ pc' = pc /\ todo # <<>> /\ steps = <<>> /\ steps' = <<>> /\ todo' = Tail(todo)
      /\ Current.kind # "remove" /\ ~Resolvable(Current.of, config[Current.of])
      /\ UNCHANGED <<live, ids, installed, config>>
    BY DEF Unresolved
<1>2. hist'.failed /\ hist'.calm = hist.calm /\ hist'.disturbed = hist.disturbed
    BY DEF Unresolved, HistInv
<1>3. OrderInv'
    BY <1>1, OrderStays
<1>4. ASSUME Coherent, ~hist.disturbed, ApplyingInv, NEW p, p = Current
      PROVE  ApplyingInv'
    <2>1. p \in PatchSet /\ p.of \in Objects /\ config[p.of] # None
        BY <1>1, <1>4, CurrentAwaits
    <2>2. p.of \in Selective /\ hist.calm = 0
        <3>1. p.of \in Rules \cup {"branch"} => config[p.of].checks \subseteq Checkable(p.of)
            BY <1>4 DEF Coherent
        <3>2. PICK n \in config[p.of].refs : p.of \in Rules \cup Selective /\ ~Exists(n)
            BY <1>1, <1>4, <3>1 DEF Resolvable, Misses, IsRequired
        <3>3. config[p.of].refs \subseteq Mentions(p.of)
            BY <2>1, WhoIsNamed DEF SoundState
        <3>4. p.of \notin Rules
            <4> SUFFICES ASSUME p.of \in Rules
                         PROVE  FALSE
                OBVIOUS
            <4>1. p.of \in HasActors /\ p.of \notin Teams
                BY KindsOfObjects
            <4>2. n \in Teams \cup Users \cup Apps \cup Roles
                BY <2>1, <3>2, <3>3, <4>1, WhoIsNamed DEF SoundState
            <4>3. n \in Teams /\ ids[n] = 0
                BY <3>2, <4>2, WhoExists
            <4>4. config[n] # None
                BY <1>4, <3>2, <4>3, ConfigHas
            <4> QED
                BY <1>1, <1>4, <4>1, <4>3, <4>4, TeamsThere
        <3>5. p.of \in Selective
            BY <3>2, <3>4
        <3>6. n = "second" /\ live["repo"] = None
            <4>1. n \in {"first", "second"}
                BY <2>1, <3>2, <3>3, <3>5, WhoIsNamed DEF SoundState
            <4> QED
                BY <3>2, <4>1, WhoExists
        <3>7. config["repo"] # None
            BY <1>4, <3>2, <3>5, <3>6, ConfigHas
        <3>8. ~RepoThere
            BY <3>6, <3>7 DEF RepoThere
        <3> QED
            BY <1>4, <3>5, <3>8 DEF ApplyingInv
    <2>3. Waits(p.of)'
        BY <1>1, <1>2, <2>1, <2>2 DEF Waits
    <2>4. \A x \in Objects : GoodNow(x) => GoodNow(x)'
        BY <1>1, <1>4, SameIsSteady
    <2>5. \A q \in PatchSet : Awaits(q) => Awaits(q)'
        BY <1>1, <1>4, SameIsSteady DEF PatchSet
    <2>6. RepoThere => RepoThere'
        BY <1>1 DEF RepoThere
    <2> QED
        BY <1>1, <1>2, <1>4, <2>2, <2>3, <2>4, <2>5, <2>6, PatchGoesOn
<1>5. Coherent /\ ~hist.disturbed /\ ApplyingInv => ApplyingInv'
    BY <1>4
<1> QED
    BY <1>1, <1>2, <1>3, <1>5, CalmGoesOn

-----------------------------------------------------------------------------
(* References: entries of lists.                                           *)

\* What a request for one entry leaves.
LEMMA AfterEntry ==
    ASSUME NEW o, live[o] # None, NEW s, s.op \in {"include", "exclude"}, s.field = ListOf(o),
           DOMAIN live[o] = Fields, NEW y, y = After(o, s)
    PROVE  /\ y.data = live[o].data
           /\ s.field = "refs" => y.checks = live[o].checks
           /\ s.field = "checks" => y.refs = live[o].refs
           /\ s.op = "exclude" => y[s.field] = live[o][s.field] \ {s.item}
           /\ s.op = "include" /\ o # "perms" => y[s.field] = live[o][s.field] \cup {s.item}
           /\ s.op = "include" /\ o = "perms" =>
                 y.checks = {q \in live[o].checks : q[1] # s.item[1]} \cup {s.item} /\ y.refs = live[o].refs
<1>1. s.field \in {"refs", "checks"} /\ DOMAIN live[o] = {"refs", "checks", "data"}
    BY DEF ListOf, Fields
<1>2. CASE s.op = "exclude"
    <2>1. y = [live[o] EXCEPT ![s.field] = @ \ {s.item}]
        BY <1>2 DEF After
    <2> QED
        BY <1>1, <1>2, <2>1
<1>3. CASE s.op = "include" /\ o # "perms"
    <2>1. y = [live[o] EXCEPT ![s.field] = @ \cup {s.item}]
        BY <1>3 DEF After
    <2> QED
        BY <1>1, <1>3, <2>1
<1>4. CASE s.op = "include" /\ o = "perms"
    <2>1. y = [live[o] EXCEPT !.checks = {q \in @ : q[1] # s.item[1]} \cup {s.item}]
        BY <1>4 DEF After
    <2>2. s.field = "checks"
        BY <1>4, KindsOfObjects DEF ListOf
    <2> QED
        BY <1>1, <1>4, <2>1, <2>2
<1> QED
    BY <1>2, <1>3, <1>4

\* A request of a list brings the object nearer to what the list leads to.
LEMMA ListStep ==
    ASSUME SoundState, NEW o \in Objects, NEW L, L # <<>>, Leads(o, live[o], L), Accepted(o, Head(L)),
           NEW y, y = After(o, Head(L))
    PROVE  Leads(o, y, Tail(L))
<1> DEFINE x == live[o]
           s == Head(L)
           l == ListOf(o)
<1>1. PICK inc, exc : IsList(L, l, inc, exc) /\ LeadsWith(o, x, inc, exc)
    BY DEF Leads
<1>2. /\ s.field = l /\ s.op \in {"include", "exclude"}
      /\ s.op = "include" =>
            /\ s.item \in inc /\ s.item \notin exc
            /\ \E some : some \cup {s.item} = inc /\ IsList(Tail(L), l, some, exc)
      /\ s.op = "exclude" =>
            /\ s.item \in exc
            /\ IsList(Tail(L), l, inc, exc \ {s.item})
    BY <1>1, FirstOfList
<1>3. IsObject(x) /\ DOMAIN x = Fields
    BY DEF SoundState, LiveInv, IsObject
<1>4. ~Unselected(o)
    <2> SUFFICES ASSUME Unselected(o)
                 PROVE  FALSE
        OBVIOUS
    <2>1. o \in Environments /\ o \notin Rules /\ l = "checks" /\ "data" \in Included(o)
        BY KindsOfObjects DEF Unselected, ListOf, Included, Fields
    <2>2. Fits(o, x, {})
        BY <1>1 DEF LeadsWith
    <2>3. x.data = config[o].data
        BY <2>1, <2>2 DEF Fits, FieldFits, NoRules
    <2>4. "selected" \notin x.data
        BY <2>3 DEF Unselected
    <2>5. x.checks = {}
        BY <2>1, <2>4 DEF SoundState, IsStored
    <2>6. s.op = "exclude" => s.item \in x.checks
        BY <1>2, <2>1 DEF Accepted
    <2>7. s.op = "include" => "selected" \in x.data
        BY <2>1 DEF Accepted
    <2> QED
        BY <1>2, <2>4, <2>5, <2>6, <2>7
<1>5. /\ exc \subseteq x[l]
      /\ o = "perms" => OneLevelEach(inc) /\ TeamsIn(inc) \cap TeamsIn(exc) = {}
      /\ Fits(o, With(x, l, Final(o, x, inc, exc)), {})
    BY <1>1, <1>4 DEF LeadsWith
<1>6. x # None
    <2>1. With(x, l, Final(o, x, inc, exc)).data = x.data
        BY DEF With
    <2> QED
        BY <1>5, <2>1 DEF Fits, IsThere
<1>7. /\ y.data = x.data
      /\ s.field = "refs" => y.checks = x.checks
      /\ s.field = "checks" => y.refs = x.refs
      /\ s.op = "exclude" => y[s.field] = x[s.field] \ {s.item}
      /\ s.op = "include" /\ o # "perms" => y[s.field] = x[s.field] \cup {s.item}
      /\ s.op = "include" /\ o = "perms" => y.checks = {q \in x.checks : q[1] # s.item[1]} \cup {s.item}
    <2>1. live[o] # None /\ DOMAIN live[o] = Fields
        BY <1>3, <1>6
    <2>2. Head(L).op \in {"include", "exclude"} /\ Head(L).field = ListOf(o)
        BY <1>2
    <2> HIDE DEF x, s, l
    <2>3. /\ y.data = live[o].data
          /\ Head(L).field = "refs" => y.checks = live[o].checks
          /\ Head(L).field = "checks" => y.refs = live[o].refs
          /\ Head(L).op = "exclude" => y[Head(L).field] = live[o][Head(L).field] \ {Head(L).item}
          /\ Head(L).op = "include" /\ o # "perms" => y[Head(L).field] = live[o][Head(L).field] \cup {Head(L).item}
          /\ Head(L).op = "include" /\ o = "perms" =>
                y.checks = {q \in live[o].checks : q[1] # Head(L).item[1]} \cup {Head(L).item}
        BY <2>1, <2>2, AfterEntry
    <2> QED
        BY <2>3 DEF x, s
<1>8. l \in {"refs", "checks"} /\ (o = "perms" => l = "checks")
    BY KindsOfObjects DEF ListOf
<1> HIDE DEF x, s, l
<1>9. ASSUME NEW i, NEW e, e \subseteq y[l], Final(o, y, i, e) = Final(o, x, inc, exc),
             o = "perms" => OneLevelEach(i) /\ TeamsIn(i) \cap TeamsIn(e) = {}
      PROVE  LeadsWith(o, y, i, e)
    <2> DEFINE w == With(x, l, Final(o, x, inc, exc))
               v == With(y, l, Final(o, y, i, e))
    <2>1. w.refs = v.refs /\ w.checks = v.checks /\ w.data = v.data
        BY <1>2, <1>7, <1>8, <1>9 DEF With
    <2>2. Fits(o, w, {})
        BY <1>5
    <2> HIDE DEF w, v
    <2>3. Fits(o, v, {})
        BY <2>1, <2>2, FitsSame
    <2> QED
        BY <1>4, <1>9, <2>3 DEF LeadsWith, v, l
<1>10. CASE s.op = "exclude"
    <2> DEFINE e == exc \ {s.item}
    <2>1. IsList(Tail(L), l, inc, e) /\ s.item \in exc
        BY <1>2, <1>10
    <2>2. y[l] = x[l] \ {s.item}
        BY <1>2, <1>7, <1>10
    <2>3. e \subseteq y[l] /\ y[l] \ e = x[l] \ exc
        BY <1>5, <2>1, <2>2
    <2>4. Final(o, y, inc, e) = Final(o, x, inc, exc)
        <3>1. CASE o = "perms"
            <4>1. y.checks \ e = x.checks \ exc
                BY <1>8, <2>3, <3>1
            <4> QED
                BY <3>1, <4>1 DEF Final
        <3>2. CASE o # "perms"
            BY <2>3, <3>2 DEF Final, l
        <3> QED
            BY <3>1, <3>2
    <2>5. o = "perms" => OneLevelEach(inc) /\ TeamsIn(inc) \cap TeamsIn(e) = {}
        BY <1>5 DEF TeamsIn
    <2> HIDE DEF e
    <2>6. LeadsWith(o, y, inc, e)
        BY <1>9, <2>3, <2>4, <2>5
    <2> QED
        BY <2>1, <2>6 DEF Leads, l
<1>11. CASE s.op = "include" /\ o # "perms"
    <2>1. PICK some : some \cup {s.item} = inc /\ IsList(Tail(L), l, some, exc)
        BY <1>2, <1>11
    <2>2. y[l] = x[l] \cup {s.item} /\ s.item \notin exc
        BY <1>2, <1>7, <1>11
    <2>3. exc \subseteq y[l] /\ (y[l] \ exc) \cup some = (x[l] \ exc) \cup inc
        BY <1>5, <2>1, <2>2
    <2>4. Final(o, y, some, exc) = Final(o, x, inc, exc)
        BY <1>11, <2>3 DEF Final, l
    <2>5. LeadsWith(o, y, some, exc)
        BY <1>9, <1>11, <2>3, <2>4
    <2> QED
        BY <2>1, <2>5 DEF Leads, l
<1>12. CASE s.op = "include" /\ o = "perms"
    <2>1. PICK some : some \cup {s.item} = inc /\ IsList(Tail(L), l, some, exc)
        BY <1>2, <1>12
    <2>2. y.checks = {q \in x.checks : q[1] # s.item[1]} \cup {s.item} /\ s.item \notin exc /\ s.item \in inc
        BY <1>2, <1>7, <1>12
    <2>3. OneLevelEach(inc) /\ TeamsIn(inc) \cap TeamsIn(exc) = {} /\ exc \subseteq x.checks /\ l = "checks"
        BY <1>5, <1>8, <1>12
    <2>4. OneLevelEach(some) /\ TeamsIn(some) \cap TeamsIn(exc) = {}
        BY <2>1, <2>3 DEF OneLevelEach, TeamsIn
    <2>5. exc \subseteq y.checks
        BY <2>2, <2>3 DEF TeamsIn
    <2>6. \A q : q[1] \in TeamsIn(inc) <=> q[1] \in TeamsIn(some) \/ q[1] = s.item[1]
        BY <2>1 DEF TeamsIn
    <2>7. s.item[1] \in TeamsIn(some) => s.item \in some
        BY <2>1, <2>2, <2>3 DEF TeamsIn, OneLevelEach
    <2>8. Final(o, y, some, exc) = Final(o, x, inc, exc)
        <3>1. Final(o, y, some, exc) = {q \in y.checks \ exc : q[1] \notin TeamsIn(some)} \cup some
            BY <1>12 DEF Final
        <3>2. Final(o, x, inc, exc) = {q \in x.checks \ exc : q[1] \notin TeamsIn(inc)} \cup inc
            BY <1>12 DEF Final
        <3>3. ASSUME NEW q \in y.checks, q \notin exc, q[1] \notin TeamsIn(some)
              PROVE  q \in inc \/ (q \in x.checks /\ q[1] \notin TeamsIn(inc))
            BY <2>2, <2>6, <3>3
        <3>4. ASSUME NEW q \in x.checks, q \notin exc, q[1] \notin TeamsIn(inc)
              PROVE  q \in y.checks /\ q[1] \notin TeamsIn(some)
            BY <2>2, <2>6, <3>4
        <3>5. ASSUME NEW q \in inc
              PROVE  q \in some \/ (q \in y.checks /\ q \notin exc /\ q[1] \notin TeamsIn(some))
            BY <2>1, <2>2, <2>7, <3>5
        <3> QED
            BY <2>1, <3>1, <3>2, <3>3, <3>4, <3>5
    <2>9. LeadsWith(o, y, some, exc)
        BY <1>9, <2>3, <2>4, <2>5, <2>8
    <2> QED
        BY <2>1, <2>9 DEF Leads, l
<1> QED
    BY <1>2, <1>10, <1>11, <1>12

\* An environment is there by the time that the ruleset which deploys to it is sent.
LEMMA EnvironmentIsThere ==
    ASSUME SoundState, Coherent, TodoInv, OrderInv, ApplyingInv, todo # <<>>, Current.of = "rule",
           "deployment" \in config["rule"].data
    PROVE  live["env"] # None
<1>1. todo \in Seq(PatchSet) /\ 1 \in DOMAIN todo /\ todo[1] = Current /\ Follows(todo, InOrder)
    BY DEF TodoInv, OrderInv, Current
<1>2. ~Pending("env")
    <2> SUFFICES ASSUME NEW i \in DOMAIN todo, todo[i].of = "env"
                 PROVE  FALSE
        BY DEF Pending
    <2>1. i # 1 /\ i \in Nat
        BY <1>1
    <2>2. <<todo[1], todo[i]>> \in InOrder
        BY <1>1, <2>1 DEF Follows
    <2> QED
        BY <1>1, <2>2 DEF InOrder
<1>3. "env" \in Objects /\ "env" \notin Selective /\ "env" # "pages"
    BY KindsOfObjects
<1>4. GoodNow("env")
    BY <1>2, <1>3 DEF ApplyingInv, Waits
<1>5. config["env"] # None
    BY DEF Coherent, Deployable
<1> QED
    BY <1>4, <1>5 DEF GoodNow, Fits, IsThere

\* The request of a list whose turn it is.
LEMMA EntryAccepted ==
    ASSUME SoundState, Coherent, TodoInv, OrderInv, ApplyingInv, todo # <<>>, NEW o \in Objects, o = Current.of,
           NEW L, L # <<>>, Leads(o, live[o], L), Legal(o, Head(L))
    PROVE  Accepted(o, Head(L)) \/ (Unselected(o) /\ Fits(o, live[o], {}))
<1> DEFINE x == live[o]
           s == Head(L)
           l == ListOf(o)
<1>1. PICK inc, exc : IsList(L, l, inc, exc) /\ LeadsWith(o, x, inc, exc)
    BY DEF Leads
<1>2. /\ s.field = l /\ s.op \in {"include", "exclude"}
      /\ s.op = "include" => s.item \in inc
      /\ s.op = "exclude" => s.item \in exc
    BY <1>1, FirstOfList
<1>3. CASE Unselected(o)
    BY <1>1, <1>3 DEF LeadsWith
<1>4. CASE ~Unselected(o)
    <2> DEFINE w == With(x, l, Final(o, x, inc, exc))
    <2>1. exc \subseteq x[l] /\ Fits(o, w, {})
        BY <1>1, <1>4 DEF LeadsWith
    <2>2. x # None
        <3>1. w.data = x.data
            BY DEF With
        <3> QED
            BY <2>1, <3>1 DEF Fits, IsThere
    <2>3. inc \subseteq Final(o, x, inc, exc)
        BY DEF Final
    <2>4. o \in Teams \cup Environments \cup Permanent
        BY <1>2 DEF Legal
    <2>5. s.op = "exclude" => s.item \in x[s.field]
        BY <1>2, <2>1
    <2>6. CASE o \in Teams
        <3>1. ids[o] # 0 /\ TeamOf(o, s) = o
            BY <2>2, <2>6, KindsOfObjects DEF SoundState, TeamsInv, TeamOf
        <3>2. o \notin Environments
            BY <2>6, KindsOfObjects
        <3> QED
            BY <1>2, <2>2, <2>5, <3>1, <3>2 DEF Accepted
    <2>7. CASE o = "managers"
        <3>1. o \notin Environments /\ o \notin HasActors /\ o \notin Teams /\ o # "perms" /\ l = "refs"
            BY <2>7, KindsOfObjects DEF ListOf
        <3>2. TeamOf(o, s) = s.item
            BY <2>7, <3>1 DEF TeamOf
        <3>3. s.op = "exclude" => ids[s.item] # 0
            BY <2>5, <2>7, <1>2, <3>1 DEF SoundState, IsStored
        <3>4. s.op = "include" => ids[s.item] # 0
            <4>1. "refs" \in Included(o)
                BY <2>7 DEF Included, Fields
            <4>2. RefsFit(o, w)
                BY <2>1, <4>1 DEF Fits, FieldFits
            <4>3. w.refs = Final(o, x, inc, exc)
                BY <3>1 DEF With
            <4>4. s.op = "include" => s.item \in Named(o) /\ Exists(s.item)
                BY <1>2, <2>3, <3>1, <4>2, <4>3 DEF RefsFit
            <4>5. s.op = "include" => s.item \in Teams
                BY <2>7, <4>4, WhoIsNamed DEF SoundState
            <4> QED
                BY <4>4, <4>5, WhoExists
        <3> QED
            BY <1>2, <2>2, <2>5, <3>1, <3>2, <3>3, <3>4 DEF Accepted
    <2>8. CASE o = "perms"
        <3>1. o \notin Environments /\ o \notin Teams /\ o \notin Rules /\ o # "branch" /\ l = "checks"
            BY <2>8, KindsOfObjects DEF ListOf
        <3>2. TeamOf(o, s) = s.item[1]
            BY <2>8 DEF TeamOf
        <3>3. s.op = "exclude" => ids[s.item[1]] # 0
            <4>1. TeamsIn(live["perms"].checks) \subseteq {t \in Teams : ids[t] # 0}
                BY DEF SoundState, IsStored
            <4>2. s.op = "exclude" => s.item \in live["perms"].checks
                BY <1>2, <2>5, <2>8, <3>1
            <4> QED
                BY <4>1, <4>2 DEF TeamsIn
        <3>4. s.op = "include" => ids[s.item[1]] # 0
            <4>1. "checks" \in Included(o) /\ ~NoRules(o)
                BY <2>8, <3>1 DEF Included, Fields, NoRules
            <4>2. ChecksFit(o, w)
                BY <2>1, <4>1 DEF Fits, FieldFits
            <4>3. \A c : ReadCheck(o, c) = c /\ StoredCheck(o, c) = c
                BY <3>1 DEF ReadCheck, StoredCheck
            <4>4. w.checks = Final(o, x, inc, exc)
                BY <3>1 DEF With
            <4> HIDE DEF w
            <4>5. config[o].checks = w.checks
                <5>1. {ReadCheck(o, StoredCheck(o, c)) : c \in config[o].checks} = config[o].checks
                    BY <4>3
                <5>2. ReadEntries(o, w) = {ReadCheck(o, c) : c \in w.checks}
                    BY <3>1 DEF ReadEntries
                <5>3. ReadEntries(o, w) = w.checks
                    BY <4>3, <5>2
                <5> QED
                    BY <4>2, <5>1, <5>3 DEF ChecksFit
            <4>6. s.op = "include" => s.item[1] \in TeamsIn(config["perms"].checks)
                BY <1>2, <2>3, <2>8, <4>4, <4>5 DEF TeamsIn
            <4>7. s.op = "include" => s.item[1] \in Teams /\ config[s.item[1]] # None
                BY <4>6, ConfigHas
            <4> QED
                BY <3>1, <4>7, TeamsThere
        <3> QED
            BY <1>2, <2>2, <2>5, <3>1, <3>2, <3>3, <3>4 DEF Accepted
    <2>9. CASE o \in Environments
        <3>1. o \notin Teams /\ o \notin Permanent
            BY <2>9, KindsOfObjects
        <3>2. "data" \in Included(o) /\ ~NoRules(o)
            BY <2>9, KindsOfObjects DEF Included, Fields, NoRules
        <3>3. w.data = config[o].data /\ w.data = x.data
            BY <2>1, <3>2 DEF Fits, FieldFits, With
        <3>4. "selected" \in x.data
            BY <1>4, <2>9, <3>3 DEF Unselected
        <3> QED
            BY <1>2, <2>2, <2>5, <3>1, <3>4 DEF Accepted
    <2> QED
        BY <2>4, <2>6, <2>7, <2>8, <2>9 DEF Permanent
<1> QED
    BY <1>3, <1>4

\* The patch that is being applied.
LEMMA CurrentUnderway ==
    ASSUME TodoInv, StepsInv, ApplyingInv, steps # <<>>, NEW p, p = Current
    PROVE  todo # <<>> /\ p \in PatchSet /\ p.of \in Objects /\ Underway(p, steps)
<1>1. todo # <<>> /\ todo \in Seq(PatchSet)
    BY DEF StepsInv, TodoInv
<1>2. p \in PatchSet
    BY <1>1 DEF Current
<1>3. Underway(p, steps)
    BY <1>2 DEF ApplyingInv
<1> QED
    BY <1>1, <1>2, <1>3 DEF PatchSet

\* In a calm run GitHub takes every request; one that it refuses is not needed.
LEMMA HeadAccepted ==
    ASSUME SoundState, Coherent, TodoInv, OrderInv, ApplyingInv, StepsInv, StoredInv, steps # <<>>,
           NEW p, p = Current
    PROVE  \/ Accepted(p.of, Head(steps))
           \/ p.kind # "remove" /\ Unselected(p.of) /\ Fits(p.of, live[p.of], {})
<1> DEFINE o == p.of
           s == Head(steps)
<1>1. todo # <<>> /\ p \in PatchSet /\ o \in Objects /\ Underway(p, steps)
    BY CurrentUnderway
<1>2. AllLegal(o, steps)
    BY DEF StoredInv
<1>3. Legal(o, s)
    <2>1. PICK S : steps \in Seq(S)
        BY <1>2 DEF AllLegal
    <2>2. 1 \in DOMAIN steps /\ s = steps[1]
        BY <2>1
    <2> QED
        BY <1>2, <2>2 DEF AllLegal, Range
<1>4. CASE p.kind = "remove"
    <2>1. live[o] # None /\ steps = <<Entry("delete", "data", {})>>
        BY <1>1, <1>4 DEF Underway
    <2>2. s.op = "delete"
        BY <2>1, EntryIs
    <2> QED
        BY <2>1, <2>2 DEF Accepted
<1>5. CASE p.kind # "remove" /\ Leads(o, live[o], steps)
    BY <1>1, <1>3, <1>5, EntryAccepted
<1>6. CASE p.kind # "remove" /\ s.op = "put"
    <2>1. o = "rule" /\ "data" \in DOMAIN s.item /\ "deployment" \in s.item.data => live["env"] # None
        <3> SUFFICES ASSUME o = "rule", "data" \in DOMAIN s.item, "deployment" \in s.item.data
                     PROVE  live["env"] # None
            OBVIOUS
        <3>1. s.item.data = config["rule"].data
            BY <1>3, <1>6 DEF Legal
        <3>2. "deployment" \in config["rule"].data
            BY <3>1
        <3> QED
            BY <1>1, <3>2, EnvironmentIsThere
    <2> QED
        BY <1>6, <2>1 DEF Accepted
<1>7. p.kind # "remove" /\ ~Leads(o, live[o], steps) => s.op = "put"
    BY <1>1 DEF Underway, Update
<1> QED
    BY <1>4, <1>5, <1>6, <1>7

\* What a request does to who there is.
LEMMA StepIsSteady ==
    ASSUME SoundState, TodoInv, StepsInv, ApplyingInv, Step, NEW p, p = Current, NEW y, y = After(p.of, Head(steps))
    PROVE  Steady /\ live'[p.of] = y /\ Unwanted(GoneWith(p.of, y))
<1> DEFINE o == p.of
<1>0. steps # <<>>
    BY DEF Step
<1>1. todo # <<>> /\ p \in PatchSet /\ o \in Objects /\ Underway(p, steps)
    BY <1>0, CurrentUnderway
<1>2. Sound(o, Head(steps)) /\ LiveInv /\ TeamsInv
    BY NextIsSound DEF Step, SoundState
<1>3. config' = config /\ installed' = installed /\ steps # <<>>
    BY DEF Step
<1>4. /\ live'[o] = y
      /\ \A x \in Objects : x # o /\ x \notin {"managers", "perms", "secret", "variable"} => live'[x] = live[x]
      /\ \A t \in Teams : t # o => ids'[t] = ids[t]
      /\ o \in Teams => ids'[o] = IF y = None THEN 0 ELSE IF ids[o] = 0 THEN hist.next ELSE ids[o]
    <2> HIDE DEF o
    <2>1. o = Current.of /\ y = After(o, Head(steps))
        BY DEF o
    <2>2. \A x \in Objects : x # o /\ x \notin {"managers", "perms", "secret", "variable"} => live'[x] = live[x]
        <3>1. RefInv
            BY DEF RefInv, KeepInv, SoundState
        <3> QED
            BY <2>1, <3>1, StepAround
    <2>3. /\ live'[o] = y
          /\ \A t \in Teams : t # o => ids'[t] = ids[t]
          /\ o \in Teams => ids'[o] = IF y = None THEN 0 ELSE IF ids[o] = 0 THEN hist.next ELSE ids[o]
        BY <1>1, <1>2, <2>1, DoneExactly
    <2> QED
        BY <2>2, <2>3
<1>5. y = None => config[o] = None
    <2>1. Head(steps).op # "delete" => y # None
        BY <1>1, <1>2, AfterFacts
    <2> QED
        BY <1>2, <2>1 DEF Sound
<1>6. y # None => config[o] # None
    <2>1. p.kind = "remove" => y = None
        <3>1. p.kind = "remove" => Head(steps).op = "delete"
            BY <1>1, EntryIs DEF Underway
        <3> QED
            BY <3>1 DEF After
    <2>2. p.kind # "remove" => config[o] # None
        BY <1>1 DEF TodoInv, Current
    <2> QED
        BY <2>1, <2>2
<1>7. \A t \in Teams : \/ ids'[t] = ids[t]
                       \/ ids[t] = 0 /\ config[t] # None /\ ids'[t] = hist.next
                       \/ ids'[t] = 0 /\ config[t] = None
    BY <1>4, <1>5, <1>6
<1>8. config["repo"] # None /\ live["repo"] # None => live'["repo"] # None
    <2>1. "repo" \in Objects
        BY KindsOfObjects
    <2> QED
        BY <1>4, <1>5, <2>1
<1>9. Unwanted(GoneWith(o, y))
    BY <1>5, KindsOfObjects DEF Unwanted, GoneWith
<1> QED
    BY <1>3, <1>4, <1>7, <1>8, <1>9 DEF Steady

\* The others.
LEMMA StepLeavesOthers ==
    ASSUME SoundState, SoundState', Coherent, TodoInv, StepsInv, ApplyingInv, Step, NEW p, p = Current,
           NEW y, y = After(p.of, Head(steps))
    PROVE  /\ \A x \in Objects : x # p.of /\ GoodNow(x) => GoodNow(x)'
           /\ \A q \in PatchSet : q.of # p.of /\ Awaits(q) => Awaits(q)'
<1>1. Steady /\ live'[p.of] = y /\ Unwanted(GoneWith(p.of, y))
    BY StepIsSteady
<1>2. p.of \in Objects /\ Sound(p.of, Head(steps)) /\ LiveInv /\ TeamsInv
    BY NextIsSound DEF Step, SoundState
<1>3. \A x \in Objects : x # p.of =>
          /\ live'[x].data = live[x].data
          /\ live'[x].refs = IF x \in {"managers", "secret", "variable"}
                             THEN live[x].refs \ GoneWith(p.of, y) ELSE live[x].refs
          /\ live'[x].checks = IF x = "perms" THEN {q \in live[x].checks : q[1] \notin GoneWith(p.of, y)}
                                              ELSE live[x].checks
    BY <1>2, DoneExactly
<1>4. LiveInv' /\ IsStored(live, ids, hist.next)
    BY DEF SoundState
<1>5. ASSUME NEW x \in Objects, x # p.of, NEW z, z = live'[x]
      PROVE  /\ GoodNow(x) => GoodNow(x)'
             /\ \A q : q.of = x /\ Awaits(q) => Awaits(q)'
    <2>1. Lessened(x, z, GoneWith(p.of, y))
        BY <1>3, <1>5 DEF Lessened
    <2> QED
        BY <1>1, <1>4, <1>5, <2>1, OthersStay
<1> QED
    BY <1>5 DEF PatchSet

\* What is left of the requests goes on to lead to what is configured.
LEMMA LeadsStay ==
    ASSUME SoundState, Coherent, Steady, NEW o \in Objects, NEW x, NEW L,
           o \in HasActors => x.refs \subseteq Stored(o, hist.next), Leads(o, x, L)
    PROVE  Leads(o, x, L)'
<1>1. PICK inc, exc : IsList(L, ListOf(o), inc, exc) /\ LeadsWith(o, x, inc, exc)
    BY DEF Leads
<1>2. Unselected(o)' = Unselected(o)
    BY DEF Unselected, Steady
<1> DEFINE w == With(x, ListOf(o), Final(o, x, inc, exc))
<1>3. o \in HasActors => w.refs = x.refs
    <2>1. o \in HasActors => ListOf(o) = "checks"
        BY KindsOfObjects DEF ListOf
    <2> QED
        BY <2>1 DEF With
<1>4. Fits(o, x, {}) => Fits(o, x, {})'
    BY FitsStay
<1>5. Fits(o, w, {}) => Fits(o, w, {})'
    <2> HIDE DEF w
    <2> QED
        BY <1>3, FitsStay
<1>6. LeadsWith(o, x, inc, exc)'
    BY <1>1, <1>2, <1>4, <1>5 DEF LeadsWith
<1> QED
    BY <1>1, <1>6 DEF Leads

\* The requests that are left make up what they lead to.
LEMMA LeadsOn ==
    ASSUME SoundState, SoundState', Coherent, Steady, NEW p, p.kind # "remove", p.of \in Objects, config[p.of] # None,
           p.of \in HasActors => hist'.next = hist.next,
           NEW y, y = live'[p.of], Leads(p.of, y, Tail(steps)), steps' = Tail(steps)
    PROVE  /\ steps' = <<>> => GoodNow(p.of)'
           /\ steps' # <<>> => Underway(p, steps)'
<1> DEFINE o == p.of
<1>1. o \in HasActors => y.refs \subseteq Stored(o, hist.next)
    <2>1. live'[o].refs \subseteq Stored(o, hist'.next)
        BY DEF SoundState, IsStored, Stored
    <2> QED
        BY <2>1
<1>2. ASSUME steps' = <<>>
      PROVE  GoodNow(o)'
    <2>1. Fits(o, y, {})
        BY <1>2, LeadsEnds
    <2>2. Fits(o, y, {})'
        BY <1>1, <2>1, FitsStay
    <2>3. Fits(o, live[o], {})'
        BY <2>2, FitsAfter
    <2>4. config'[o] # None
        BY DEF Steady
    <2> QED
        BY <2>3, <2>4 DEF GoodNow
<1>3. ASSUME NEW L, L = steps'
      PROVE  Underway(p, steps)'
    <2>1. Leads(o, y, L)
        BY <1>3
    <2>2. Leads(o, y, L)'
        BY <1>1, <2>1, LeadsStay
    <2>3. Leads(o, live[o], L)'
        BY <2>2, LeadsAfter
    <2>4. Leads(o, live[o], steps)'
        BY <1>3, <2>3 DEF Leads
    <2> QED
        BY <2>4 DEF Underway
<1> QED
    BY <1>2, <1>3

\* Of the two requests for a variable the second one is left.
LEMMA SelectionLeads ==
    ASSUME SoundState, Coherent, Steady, NEW p, p.kind # "remove", p.of = "variable",
           live["variable"] # None, config["variable"] # None, Resolvable("variable", config["variable"]),
           "selected" \in config["variable"].data,
           NEW y, y = live'["variable"], y = After("variable", Update([data |-> config["variable"].data])),
           steps' = <<Update([refs |-> config["variable"].refs])>>
    PROVE  Underway(p, steps)'
<1> DEFINE o == "variable"
<1>1. o \in Objects /\ o \in Selective /\ o \notin HasActors /\ o \notin Rules /\ o \notin Environments /\ ~HasEntries(o)
      /\ o # "branch"
    BY KindsOfObjects DEF HasEntries
<1>2. y.data = config[o].data /\ y.checks = {} /\ DOMAIN y = Fields
    <2>1. DOMAIN [data |-> config[o].data] = {"data"}
        OBVIOUS
    <2>2. /\ y.data = Merged(o, [data |-> config[o].data]).data
          /\ y.checks = Merged(o, [data |-> config[o].data]).checks
        BY <1>1, AfterPut
    <2>3. /\ Merged(o, [data |-> config[o].data]).data = config[o].data
          /\ Merged(o, [data |-> config[o].data]).checks = Before(o).checks
        BY <2>1, MergedIs
    <2>4. Before(o).checks = {}
        BY <1>1 DEF SoundState, IsStored, Before
    <2>5. DOMAIN y = Fields
        <3>1. Update([data |-> config[o].data]).op = "put"
            BY DEF Update
        <3> QED
            BY <1>1, <3>1, PutFacts
    <2> QED
        BY <2>2, <2>3, <2>4, <2>5
<1>3. IsObject(config[o]) /\ config[o].data # None.data /\ config[o].checks = {}
    BY <1>1 DEF SoundState, LiveInv, IsObject, IsConfiguration
<1>4. y # None
    BY <1>2, <1>3
<1>5. ASSUME NEW z, z.refs = config[o].refs, z.checks = {}, z.data = config[o].data
      PROVE  Leads(o, z, <<>>)'
    <2>1. Named(o) = config[o].refs /\ ~NoRules(o)
        BY <1>1 DEF Named, NoRules
    <2>2. RefsFit(o, z)
        BY <1>1, <1>5, <2>1 DEF RefsFit, Resolvable, Misses, IsRequired
    <2>3. ChecksFit(o, z)
        BY <1>1, <1>3, <1>5 DEF ChecksFit, ReadEntries
    <2>4. Fits(o, z, {})
        BY <1>3, <1>5, <2>2, <2>3 DEF Fits, IsThere, FieldFits
    <2>5. Leads(o, z, <<>>)
        BY <2>4, NothingLeadsOn
    <2> QED
        BY <1>1, <2>5, LeadsStay
<1>6. ASSUME NEW s, s = Update([refs |-> config[o].refs]), NEW z, z = After(o, s)'
      PROVE  z.refs = config[o].refs /\ z.checks = {} /\ z.data = config[o].data
    <2> DEFINE new == [f \in Fields |-> IF f \in DOMAIN s.item THEN s.item[f] ELSE y[f]]
    <2>1. s.op = "put" /\ DOMAIN s.item = {"refs"} /\ s.item.refs = config[o].refs
        BY <1>6 DEF Update
    <2>2. new.refs = config[o].refs /\ new.checks = y.checks /\ new.data = y.data
        BY <2>1 DEF Fields
    <2>3. z = new
        <3>1. live'[o] = y /\ y # None
            BY <1>4
        <3>2. z = IF "selected" \in new.data THEN new
                  ELSE CASE o \in Environments -> [new EXCEPT !.checks = {}]
                         [] o \in Selective     -> [new EXCEPT !.refs = {}]
                         [] OTHER               -> new
            <4> DEFINE old == IF live'[o] = None THEN Blank(o) ELSE live'[o]
                       N == [f \in Fields |-> IF f \in DOMAIN s.item THEN s.item[f] ELSE old[f]]
            <4>1. old = y
                BY <3>1
            <4>2. N = new
                BY <4>1
            <4>3. s.op # "delete"
                BY <2>1
            <4>4. z = IF "selected" \in N.data THEN N
                      ELSE CASE o \in Environments -> [N EXCEPT !.checks = {}]
                             [] o \in Selective     -> [N EXCEPT !.refs = {}]
                             [] OTHER               -> N
                BY <1>6, <2>1, <4>3 DEF After
            <4> HIDE DEF N, new
            <4> QED
                BY <4>2, <4>4
        <3> QED
            BY <1>2, <2>2, <3>2
    <2> QED
        BY <1>2, <2>2, <2>3
<1>7. ASSUME NEW s, s = Update([refs |-> config[o].refs]), NEW z, z = After(o, s)'
      PROVE  Underway(p, steps)'
    <2>1. Leads(o, z, <<>>)'
        BY <1>5, <1>6, <1>7
    <2>2. steps' = <<s>> /\ Head(steps') = s /\ Tail(steps') = <<>> /\ s.op = "put"
        BY <1>7 DEF Update
    <2>3. PICK inc, exc : IsList(<<>>, ListOf(o), inc, exc) /\ LeadsWith(o, z, inc, exc)'
        BY <2>1 DEF Leads
    <2>4. LeadsWith(o, After(o, Head(steps)), inc, exc)'
        BY <1>7, <2>2, <2>3 DEF LeadsWith, With, Final, Fits, IsThere, FieldFits, RefsFit, ChecksFit, ReadEntries
    <2>5. Leads(o, After(o, Head(steps)), Tail(steps))'
        BY <2>2, <2>3, <2>4 DEF Leads
    <2> QED
        BY <2>2, <2>5 DEF Underway
<1> QED
    BY <1>7

\* A request brings its object nearer to what is configured.
LEMMA StepCalms ==
    ASSUME SoundState, SoundState', TodoInv, StepsInv, StoredInv, OrderInv, HistInv, CalmInv, Step
    PROVE  OrderInv' /\ CalmInv'
<1>1. /\ steps # <<>> /\ todo # <<>> /\ pc = "applying" /\ pc' = pc
      /\ config' = config /\ steps' = Tail(steps) /\ todo' = IF Len(steps) = 1 THEN Tail(todo) ELSE todo
    BY DEF Step, Advance, StepsInv
<1>2. /\ Len(steps) = 1 <=> Tail(steps) = <<>>
      /\ Sound(Current.of, Head(steps)) /\ Current.of \in Objects
    <2>1. PICK S : steps \in Seq(S)
        BY <1>1 DEF StepsInv, AllSound
    <2> QED
        BY <1>1, <2>1, TailOf, NextIsSound DEF SoundState
<1>3. OrderInv'
    BY <1>1, OrderStays
<1>4. /\ hist'.failed = hist.failed /\ hist'.calm = hist.calm /\ hist'.disturbed = hist.disturbed
      /\ Current.of \notin Teams => hist' = hist
    <2>1. LiveInv /\ TeamsInv
        BY DEF SoundState
    <2>2. PICK o, y : o = Current.of /\ y = After(o, Head(steps))
        OBVIOUS
    <2>3. HistInv => /\ HistInv'
                     /\ hist'.failed = hist.failed /\ hist'.calm = hist.calm
                     /\ hist'.disturbed = hist.disturbed
        BY <1>2, <2>1, <2>2, DoneExactly
    <2>4. o \notin Teams => ids' = ids /\ hist' = hist
        BY <1>2, <2>1, <2>2, DoneExactly
    <2> QED
        BY <2>2, <2>3, <2>4
<1>5. ASSUME Coherent, ~hist.disturbed, ApplyingInv, NEW p, p = Current, NEW y, y = After(p.of, Head(steps))
      PROVE  ApplyingInv'
    <2> DEFINE o == p.of
    <2>1. p \in PatchSet /\ o \in Objects /\ Underway(p, steps)
        BY <1>1, <1>5, CurrentUnderway
    <2>2. /\ p.kind = "remove" => config[o] = None
          /\ p.kind # "remove" => config[o] # None
        BY <1>1, <1>5 DEF TodoInv, Current
    <2>3. Steady /\ live'[o] = y
        BY <1>5, StepIsSteady
    <2>4. o \in HasActors => hist'.next = hist.next
        BY <1>4, <1>5, KindsOfObjects
    <2>5. /\ steps' = <<>> => todo' = Tail(todo) /\ GoodNow(o)'
          /\ steps' # <<>> => todo' = todo /\ Underway(p, steps)'
        <3>1. CASE p.kind = "remove"
            <4>1. steps = <<Entry("delete", "data", {})>>
                BY <2>1, <3>1 DEF Underway
            <4>2. steps' = <<>>
                BY <1>1, <4>1
            <4>3. y = None
                BY <1>5, <4>1, EntryIs DEF After
            <4>4. GoodNow(o)'
                BY <1>1, <2>2, <2>3, <3>1, <4>3 DEF GoodNow
            <4> QED
                BY <1>1, <1>2, <4>2, <4>4
        <3>2. CASE p.kind # "remove" /\ Leads(o, y, Tail(steps))
            <4>1. /\ steps' = <<>> => GoodNow(o)'
                  /\ steps' # <<>> => Underway(p, steps)'
                BY <1>1, <1>5, <2>1, <2>2, <2>3, <2>4, <3>2, LeadsOn
            <4> QED
                BY <1>1, <1>2, <4>1
        <3>3. CASE p.kind # "remove" /\ Leads(o, live[o], steps)
            <4>1. Accepted(o, Head(steps))
                BY <1>5 DEF Step
            <4>2. Leads(o, y, Tail(steps))
                BY <1>1, <1>5, <2>1, <3>3, <4>1, ListStep
            <4> QED
                BY <3>2, <3>3, <4>2
        <3>4. CASE p.kind # "remove" /\ Head(steps).op = "put" /\ Leads(o, After(o, Head(steps)), Tail(steps))
            BY <1>5, <3>2, <3>4
        <3>5. CASE /\ p.kind # "remove" /\ o = "variable" /\ live[o] # None /\ Resolvable(o, config[o])
                   /\ "selected" \in config[o].data
                   /\ steps = <<Update([data |-> config[o].data]), Update([refs |-> config[o].refs])>>
            <4>1. /\ Head(steps) = Update([data |-> config["variable"].data])
                  /\ Tail(steps) = <<Update([refs |-> config["variable"].refs])>>
                BY <3>5
            <4>2. Underway(p, steps)'
                BY <1>1, <1>5, <2>2, <2>3, <3>5, <4>1, SelectionLeads
            <4>3. \A s : <<s>> # <<>>
                OBVIOUS
            <4>4. steps' # <<>>
                BY <1>1, <4>1, <4>3
            <4> QED
                BY <1>1, <1>2, <4>2, <4>4
        <3> QED
            BY <2>1, <3>1, <3>3, <3>4, <3>5 DEF Underway
    <2>6. /\ \A x \in Objects : x # p.of /\ GoodNow(x) => GoodNow(x)'
          /\ \A q \in PatchSet : q.of # p.of /\ Awaits(q) => Awaits(q)'
        BY <1>5, StepLeavesOthers
    <2>7. RepoThere => RepoThere'
        BY <2>3 DEF RepoThere, Steady
    <2> QED
        BY <1>1, <1>4, <1>5, <2>5, <2>6, <2>7, PatchGoesOn
<1>6. Coherent /\ ~hist.disturbed /\ ApplyingInv => ApplyingInv'
    BY <1>5
<1> QED
    BY <1>1, <1>3, <1>4, <1>6, CalmGoesOn

-----------------------------------------------------------------------------
(* References: a calm run leaves everything as it is configured.           *)

AllInv == RefInv /\ StoredInv /\ HistInv

\* What is known of each state by now.
LEMMA AllInvHolds == RefSpec => []AllInv
BY RefInvHolds, StoredInvariance, PTL DEF AllInv

LEMMA AllIsSound ==
    ASSUME AllInv
    PROVE  SoundState /\ TodoInv /\ StepsInv /\ StoredInv /\ HistInv
BY DEF AllInv, RefInv, KeepInv, StoredInv, SoundState

\* GitHub warns of nothing in a calm run, and refuses only what nobody needs.
LEMMA WarnCalms ==
    ASSUME AllInv, OrderInv, CalmInv, Warn
    PROVE  OrderInv' /\ CalmInv'
<1>1. SoundState /\ TodoInv /\ StepsInv /\ StoredInv
    BY AllIsSound
<1>2. /\ steps # <<>> /\ todo # <<>> /\ pc = "applying" /\ pc' = pc /\ hist' = hist /\ config' = config
      /\ todo' = todo \/ todo' = Tail(todo)
    BY <1>1 DEF Warn, Advance, StepsInv
<1>3. OrderInv'
    BY <1>1, <1>2, OrderStays
<1>4. ASSUME Coherent, ~hist.disturbed, ApplyingInv, NEW p, p = Current
      PROVE  FALSE
    <2>1. p.of = "managers" /\ ~Accepted(p.of, Head(steps))
        BY <1>4 DEF Warn, Tolerated
    <2>2. Unselected(p.of)
        BY <1>1, <1>2, <1>4, <2>1, HeadAccepted
    <2> QED
        BY <2>1, <2>2, KindsOfObjects DEF Unselected
<1>5. Coherent /\ ~hist.disturbed /\ ApplyingInv => ApplyingInv'
    BY <1>4
<1> QED
    BY <1>2, <1>3, <1>5, CalmGoesOn

LEMMA RefuseCalms ==
    ASSUME AllInv, OrderInv, CalmInv, Refuse
    PROVE  OrderInv' /\ CalmInv'
<1>1. SoundState /\ TodoInv /\ StepsInv /\ StoredInv /\ HistInv
    BY AllIsSound
<1>2. /\ steps # <<>> /\ todo # <<>> /\ pc = "applying" /\ pc' = pc
      /\ steps' = <<>> /\ todo' = Tail(todo) /\ UNCHANGED <<live, ids, installed, config>>
    BY <1>1 DEF Refuse, GiveUp, StepsInv
<1>3. hist'.failed /\ hist'.calm = hist.calm /\ hist'.disturbed = hist.disturbed
    BY <1>1 DEF Refuse, HistInv
<1>4. OrderInv'
    BY <1>1, <1>2, OrderStays
<1>5. ASSUME Coherent, ~hist.disturbed, ApplyingInv, NEW p, p = Current
      PROVE  ApplyingInv'
    <2>1. p \in PatchSet /\ p.of \in Objects
        BY <1>1, <1>2, <1>5, CurrentUnderway
    <2>2. ~Accepted(p.of, Head(steps))
        BY <1>5 DEF Refuse
    <2>3. p.kind # "remove" /\ Fits(p.of, live[p.of], {})
        BY <1>1, <1>2, <1>5, <2>2, HeadAccepted
    <2>4. config[p.of] # None
        BY <1>1, <1>2, <1>5, <2>3 DEF TodoInv, Current
    <2>5. \A x \in Objects : GoodNow(x) => GoodNow(x)'
        BY <1>1, <1>2, <1>5, SameIsSteady
    <2>6. \A q \in PatchSet : Awaits(q) => Awaits(q)'
        BY <1>1, <1>2, <1>5, SameIsSteady DEF PatchSet
    <2>7. GoodNow(p.of)'
        BY <2>1, <2>3, <2>4, <2>5 DEF GoodNow
    <2>8. RepoThere => RepoThere'
        BY <1>2 DEF RepoThere
    <2> QED
        BY <1>1, <1>2, <1>3, <1>5, <2>5, <2>6, <2>7, <2>8, PatchGoesOn
<1>6. Coherent /\ ~hist.disturbed /\ ApplyingInv => ApplyingInv'
    BY <1>5
<1> QED
    BY <1>2, <1>3, <1>4, <1>6, CalmGoesOn

\* Whatever goes wrong or is changed by somebody else makes the run one that is not calm.
LEMMA TroubleCalms ==
    ASSUME TodoInv, OrderInv, hist'.disturbed, hist'.calm = 0, todo' = todo \/ (todo # <<>> /\ todo' = Tail(todo))
    PROVE  OrderInv' /\ CalmInv'
<1>1. OrderInv'
    BY OrderStays
<1> QED
    BY <1>1 DEF CalmInv

\* A run that is broken off leaves nothing pending and is not calm.
LEMMA BreakOffCalms ==
    ASSUME HistInv, BreakOff
    PROVE  OrderInv' /\ CalmInv'
<1>1. pc' = "done" /\ todo' = <<>> /\ hist'.calm = 0
    BY DEF BreakOff, HistInv
<1>2. OrderInv'
    BY <1>1 DEF OrderInv, Follows
<1> QED
    BY <1>1, <1>2 DEF CalmInv

\* At the end nothing is pending any more.
LEMMA CompleteCalms ==
    ASSUME AllInv, OrderInv, CalmInv, Complete
    PROVE  OrderInv' /\ CalmInv'
<1>1. SoundState /\ TodoInv /\ HistInv
    BY AllIsSound
<1>2. /\ pc = "applying" /\ pc' = "done" /\ todo = <<>> /\ todo' = todo
      /\ UNCHANGED <<live, ids, installed, config>>
    BY DEF Complete
<1>3. /\ ~hist'.disturbed /\ hist'.failed = hist.failed
      /\ hist'.calm = IF hist.disturbed THEN 0 ELSE hist.calm + 1
    BY <1>1 DEF Complete, HistInv
<1>4. OrderInv'
    BY <1>1, <1>2, OrderStays
<1>5. ASSUME Coherent', hist'.calm # 0, NEW o \in Objects
      PROVE  GoodNow(o)' \/ (Waits(o)' /\ hist'.calm = 1)
    <2>1. Coherent
        BY <1>2, <1>5 DEF Coherent, Deployable
    <2>2. ~hist.disturbed /\ hist'.calm = hist.calm + 1
        BY <1>3, <1>5
    <2>3. ApplyingInv
        BY <1>2, <2>1, <2>2 DEF CalmInv
    <2>4. ~Pending(o)
        BY <1>2 DEF Pending
    <2>5. GoodNow(o) \/ (Waits(o) /\ hist.calm = 0)
        BY <2>3, <2>4 DEF ApplyingInv
    <2>6. GoodNow(o) => GoodNow(o)'
        BY <1>1, <1>2, <2>1, SameIsSteady
    <2>7. Waits(o) => Waits(o)'
        BY <1>2, <1>3 DEF Waits
    <2> QED
        BY <2>2, <2>5, <2>6, <2>7
<1> QED
    BY <1>2, <1>3, <1>4, <1>5 DEF CalmInv

\* Nothing that matters changes.
LEMMA IdleCalms ==
    ASSUME AllInv, OrderInv, CalmInv, UNCHANGED <<live, ids, installed, config, todo, steps, hist>>,
           pc' = pc \/ (pc = "done" /\ pc' = "idle")
    PROVE  OrderInv' /\ CalmInv'
<1>1. SoundState /\ TodoInv /\ HistInv
    BY AllIsSound
<1>2. OrderInv'
    BY <1>1, OrderStays
<1>3. \A x : Waits(x) => Waits(x)'
    BY DEF Waits
<1>4. Coherent' => Coherent
    BY DEF Coherent, Deployable
<1>5. ASSUME Coherent
      PROVE  /\ \A x \in Objects : GoodNow(x) => GoodNow(x)'
             /\ \A q \in PatchSet : Awaits(q) => Awaits(q)'
    BY <1>1, <1>5, SameIsSteady DEF PatchSet
<1>6. ASSUME Coherent, ApplyingInv
      PROVE  ApplyingInv'
    <2>1. \A x \in Objects : ~Pending(x)' => GoodNow(x)' \/ (Waits(x)' /\ hist'.calm = 0)
        <3>1. \A x : Pending(x) => Pending(x)'
            BY DEF Pending
        <3> QED
            BY <1>3, <1>5, <1>6, <3>1 DEF ApplyingInv
    <2>2. ASSUME NEW q \in PatchSet, NEW i \in DOMAIN todo', todo'[i] = q, i > 1 \/ steps' = <<>>
          PROVE  Awaits(q)'
        BY <1>5, <1>6, <2>2 DEF ApplyingInv
    <2>3. ASSUME NEW q \in PatchSet, steps' # <<>>, Current' = q, NEW ss, ss = steps'
          PROVE  Underway(q, steps)'
        <3>1. Underway(q, ss)
            BY <1>6, <2>3 DEF ApplyingInv, Current
        <3> QED
            BY <2>3, <3>1, UnderwaySame
    <2>4. hist'.calm # 0 => RepoThere'
        BY <1>6 DEF ApplyingInv, RepoThere
    <2> QED
        BY <2>1, <2>2, <2>3, <2>4 DEF ApplyingInv
<1>7. pc' = "applying" => pc = "applying"
    OBVIOUS
<1>8. pc' # "applying" => pc # "applying"
    OBVIOUS
<1> QED
    BY <1>2, <1>3, <1>4, <1>5, <1>6, <1>7, <1>8 DEF CalmInv

\* In a run in which nothing fails for reasons of its own and nobody interferes, the objects
\* whose patches are done are as configured, but for selections that were resolved too early;
\* those whose patches are still to come are as they were planned; and the requests that are
\* left of the current patch make up the rest.  For coherent configurations: they name no role
\* of the organization in a ruleset, at which every run breaks off.
THEOREM CalmInvariance == RefSpec => [](OrderInv /\ CalmInv)
<1>1. RefInit => OrderInv /\ CalmInv
    BY DEF RefInit, OrderInv, Follows, CalmInv
<1>2. AllInv /\ AllInv' /\ OrderInv /\ CalmInv /\ [RefNext]_refVars => (OrderInv /\ CalmInv)'
    <2> SUFFICES ASSUME AllInv, AllInv', OrderInv, CalmInv, [RefNext]_refVars
                 PROVE  OrderInv' /\ CalmInv'
        OBVIOUS
    <2>1. SoundState /\ TodoInv /\ StepsInv /\ StoredInv /\ HistInv
        BY AllIsSound
    <2>2. SoundState'
        BY DEF AllInv, RefInv, KeepInv, StoredInv, SoundState
    <2>3. ASSUME Disturb
          PROVE  OrderInv' /\ CalmInv'
        <3>1. hist'.disturbed /\ hist'.calm = 0 /\ todo' = todo
            BY <2>1, <2>3 DEF Disturb, HistInv
        <3> QED
            BY <2>1, <3>1, TroubleCalms
    <2>4. CASE Plan
        BY <2>1, <2>4, PlanCalms
    <2>5. CASE Begin
        BY <2>1, <2>5, BeginCalms
    <2>6. CASE Unresolved
        BY <2>1, <2>6, UnresolvedCalms
    <2>7. CASE Step
        BY <2>1, <2>2, <2>7, StepCalms
    <2>8. CASE Warn
        BY <2>8, WarnCalms
    <2>9. CASE Refuse
        BY <2>9, RefuseCalms
    <2>10. CASE StepFails
        <3>1. hist'.disturbed /\ hist'.calm = 0
            BY <2>1, <2>10 DEF StepFails, HistInv
        <3>2. todo # <<>> /\ todo' = Tail(todo)
            BY <2>1, <2>10 DEF StepFails, GiveUp, StepsInv
        <3> QED
            BY <2>1, <3>1, <3>2, TroubleCalms
    <2>11. CASE Overlook
        <3>1. hist'.disturbed /\ hist'.calm = 0
            BY <2>1, <2>11 DEF Overlook, HistInv
        <3>2. todo # <<>> /\ (todo' = todo \/ todo' = Tail(todo))
            BY <2>1, <2>11 DEF Overlook, Advance, StepsInv
        <3> QED
            BY <2>1, <3>1, <3>2, TroubleCalms
    <2>12. CASE Complete
        BY <2>12, CompleteCalms
    <2>13. CASE Again
        BY <2>13, IdleCalms DEF Again
    <2>14. CASE \E t \in Teams : OtherRemovesTeam(t)
        BY <2>3, <2>14 DEF OtherRemovesTeam
    <2>15. CASE \E a \in Apps : OtherUninstalls(a)
        BY <2>3, <2>15 DEF OtherUninstalls
    <2>16. CASE \E o \in HasActors, n \in Teams \cup Users \cup Apps \cup Roles : OtherGrants(o, n)
        BY <2>3, <2>16 DEF OtherGrants
    <2>17. CASE BreakOff
        BY <2>1, <2>17, BreakOffCalms
    <2>18. CASE UNCHANGED refVars
        BY <2>18, IdleCalms DEF refVars
    <2> QED
        BY <2>4, <2>5, <2>6, <2>7, <2>8, <2>9, <2>10, <2>11, <2>12, <2>13, <2>14, <2>15, <2>16, <2>17, <2>18
           DEF RefNext
<1> QED
    BY <1>1, <1>2, AllInvHolds, PTL DEF RefSpec

\* After a run in which nothing fails and nobody interferes each object names whom the
\* configuration names, provided that it is coherent; a patch that was refused because it came
\* too early is mended by the next run.
THEOREM RefsSettleInTwo == RefSpec => []SettlesInTwo
<1>1. AllInv /\ CalmInv => SettlesInTwo
    <2> SUFFICES ASSUME AllInv, CalmInv, pc = "done", Coherent,
                        hist.calm >= 2 \/ (hist.calm >= 1 /\ ~hist.failed), NEW o \in Objects
                 PROVE  Settled(o)
        BY DEF SettlesInTwo
    <2>1. SoundState /\ hist.calm \in Nat
        BY AllIsSound DEF HistInv
    <2>2. hist.calm # 0 /\ ~hist.disturbed
        BY <2>1 DEF CalmInv
    <2>3. GoodNow(o) \/ (Waits(o) /\ hist.calm = 1)
        BY <2>2 DEF CalmInv
    <2>4. GoodNow(o)
        BY <2>3 DEF Waits
    <2> QED
        BY <2>1, <2>4, GoodIsSettled
<1> QED
    BY <1>1, AllInvHolds, CalmInvariance, PTL

\* What is never the same when read back depends on the configuration, the apps and the teams.
LEMMA RestlessStays ==
    ASSUME config' = config, installed' = installed, ids' = ids, live'["repo"] = live["repo"], NEW o, Restless(o)
    PROVE  Restless(o)'
<1>1. /\ Named(o)' = Named(o) /\ NoRules(o)' = NoRules(o)
      /\ \A c : ReadCheck(o, c)' = ReadCheck(o, c)
      /\ \A n : Readable(o, n)' = Readable(o, n)
    BY SameConfig
<1>2. \A n : Exists(n)' = Exists(n)
    BY DEF Exists
<1> QED
    BY <1>1, <1>2 DEF Restless

\* A shorter plan is empty of the same objects.
LEMMA FewerTodo ==
    ASSUME AllInv, ThirdRunIsEmpty, config' = config, hist'.calm = hist.calm, hist'.disturbed = hist.disturbed,
           pc' = "applying" => pc = "applying",
           \A o : todo # <<>> /\ Restless(o) => Restless(o)',
           todo' = todo \/ (todo # <<>> /\ todo' = Tail(todo))
    PROVE  ThirdRunIsEmpty'
<1> SUFFICES ASSUME pc' = "applying", hist'.calm >= 2, ~hist'.disturbed, Coherent', NEW i \in DOMAIN todo'
             PROVE  Restless(todo[i].of)'
    BY DEF ThirdRunIsEmpty
<1>1. Coherent
    BY DEF Coherent, Deployable
<1>2. \A k \in DOMAIN todo : Restless(todo[k].of)
    BY <1>1 DEF ThirdRunIsEmpty
<1>3. todo \in Seq(PatchSet)
    BY DEF AllInv, RefInv, KeepInv, TodoInv
<1>4. \E k \in DOMAIN todo : todo'[i] = todo[k]
    <2>1. CASE todo' = todo
        BY <2>1
    <2>2. CASE todo # <<>> /\ todo' = Tail(todo)
        <3>1. i + 1 \in DOMAIN todo /\ todo'[i] = todo[i + 1]
            BY <1>3, <2>2
        <3> QED
            BY <3>1
    <2> QED
        BY <2>1, <2>2
<1>5. todo # <<>>
    BY <1>3, <1>4
<1>6. PICK k \in DOMAIN todo : todo'[i] = todo[k]
    BY <1>4
<1>7. ASSUME NEW o, o = todo[k].of
      PROVE  Restless(todo[i].of)'
    <2>1. Restless(o)'
        BY <1>2, <1>5, <1>6, <1>7
    <2> QED
        BY <1>6, <1>7, <2>1 DEF Restless, Named, NoRules, ReadCheck, StoredCheck, Readable, Exists,
           ReadRuleCheck, ReadBranchCheck, StoredRuleCheck, StoredBranchCheck
<1> QED
    BY <1>7

\* Once two calm runs of a coherent configuration are done a further one changes nothing, but
\* for what is never the same when it is read back.
THEOREM ThirdRunChangesNothing == RefSpec => []ThirdRunIsEmpty
<1>1. RefInit => ThirdRunIsEmpty
    BY DEF RefInit, ThirdRunIsEmpty
<1>2. AllInv /\ CalmInv /\ ThirdRunIsEmpty /\ [RefNext]_refVars => ThirdRunIsEmpty'
    <2> SUFFICES ASSUME AllInv, CalmInv, ThirdRunIsEmpty, [RefNext]_refVars
                 PROVE  ThirdRunIsEmpty'
        OBVIOUS
    <2>1. SoundState /\ TodoInv /\ StepsInv /\ HistInv
        BY AllIsSound
    <2>2. ASSUME UNCHANGED <<live, ids, installed, config>>
          PROVE  \A o : Restless(o) => Restless(o)'
        BY <2>2, RestlessStays
    <2>3. ASSUME Disturb
          PROVE  ThirdRunIsEmpty'
        <3>1. hist'.disturbed
            BY <2>1, <2>3 DEF Disturb, HistInv
        <3> QED
            BY <3>1 DEF ThirdRunIsEmpty
    <2>4. CASE Plan
        <3>1. /\ pc = "idle" /\ todo' = Patches /\ UNCHANGED <<live, ids, installed, config>>
              /\ hist'.calm = hist.calm /\ hist'.disturbed = hist.disturbed
            BY <2>1, <2>4 DEF Plan, HistInv
        <3> SUFFICES ASSUME hist'.calm >= 2, ~hist'.disturbed, Coherent', NEW i \in DOMAIN Patches,
                            NEW o, o = Patches[i].of
                     PROVE  Restless(o)'
            <4>1. ASSUME NEW i \in DOMAIN todo', NEW o, o = Patches[i].of, Restless(o)'
                  PROVE  Restless(todo[i].of)'
                BY <3>1, <4>1 DEF Restless, Named, NoRules, ReadCheck, StoredCheck, Readable, Exists,
                   ReadRuleCheck, ReadBranchCheck, StoredRuleCheck, StoredBranchCheck
            <4> QED
                BY <3>1, <4>1 DEF ThirdRunIsEmpty
        <3>2. Coherent /\ hist.calm \in Nat /\ hist.calm >= 2 /\ ~hist.disturbed
            BY <2>1, <3>1 DEF Coherent, Deployable, HistInv
        <3>3. o \in Objects /\ Patch(o) = <<Patches[i]>>
            BY PlanIsExact
        <3>4. GoodNow(o)
            BY <3>1, <3>2, <3>3 DEF CalmInv
        <3>5. Patch(o) # <<>>
            BY <3>3
        <3>6. config[o] # None /\ live[o] # None
            BY <3>4, <3>5 DEF GoodNow, Fits, IsThere, Patch
        <3>7. Differing(o) # {}
            BY <3>5, <3>6 DEF Patch
        <3>8. Restless(o)
            BY <2>1, <3>3, <3>4, <3>6, <3>7, GoodIsRestless
        <3> QED
            BY <2>2, <3>1, <3>8
    <2>5. CASE Begin
        BY <2>1, <2>2, <2>5, FewerTodo DEF Begin
    <2>6. CASE Unresolved
        <3>1. hist'.calm = hist.calm /\ hist'.disturbed = hist.disturbed
            BY <2>1, <2>6 DEF Unresolved, HistInv
        <3> QED
            BY <2>2, <2>6, <3>1, FewerTodo DEF Unresolved
    <2>7. CASE Step
        <3>1. /\ steps # <<>> /\ todo # <<>> /\ pc = "applying" /\ pc' = pc /\ config' = config
              /\ todo' = todo \/ todo' = Tail(todo)
            BY <2>1, <2>7 DEF Step, Advance, StepsInv
        <3>2. PICK o, y : o = Current.of /\ y = After(o, Head(steps))
            OBVIOUS
        <3>3. o \in Objects /\ Sound(o, Head(steps)) /\ LiveInv /\ TeamsInv
            BY <2>1, <3>1, <3>2, NextIsSound DEF SoundState
        <3>4. HistInv => /\ HistInv'
                         /\ hist'.failed = hist.failed /\ hist'.calm = hist.calm
                         /\ hist'.disturbed = hist.disturbed
            BY <2>7, <3>2, <3>3, DoneExactly
        <3> SUFFICES ASSUME hist.calm >= 2, ~hist.disturbed, Coherent
                     PROVE  ThirdRunIsEmpty'
            BY <2>1, <3>1, <3>4 DEF ThirdRunIsEmpty, Coherent, Deployable
        <3>5. Restless(o)
            BY <2>1, <3>1, <3>2 DEF ThirdRunIsEmpty, TodoInv, Current
        <3>6. o \notin Teams /\ o # "repo"
            BY <2>1, <3>3, <3>5, RestlessKinds DEF SoundState
        <3>7. ids' = ids
            BY <2>7, <3>2, <3>6 DEF Step
        <3>8. live'["repo"] = live["repo"]
            <4>1. RefInv
                BY DEF AllInv
            <4> QED
                BY <2>7, <3>2, <3>6, <4>1, StepAround, KindsOfObjects
        <3>9. \A x : Restless(x) => Restless(x)'
            BY <2>7, <3>7, <3>8, RestlessStays DEF Step
        <3> QED
            BY <2>1, <3>1, <3>4, <3>9, FewerTodo
    <2>8. CASE Warn
        <3>1. todo # <<>> /\ pc' = pc /\ (todo' = todo \/ todo' = Tail(todo)) /\ hist' = hist /\ config' = config
            BY <2>1, <2>8 DEF Warn, Advance, StepsInv
        <3> QED
            BY <2>2, <2>8, <3>1, FewerTodo DEF Warn
    <2>9. CASE Refuse
        <3>1. /\ todo # <<>> /\ pc' = pc /\ todo' = Tail(todo) /\ config' = config
              /\ hist'.calm = hist.calm /\ hist'.disturbed = hist.disturbed
            BY <2>1, <2>9 DEF Refuse, GiveUp, StepsInv, HistInv
        <3> QED
            BY <2>2, <2>9, <3>1, FewerTodo DEF Refuse, GiveUp
    <2>10. CASE StepFails
        <3>1. hist'.disturbed
            BY <2>1, <2>10 DEF StepFails, HistInv
        <3> QED
            BY <3>1 DEF ThirdRunIsEmpty
    <2>11. CASE Overlook
        <3>1. hist'.disturbed
            BY <2>1, <2>11 DEF Overlook, HistInv
        <3> QED
            BY <3>1 DEF ThirdRunIsEmpty
    <2>12. CASE Complete \/ Again
        BY <2>12 DEF Complete, Again, ThirdRunIsEmpty
    <2>13. CASE \E t \in Teams : OtherRemovesTeam(t)
        BY <2>3, <2>13 DEF OtherRemovesTeam
    <2>14. CASE \E a \in Apps : OtherUninstalls(a)
        BY <2>3, <2>14 DEF OtherUninstalls
    <2>15. CASE \E o \in HasActors, n \in Teams \cup Users \cup Apps \cup Roles : OtherGrants(o, n)
        BY <2>3, <2>15 DEF OtherGrants
    <2>16. CASE BreakOff
        BY <2>16 DEF BreakOff, ThirdRunIsEmpty
    <2>17. CASE UNCHANGED refVars
        BY <2>2, <2>17, FewerTodo DEF refVars
    <2> QED
        BY <2>4, <2>5, <2>6, <2>7, <2>8, <2>9, <2>10, <2>11, <2>12, <2>13, <2>14, <2>15, <2>16, <2>17
           DEF RefNext
<1> QED
    BY <1>1, <1>2, AllInvHolds, CalmInvariance, PTL DEF RefSpec
=============================================================================
