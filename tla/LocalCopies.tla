---------------------------- MODULE LocalCopies ----------------------------
(***************************************************************************)
(* The operations of the command line that move files between the working  *)
(* directory and a repository: fetch-config, push-config, open-pr,         *)
(* delete-file and sync-template, with the client of the contents API that *)
(* they use.  One operation runs at a time; meanwhile others commit to the *)
(* repository, and the local file is edited.                               *)
(***************************************************************************)
EXTENDS Naturals, FiniteSets

CONSTANTS
    Files,       \* paths of files in the repository
    Config,      \* the one of them that is the configuration
    Contents,    \* what a file may contain
    Valid,       \* the contents that pass the validation of a configuration
    Absent,      \* there is no such file, or branch
    Kinds,       \* the operations that are used, see Begin
    MaxRuns,     \* bound: operations
    MaxChanges,  \* bound: commits of others and local edits
    MaxFaults    \* bound: requests that fail, answers that are lost, operations that are killed

ASSUME FilesAssumption == Config \in Files /\ Valid \subseteq Contents /\ Absent \notin Contents

VARIABLES
    main,    \* GitHub: the files of the default branch
    branch,  \* GitHub: the configuration on the branch for a pull request, or Absent
    origin,  \* GitHub: what the configuration was where that branch begins
    opened,  \* GitHub: there is a pull request for that branch
    file,    \* the local file
    op,      \* the operation, or the last one
    count    \* how often each bounded event happened

vars == <<main, branch, origin, opened, file, op, count>>

Maybe == Contents \cup {Absent}

\* found is what the file to be written contained when it was read.  The fields after
\* result are for the properties: what the operation did, the files that had its content
\* then, whether an answer was lost, whether the local file was edited, and whether the
\* file to compare with, or to delete, could not be read.
NoOp == [kind |-> "none", stage |-> "idle", target |-> Config, todo |-> {}, content |-> Absent,
         found |-> Absent, from |-> Absent, result |-> "none",
         did |-> {}, had |-> {}, lost |-> FALSE, edited |-> FALSE, blind |-> FALSE]

At(stage) == op.stage = stage
Busy == op.stage # "idle"

To(stage) == op' = [op EXCEPT !.stage = stage]
Finish(result) == op' = [op EXCEPT !.stage = "idle", !.result = result]

RepositoryUnchanged == UNCHANGED <<main, branch, origin, opened>>

-----------------------------------------------------------------------------
(* Others.                                                                 *)

Changed == /\ count.changes < MaxChanges
           /\ count' = [count EXCEPT !.changes = @ + 1]

Commit(f, c) ==
    /\ Changed /\ main[f] # c
    /\ main' = [main EXCEPT ![f] = c]
    /\ UNCHANGED <<branch, origin, opened, file, op>>

\* The branch is removed, with its pull request.
Discard ==
    /\ Changed /\ branch # Absent /\ ~Busy
    /\ branch' = Absent /\ origin' = Absent /\ opened' = FALSE
    /\ UNCHANGED <<main, file, op>>

Edit(c) ==
    /\ Changed /\ file # c
    /\ file' = c
    /\ op' = [op EXCEPT !.edited = @ \/ Busy]
    /\ RepositoryUnchanged

Faulty == /\ count.faults < MaxFaults
          /\ count' = [count EXCEPT !.faults = @ + 1]

\* The operation is interrupted.
Kill ==
    /\ Busy /\ Faulty
    /\ Finish("killed")
    /\ RepositoryUnchanged /\ UNCHANGED file

-----------------------------------------------------------------------------
(* The beginning of each operation.                                        *)

Starts(kind) ==
    /\ ~Busy /\ kind \in Kinds /\ count.runs < MaxRuns
    /\ count' = [count EXCEPT !.runs = @ + 1]
    /\ RepositoryUnchanged /\ UNCHANGED file

\* What is there of the local file is overwritten with consent, or by force.
Fetch == Starts("fetch") /\ op' = [NoOp EXCEPT !.kind = "fetch", !.stage = "fetch"]

\* A push that shows the differences first is of the kind "review".
Push == \E kind \in {"push", "review"} :
    /\ Starts(kind) /\ file # Absent
    /\ op' = [NoOp EXCEPT !.kind = kind, !.content = file,
                          !.stage = IF kind = "push" THEN "read" ELSE "compare"]

OpenPR ==
    /\ Starts("open") /\ file # Absent
    /\ op' = [NoOp EXCEPT !.kind = "open", !.stage = "compare", !.content = file]

\* A repository that is archived, not configured or without a template is passed over
\* without a word; a configuration that cannot be loaded is a failure.
EndsEarly(kind) == \E r \in {"skipped", "failed"} : op' = [NoOp EXCEPT !.kind = kind, !.result = r]

DeleteFile(f) ==
    /\ Starts("delete") /\ file # Absent
    /\ \/ EndsEarly("delete")
       \/ op' = [NoOp EXCEPT !.kind = "delete", !.stage = "read", !.target = f]

\* Every file of the archive of the template repository is updated, one after the other.
SyncTemplate(f, c) ==
    /\ Starts("sync") /\ file # Absent
    /\ \/ EndsEarly("sync")
       \/ op' = [NoOp EXCEPT !.kind = "sync", !.stage = "read", !.target = f,
                             !.todo = Files \ {f}, !.content = c]

-----------------------------------------------------------------------------
(* fetch-config                                                            *)

FetchReads ==
    /\ At("fetch")
    /\ IF main[Config] = Absent THEN Finish("failed")
       ELSE op' = [op EXCEPT !.stage = "write", !.content = main[Config]]
    /\ RepositoryUnchanged /\ UNCHANGED <<file, count>>

FetchWrites ==
    /\ At("write")
    /\ file' = op.content
    /\ Finish("fetched")
    /\ RepositoryUnchanged /\ UNCHANGED count

-----------------------------------------------------------------------------
(* push-config with the differences shown, and open-pr: compare, validate, *)
(* and ask.  It is the file as it is now that is compared and validated.   *)

Reviews == UNCHANGED <<file, count>> /\ RepositoryUnchanged

\* Mutant: the result of the validation is not looked at.
Ignored == TRUE

IsValid == file \in Valid

\* A push takes any failure for a configuration that is not there yet.
NotFound == op' = [op EXCEPT !.stage = "approve", !.blind = TRUE]

CompareToPush ==
    /\ At("compare") /\ op.kind = "review"
    /\ IF main[Config] = Absent THEN NotFound
       ELSE IF main[Config] = file THEN Finish("nothing")
       ELSE To("validate")
    /\ Reviews

\* An invalid configuration is no failure of a push: there is nothing to push.
ValidateToPush ==
    /\ At("validate") /\ op.kind = "review"
    /\ IF IsValid THEN To("approve") ELSE Finish("nothing")
    /\ Reviews

ApprovePush ==
    /\ At("approve") /\ op.kind = "review"
    /\ To("read") \/ Finish("nothing")
    /\ Reviews

CompareToOpen ==
    /\ At("compare") /\ op.kind = "open"
    /\ IF main[Config] = Absent THEN Finish("failed")
       ELSE IF main[Config] = file THEN Finish("nothing")
       ELSE To("validate")
    /\ Reviews

ValidateToOpen ==
    /\ At("validate") /\ op.kind = "open"
    /\ IF IsValid THEN To("approve") ELSE Finish("failed")
    /\ Reviews

ApprovePR ==
    /\ At("approve") /\ op.kind = "open"
    /\ To("reference") \/ Finish("failed")
    /\ Reviews

-----------------------------------------------------------------------------
(* The branch of a pull request.                                           *)

Reference ==
    /\ At("reference")
    /\ op' = [op EXCEPT !.stage = "branch", !.from = main[Config]]
    /\ RepositoryUnchanged /\ UNCHANGED <<file, count>>

\* A branch of that name may be left from an operation before.
Branch ==
    /\ At("branch")
    /\ IF branch = Absent
       THEN /\ branch' = op.from /\ origin' = op.from
            /\ op' = [op EXCEPT !.stage = "read", !.did = @ \cup {"branch"}]
            /\ UNCHANGED <<main, opened>>
       ELSE Finish("failed") /\ RepositoryUnchanged
    /\ UNCHANGED <<file, count>>

-----------------------------------------------------------------------------
(* The client of the contents API: read, compare, and write what was read. *)

Target == IF op.kind = "open" THEN branch ELSE main[op.target]

Written(c) == IF op.kind = "open" THEN branch' = c /\ UNCHANGED <<main, origin, opened>>
              ELSE /\ main' = [main EXCEPT ![op.target] = c]
                   /\ UNCHANGED <<branch, origin, opened>>

NextFile(o) == LET f == CHOOSE f \in o.todo : TRUE
               IN [o EXCEPT !.stage = "read", !.target = f, !.todo = @ \ {f}]

\* The file is as it should be: what comes next.  A deletion is said to have succeeded
\* whether there was a file or not.
Onward(o) ==
    CASE o.kind = "open" -> [o EXCEPT !.stage = "pull"]
      [] o.kind = "sync" /\ o.todo # {} -> NextFile(o)
      [] o.kind = "delete" -> [o EXCEPT !.stage = "idle", !.result = "succeeded"]
      [] OTHER -> [o EXCEPT !.stage = "idle",
                            !.result = IF "put" \in o.did THEN "written" ELSE "nothing"]

Read ==
    /\ At("read")
    /\ op' = IF Target = op.content THEN Onward([op EXCEPT !.had = @ \cup {op.target}])
             ELSE [op EXCEPT !.stage = "put", !.found = Target]
    /\ RepositoryUnchanged /\ UNCHANGED <<file, count>>

\* GitHub takes a new content only with the hash of the one it replaces.
AsFound == Target = op.found

\* A write that fails is an error; the one of a deletion is never reported, for the report
\* of the result reads a variable that has no value then, and the operation crashes.
WriteError == IF op.kind = "delete" THEN "crashed" ELSE "failed"

Put ==
    /\ At("put")
    /\ IF AsFound
       THEN /\ Written(op.content)
            /\ op' = Onward([op EXCEPT !.did = @ \cup {"put"}, !.had = @ \cup {op.target}])
       ELSE Finish(WriteError) /\ RepositoryUnchanged
    /\ UNCHANGED <<file, count>>

\* A branch without a commit of its own, or with a pull request, gets no pull request.
Pull ==
    /\ At("pull")
    /\ IF branch # origin /\ ~opened
       THEN /\ opened' = TRUE
            /\ op' = [op EXCEPT !.stage = "idle", !.result = "opened", !.did = @ \cup {"pull"}]
            /\ UNCHANGED <<main, branch, origin>>
       ELSE Finish("failed") /\ RepositoryUnchanged
    /\ UNCHANGED <<file, count>>

-----------------------------------------------------------------------------
(* Faults.                                                                 *)

\* Mutant: a write that failed is passed over.
Swallowed == IF At("put") THEN op' = Onward(op) ELSE Finish("failed")

\* A request fails in all its attempts.  What cannot be read before it is written is
\* taken for a file that is not there: nothing is deleted then, which is said to be done.
RequestFails ==
    CASE At("compare") /\ op.kind = "review" -> NotFound
      [] At("read") /\ op.kind = "delete" -> op' = Onward([op EXCEPT !.blind = TRUE])
      [] At("read") /\ op.kind # "delete" -> op' = [op EXCEPT !.stage = "put", !.found = Absent]
      [] At("put") -> Finish(WriteError)
      [] OTHER -> Finish("failed")

Fail ==
    /\ op.stage \in {"fetch", "compare", "reference", "branch", "read", "put", "pull"}
    /\ Faulty
    /\ RequestFails
    /\ RepositoryUnchanged /\ UNCHANGED file

\* A request takes effect but its answer is lost: sent again, it is refused.
LoseAnswer ==
    /\ Faulty
    /\ \/ /\ At("branch") /\ branch = Absent
          /\ branch' = op.from /\ origin' = op.from
          /\ UNCHANGED <<main, opened>>
       \/ /\ At("put") /\ AsFound
          /\ Written(op.content)
       \/ /\ At("pull") /\ branch # origin /\ ~opened
          /\ opened' = TRUE
          /\ UNCHANGED <<main, branch, origin>>
    /\ op' = [op EXCEPT !.stage = "idle", !.result = IF At("put") THEN WriteError ELSE "failed",
                     !.lost = TRUE, !.did = @ \cup {op.stage}]
    /\ UNCHANGED file

-----------------------------------------------------------------------------
Init ==
    /\ main \in [Files -> Maybe]
    /\ branch = Absent /\ origin = Absent /\ opened = FALSE
    /\ file \in Maybe
    /\ op = NoOp
    /\ count = [runs |-> 0, changes |-> 0, faults |-> 0]

Next ==
    \/ \E c \in Contents : Edit(c) \/ \E f \in Files : Commit(f, c)
    \/ Discard \/ Kill
    \/ Fetch \/ Push \/ OpenPR
    \/ \E f \in Files : DeleteFile(f) \/ \E c \in Contents : SyncTemplate(f, c)
    \/ FetchReads \/ FetchWrites
    \/ CompareToPush \/ ValidateToPush \/ ApprovePush
    \/ CompareToOpen \/ ValidateToOpen \/ ApprovePR \/ Reference \/ Branch
    \/ Read \/ Put \/ Pull
    \/ Fail \/ LoseAnswer

Spec == Init /\ [][Next]_vars

-----------------------------------------------------------------------------
(* Properties.                                                             *)

\* The values of the variables.
Operation ==
    [kind : {"none", "fetch", "push", "review", "open", "delete", "sync"},
     stage : {"idle", "fetch", "write", "compare", "validate", "approve",
              "reference", "branch", "read", "put", "pull"},
     target : Files, todo : SUBSET Files, content : Maybe, found : Maybe, from : Maybe,
     result : {"none", "killed", "fetched", "failed", "nothing", "written", "opened",
               "skipped", "succeeded", "crashed"},
     did : SUBSET {"branch", "put", "pull"}, had : SUBSET Files,
     lost : BOOLEAN, edited : BOOLEAN, blind : BOOLEAN]

TypeOK ==
    /\ main \in [Files -> Maybe] /\ {branch, origin, file} \subseteq Maybe /\ opened \in BOOLEAN
    /\ op \in Operation
    /\ count \in [runs : Nat, changes : Nat, faults : Nat]

\* The outcome that an operation reports is what happened: a push or a synchronization
\* without a failure leaves every file as it should be, a pull request that is reported
\* has its branch and its change, and nothing was written by what failed, crashed or had
\* nothing to do, unless the answer to a request was lost.  What delete-file calls a success
\* left no such file, but for one case, in which the report is false: the file could not be
\* read.  It has no report of a failure: it crashes then.
ReportedIsTrue ==
    /\ op.result \in {"nothing", "written"} /\ op.kind = "push" => op.had = {Config}
    /\ op.result \in {"nothing", "written"} /\ op.kind = "sync" => op.had = Files
    /\ op.result = "succeeded" => op.had = {op.target} \/ (op.blind /\ op.did = {})
    /\ op.result = "opened" => op.did = {"branch", "put", "pull"}
    /\ op.result = "nothing" => op.did = {}
    /\ op.result \in {"failed", "crashed"} /\ op.kind \notin {"open", "sync"} /\ ~op.lost => op.did = {}

\* A configuration that is written after its differences were shown is valid, unless the
\* local file was edited while they were, or the one to compare with could not be read.
ReviewedIsValid ==
    op.kind \in {"review", "open"} /\ "put" \in op.did => 
        op.content \in Valid \/ op.edited \/ op.blind
=============================================================================
