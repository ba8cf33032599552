# Otterdog in TLA+

Otterdog keeps GitHub organizations as they are described in a configuration
repository. It is a command line tool (`otterdog plan`, `apply`, ...) and a web
app, the self-service bot, that answers GitHub's webhooks. This directory holds
TLA+ modules that model the parts of it that are hard to test, the TLC
configurations that check them on small instances, and proofs, checked by
TLAPS, of what holds for every value of the constants.

Paths below are relative to the root of the repository; `tasks/` is
`otterdog/webapp/tasks/`, `service.py` is `otterdog/webapp/db/service.py`.

1. [The system](#1-the-system)
2. [The modules](#2-the-modules)
3. [What the runs check](#3-what-the-runs-check)
4. [Fairness](#4-fairness)
5. [What is proved](#5-what-is-proved)
6. [What is only model-checked, and what is not modelled](#6-what-is-only-model-checked-and-what-is-not-modelled)
7. [Plan](#7-plan)

## 1. The system

The web app runs on one event loop. A webhook handler adds background tasks
(`current_app.add_background_task`) and returns; each task is a coroutine,
`Task.execute` (`tasks/__init__.py`), that runs `_pre_execute`, `_execute` and
`_post_execute` and may be interrupted at each `await`. Tasks hold no lock,
live in memory only, and share MongoDB, GitHub and the live organization. GitHub
does not deliver a webhook again by itself. These are the components.

| Component | State it keeps | Operations | Interacts with | What is hard | What makes it correct |
|---|---|---|---|---|---|
| Pull request tasks and their record (`webhook/github_webhook.py`, `tasks/{update,validate,merge,complete}_pull_request.py`, `tasks/apply_changes.py`, `service.py`) | `PullRequestModel`: status, validity, eligibility, approvals, apply status | a task per event or comment: update, validate, team membership, announce, merge, apply, done, import | GitHub (events, merge), the apply operation, MongoDB | tasks of several events overlap; find and save are apart; snapshots go stale; events are lost; the app restarts | nothing is written before the merge or from another commit; the bot acts on evidence; records are explained by what happened; a quiet merge is applied |
| Applying the history (`tasks/apply_changes.py`, `operations/local_apply.py`) | the default branch, the live settings | compare two commits, write the differences | pull request tasks, apply operation | applies are not serialized; the base depends on the kind of merge and on the time; repeats | completed means written; settings end up as in the last commit |
| Apply operation (`operations/apply.py`, `operations/diff_operation.py`, `models/`) | the live organization; the list of patches | plan, order the patches, send their requests | REST and GraphQL clients, jsonnet | partial failure, order of patches, renames, archiving, retried requests | a clean run converges; failures stay local; nothing disappears unasked |
| Settings, references (`models/*settings.py`, `models/{ruleset,branch_protection_rule,environment,team}.py`, `rest/{org,repo,team}_client.py`) | settings and objects at GitHub | which fields are compared and sent, with which companions, in which requests; names resolved to ids | apply operation | settings that mask or need each other, names of objects that come later, refusals midway | two runs settle everything, a third one is empty |
| Blueprints (`webapp/blueprints/`, `tasks/blueprints/`, `internal/routes.py`) | `BlueprintModel`, `BlueprintStatusModel`; a branch and pull requests in the repository | fetch, round of checks, check after a push, remediation, status update, deletion of the branch | webhooks, GitHub, MongoDB | rounds, pushes and users' actions overlap; read-modify-write of both documents; faults between branch and commit | a dismissal stands; a settled status is true; remediations and rechecks happen |
| Matching live and configured objects (`models/__init__.py`, `models/webhook.py`, `models/secret.py`) | none | `generate_live_patch_of_list`, `get_keys`, wildcards, aliases, redacted secrets, import | apply operation, credentials | entries and live objects that share keys, placeholders, first pages | a secret is never a placeholder; a clean run settles what it could see |
| In-sync check (`tasks/check_sync.py`) | `in_sync` of a pull request; a status of each commit, a comment | compare the default branch with the live organization after a push or on request; carry over an earlier status | GitHub, apply operation, MongoDB | checks overlap, are skipped, fail midway, run while others write | a check left in peace tells the truth; no commit stays pending |
| Installations and configurations (`service.py`, `webapp/utils.py`, `tasks/fetch_config.py`, `internal/routes.py`) | `InstallationModel`, `ConfigurationModel` | init, install, suspend, unsuspend, remove, fetch | webhooks, registry, GitHub | events overtake each other; lists and answers go stale; unique project names | events suffice if they come one at a time; an undisturbed init repairs the rest |
| Policies (`webapp/policies/`, `tasks/fetch_policies.py`, `tasks/policies/`) | `PolicyModel`, `PolicyStatusModel` | fetch, evaluate on workflow events | webhooks | overlapping fetches, global policies that change | the last definition is in force (fetch only) |
| GitHub clients (`providers/github/`, `webapp/utils.py`) | connection, cached token, file cache with entity tags | requests, paging, retries | everything above | lists that change between pages, tokens that expire, retries of what was carried out | a quiet read is exact, and every read ends |
| Web UI provider (`providers/github/web.py`) | a browser session | settings that have no API | apply operation | wording of pages | out of scope |
| Validation rules (`models/*.py`) | none | `validate` | plan | combinations of settings | what is valid is accepted by GitHub (with `Settings`, `References`) |
| Templates and jsonnet (`otterdog/jsonnet.py`, `otterdog/config.py`) | checked out templates | evaluate | plan | an external language | out of scope |
| Credentials (`otterdog/credentials/`) | none | look up | plan, clients | external stores; resolved when and how often | part of `SecretsAndWebhooks` |
| Other command line operations (`otterdog/operations/`) | local files, a branch | fetch, push, open a pull request, sync a template, delete a file, import, show | clients | others commit meanwhile, lost answers | reports are true, what was reviewed is what is written |
| Dashboard, API, login (`webapp/home`, `webapp/api`, `webapp/auth`) | sessions | read-only views | MongoDB | - | out of scope |
| Webhook reception (`webapp/webhook/github_webhook.py`) | none | verify, dispatch | handlers | - | out of scope |

`PROJECT.json` lists the same components with their status, and under `hazards`
each place where something can go wrong that a test would hardly reach, with the
properties that watch over it.

## 2. The modules

| Module | What it is |
|---|---|
| `PullRequestTasks` | one pull request of a configuration repository, its record, and all tasks about it |
| `MergeThenApply` | what the bot promises about a pull request; implemented by `PullRequestTasks` |
| `PullRequestTasks_proofs` | its inductive invariant, its safety properties and the refinement |
| `ConfigHistory` | several pull requests, the history of the default branch, overlapping applies |
| `LiveFollowsHistory` | live settings only take values from commits that changed them; implemented by `ConfigHistory` |
| `ConfigHistory_proofs` | its invariants, for three kinds of histories, its safety properties and the refinement |
| `ApplyOperation` | plan, order and requests of `otterdog apply` on repositories |
| `ApplyOperation_proofs` | lemmas on sequences and matching, its inductive invariants and all its safety properties |
| `Blueprints` | a blueprint, its status and its remediation pull requests |
| `Blueprints_proofs` | its inductive invariants, types, that a dismissal stands and that a settled status is true |
| `Settings` | the settings of an organization, a repository and a branch protection rule: masks, companions, requests |
| `References` | teams, rules, environments, secrets and variables that name each other |
| `SecretsAndWebhooks` | matching by alias and wildcard, redacted secrets, credentials, import |
| `SecretsAndWebhooks_proofs` | its inductive invariant, types and that keys stay unique, that no placeholder becomes a secret, that a clean run settles |
| `Installations` | the registry, installations and fetched configurations in the database |
| `PagedReads` | reading lists page by page, with retries and a cached token |
| `PagesAndInstallations_proofs` | of `PagedReads` the inductive invariant, exact reads and failures that have a cause; of `Installations` the inductive invariant, types, that events suffice and that an init repairs |
| `LocalCopies` | files between the working directory and a repository |
| `LocalCopiesAndReferences_proofs` | of `LocalCopies` the inductive invariant, types, true reports, valid reviews; of `References` the inductive invariants, types, that nobody is lost between two requests, that two runs settle and that a third one changes nothing |
| `SyncCheck` | the sync checks of one pull request |
| `SyncCheckAndSettings_proofs` | of `SyncCheck` the inductive invariant, and that a check left in peace is true; of `Settings` the inductive invariants, types, that a valid configuration is not refused, and that one run, or two, settle |
| `MC...` | instances for TLC, and properties that a text of the repository states and the code does not keep |

The modules are layered by what they leave to each other. `PullRequestTasks` has
the apply as one step with a nondeterministic outcome and decides which commit
reaches it; `ConfigHistory` starts where it ends (every pull request is valid and
needs nothing by hand) and has the patches of an apply one by one, for settings
that are independent; `ApplyOperation` has what the patches of real repositories
are, in which order they are sent, and what becomes of the requests. `Settings` and
`References` open up what is one member of a repository there: what a patch of
settings carries, and how patches depend on each other through names.
`SecretsAndWebhooks` does the same for the matching, and adds what happens to secrets
on their way. `PagedReads` is below them all: they take the listing of live objects
as one step (in `SecretsAndWebhooks`, of one page). `SyncCheck` stands beside
`PullRequestTasks`, with the comparison as one step. `Blueprints`, `Installations` and
`LocalCopies` share nothing with them but the event loop and GitHub.

In each module a step is what a task or a process does between two awaits that
touch shared state. History variables (`hist`, `past` in `Settings`) are never read by an action, and
`count` (`happened` in `Installations` and `References`, `times` in `Settings`) only
bounds how often users, faults and repeats happen. Operators called
"Mutant" in their comments are changed versions of the definitions after them:
each stands for a plausible bug, and replacing the definition by it makes TLC
find the property violated that `PROJECT.json` names. They are not part of the
model.

### PullRequestTasks

| State | Code |
|---|---|
| `gh`, `branch`, `kind` | the pull request and its branch at GitHub; `kind[h]` is what a validation would find out about commit `h` |
| `doc` | the `PullRequestModel` document |
| `tasks` | coroutines that have not ended, with the snapshot of the webhook (`snap`), the document they found (`found`) and what they are about to write (`args`) |
| `live` | the commits from which settings were written |
| `announced` | auto-merge comments |

User actions are `Push`, `Close`, `Reopen`, `ToggleDraft`, `Review`, `MergeByUser`
and `Request` (a comment `/otterdog ...`, or lifting a suspension of the app, which
imports pull requests). Each is followed by the tasks that
`on_pull_request_received`, `on_pull_request_review_received` or
`on_issue_comment_received` add (`OnOpened`, `OnSynchronized`, ...), or the event
is lost. `Find` and `Save` are the two halves of `update_or_create_pull_request`:
a new instance is written in full (`Saved`), an existing one only in the fields
that were assigned, over whatever is stored by then. `CheckMerge` and
`MergeByTask`, `CheckApply`, `ApplyChanges` and `SaveApplyStatus`, `CheckDone` are
the stages of the tasks of these names; guards that end a task early are in their
`IF`. `Raise` and `Restart` are an exception in a task and a restart of the app.

Abstractions: the teams of a user are a role; of reviews only whether a project
lead has approved; commit statuses and other comments are left out, and so is
`CheckConfigurationInSyncTask` (see `SyncCheck`), which writes the same fields as
`UpdatePullRequestTask` and `in_sync`, which nothing here reads. The base of a pull
request is the default branch. A validation depends on the commit alone. What
odmantic's `save` writes, and what GitHub refuses to merge, is taken from how the
code uses them.

### ConfigHistory

`main` is the default branch along first parents, each commit with its
configuration and its number of parents; `prs[p]` holds what the pull request
changes (`edit`), where it was opened (`base`), where it was merged, and its
`apply_status`. `Merge` adds one commit (squash), one with two parents (merge) or
one or two (rebase). `Plan` is the choice of the base in `ApplyChangesTask._execute`
(`BaseOf`) and the comparison of `LocalApplyOperation`; `Write` and `FailToWrite`
are the loop of `handle_finish`; `SaveApplyStatus` is `_post_execute`; `Die` is a
task that ends without its save; `Retry` is an apply command.

### ApplyOperation

`Plan` is `DiffOperation._generate_diff_internal` with `generate_live_patch`: live
and configured repositories are matched by name and alias in the order in which
GitHub lists them (`Takes`), differences become patches (`Changes`, `Addition`,
`Removal`) with the requests that the client sends for them (`UpdateRepo`,
`AddRepo`), and `InOrder` moves patches that make their repository readonly to the
end. `Succeed`, `Fail`, `LoseAnswer` and `Abort` are what may happen to the request
that is sent now: done; refused or failed, which ends the patch and is counted;
done but repeated by the client's retry; an error that ends the run. `Skip` passes
over removals without `--delete-resources`. `Drift` is a change in the web UI. A
repository has one member for each way its settings are treated (`desc`, `topics`,
`hook`, `rule`, `archived`); reading the live organization is one step, and the
prompt is answered with yes. `Possible` and `Effect` are GitHub's side.

### Blueprints

`defined` is the blueprint in the configuration repository, `model` its document,
`status` the `BlueprintStatusModel` of the one repository, `file` and `branch` what
that repository holds on the default branch and on `otterdog/blueprint/<id>`,
`prs` the pull requests. A fetch (`ReadDefinition`, `FindModel`, `SaveModel`) stores
the definition as `update_or_create_blueprint` does, field by field; a round
(`StartRound`, `Evaluate`, `SaveRound`) is `/internal/check`; a push schedules
`CheckAfterPush`; a check goes through `SkipDismissed`, `LookAtFile`,
`LookForBranch`, `CreateBranch`, `UpdateContent`, `FindPullRequest`,
`OpenPullRequest` and `SaveStatus`, and stores a failure wherever it raises
(`Fails`, `Raise`). Closing, merging or reopening the pull request schedules
`FindStatus`/`UpdateStatus` and `DeleteBranch`.

Abstractions: one blueprint that requires one file, in one repository; path, name
and description are one label; blueprints of other types take the same steps. A
round is started when everything the round before had scheduled has ended, which
is what an interval of hours amounts to. The selection of repositories, the
clean-up of blueprints that were removed, and comments are left out.

### Settings

`org`, `repo` and `branches` are GitHub, `config` what is configured, `base` the
configuration that was applied before. `PlanRun` is `generate_live_patch` of
`OrganizationSettings`, `OrganizationWorkflowSettings`, `Repository` and
`RepositoryWorkflowSettings`, either against GitHub or against `base`
(`LocalApplyOperation`): `CoercedRepo` and `CoercedFlow` leave out what the organization decides
(`coerce_from_org_settings`), `OrgIncluded` and `RepoIncluded` are the fields that `include_field_for_diff` and its
relatives let through, `Companions` the ones that have to be sent along (squash title
with message, the parts of pages). Each patch becomes the requests of `update_repo`
or `update_org_settings`, sent by `UpdateOrg`, `UpdateProperty`, `UpdateRepo`,
`UpdateScanning`, `UpdatePages`, `UpdateDefaultBranch`; `Refuse` is GitHub's refusal,
`GoesWrong` a failure without reason, and either ends the patch. `IsValid` is `validate`.
A value is one of a few strings, `"unset"` is `UNSET`, `"malformed"` what no rule of
GitHub allows.

### References

`live` has an object of each kind, `ids` the identities of teams (a team that is
removed and added again is another one), `installed` the apps. An object is what it
names (`refs`), its own entries (`checks`) and the rest (`data`). `AsRead` is what the
clients make of GitHub's answer, with identities that belong to nobody skipped;
`Plan` compares it with the configuration in the order of
`GitHubOrganization.generate_live_patch`. A patch is applied request by request
(`Step`), its names being resolved when its turn comes (`Resolvable`, `Unresolved`; a
ruleset takes the number of an app as well, `Checkable`); a role of the organization in a
ruleset is a `KeyError`, which ends the run (`BreakOff`);
`Refuse` and `StepFails` end it, and `Overlook` is a GraphQL mutation that is refused with
status 200. What is selected of a secret or a variable that everybody sees is resolved and
sent, but neither stored nor wanted (`Named`): the validation says that it is ignored
(`organization_variable.py:58-63`). Others change teams and apps in between. `AddThenRemove` is the order in
which lists of members, policies and repositories are brought up to date.

### SecretsAndWebhooks

The objects of one kind of one owner: `live` as GitHub lists them, `config` as they
are configured, `base` as the app applied them last, `vault` the credentials. A key
is a sequence of parts, so that a wildcard is a prefix. The plan (`Planned`) is
`generate_live_patch_of_list` with `Webhook.generate_live_patch` and
`Secret.generate_live_patch`; `ResolvingFails` and `WithValues` are
`resolve_secrets`, which comes after it; before it comes the validation, which cannot split a
secret with two colons (`ValidationFails`, `secret.py:52`). `UserApply` may ask for secrets or webhooks
to be updated or to be left alone; `AppApply` is the apply after a merge, without
credentials; `Import` is `import_configuration`, which copies secrets from the
previous configuration. `Apply`, `Fail` and `Finish` are the loop over the patches.

### Installations

`github` knows where the app is installed and the head of each configuration,
`versions` the registry; `doc` and `stored` are the database; `tasks` is the bag of
events and tasks that wait or are under way, each with the stage it has reached and
what it has `seen`. `Publish` and `Pushed` are pushes to the registry and to an
organization (`on_push_received`), `CreatedBegins` to `CreatedSaves`, `Deleted`,
`Suspended`, `Unsuspended` the installation events, `InitBegins`, `Applies`, `Lists`,
`Saves` the init route (the first two also a push to the registry), and `FetchBegins`,
`FetchReads`, `FetchSaves` the tasks that fetch a configuration or policies. `Fails`
is a request to GitHub that fails, wherever GitHub is asked (`AsksGitHub`); that the global
policies are taken for none when they cannot be listed (`webapp/utils.py:241-244`) is left
out. `NameTaken` is the unique index on project names.

### PagedReads

Items are numbers that GitHub lists in order. A read goes by page number (`rest`),
by cursor (`graphql`), by cursor after a first page that came with its owner
(`actors`, read again from the start, and `team`, with the cursor of that first
page: see below). `Answer`, `Fault` and `RateLimit` are what may become of a request;
`Begin` takes the cached token if it is valid for longer than `Buffer`, or a new one.

### LocalCopies

`main` is the default branch, `branch` and `opened` the branch of `open-pr` and its
pull request, `file` the local configuration. `op` is the operation under way, its
`stage` the request that comes next: `push` with `--force` and `review` without it,
`open`, `fetch`, `delete`, `sync`. `Read` and `Put` are `ContentClient.update_content`.
`EndsEarly` is a repository that is archived, not configured or without a template, for
which `delete-file` and `sync-template` do nothing and return 0, or a configuration that
cannot be loaded. `delete-file` has its own outcomes: it prints "succeeded" whether there
was a file or not, and when its write fails it reads a variable without a value
(`delete_file.py:96`) and crashes before it reports the error (`WriteError`).
Others commit and the user edits; `Fail`, `LoseAnswer` and `Kill` are the faults.

### SyncCheck

`head` and `live` are versions of the configuration and of the settings, `commits`
and `statuses` the commits of the pull request with the newest status of the check and
the newest one that is not pending, `record` the field `in_sync`, `comments` the
comments that are not minimized. `Push`, `Reopen` and `Ask` are the events that start a
task. `Skip` and `Prepare` are the two ends of `_pre_execute`, `Announce` its pending
status, `Fetch` to `Comment` the stages of `_execute`, `Report` and `Save`
`_update_final_status`, `ReportFailure` the rest of `_post_execute`. `Abort` is a plan
that a `RuntimeError` ends without calling back, `Fail` any other exception, `Restart`
loses the tasks. A commit is as old as its push. The pause of a minute between checks is
left out.

## 3. What the runs check

| Run | Configuration | Result | What it shows |
|---|---|---|---|
| `pull_request_races` | `MCPullRequestTasks.cfg` | passes | six invariants and `ImplementsMergeThenApply`, tasks of several events overlapping |
| `pull_request_faults` | `MCPullRequestTasksFaults.cfg` | passes | `QuietMergeIsApplied` with a lost event, an exception and a restart, every command |
| `config_history` | `MCConfigHistory.cfg` | passes | `CompletedWasWritten`, `UncontestedIsInSync`, `OrderlyIsInSync` and `ImplementsLiveFollowsHistory` for squash merges whose applies overlap, fail, die and are repeated |
| `apply_operation` | `MCApplyOperation.cfg` | passes | convergence, isolation of failures, archiving last of what keeps its name, nothing vanishes |
| `blueprints` | `MCBlueprints.cfg` | passes | types, `DismissalStands`, `StatusIsTrue`, `RecheckHappens`, `RemediationIsPrepared` |
| `settings` | `MCSettings.cfg` | passes | `SettlesAtOnce`, `SettlesInTwo`, `ValidIsAccepted` |
| `references` | `MCReferences.cfg` | passes | `SettlesInTwo`, `ThirdRunIsEmpty`, `NobodyLosesInBetween` |
| `secrets_and_webhooks` | `MCSecretsAndWebhooks.cfg` | passes | `SecretsAreSecret`, `CleanRunSettles` |
| `installations` | `MCInstallations.cfg` | passes | `InitRepairs`, `EventsSuffice` |
| `paged_reads` | `MCPagedReads.cfg` | passes | `ReadsAreExact`, `FailuresHaveACause`, `ReadsEnd` |
| `local_copies` | `MCLocalCopies.cfg` | passes | `ReportedIsTrue`, `ReviewedIsValid` |
| `sync_check` | `MCSyncCheck.cfg` | passes | `CalmCheckIsTrue`, `EveryCommitIsDecided`, with checks that overlap, are skipped, fail or are lost |

Thirteen more configurations show disagreements between the repository's texts and its
code. They are kept beside the runs of `PROJECT.json`, which all pass; TLC finds each
of these properties violated:

| Configuration | Property | What the code does | What it contradicts |
|---|---|---|---|
| `MCPullRequestTasksPushed.cfg` | `BotMergesOnlyEligible` | the bot merges the head of the moment on evidence of an earlier commit (`merge_pull_request.py:103`) | `otterdog/webapp/templates/comment/help_comment.txt:22` |
| `MCPullRequestTasksEarlyMerge.cfg` | `MergeIsApplied` | a pull request merged during its first validation is never applied (`apply_changes.py:101`) | `docs/userguide/workflow.md:53` |
| `MCConfigHistoryMerge.cfg` | `EveryMergeIsApplied` | with merge commits, `HEAD~1` at the time of the apply is the wrong base after another merge (`apply_changes.py:169`) | `docs/userguide/workflow.md:53` |
| `MCConfigHistoryRebase.cfg` | `EveryMergeIsApplied` | of two rebased commits only the last is applied (`apply_changes.py:168`) | `docs/userguide/workflow.md:53` |
| `MCApplyOperationArchive.cfg` | `ArchivedAsConfigured` | topics that change together with archiving are sent too late (`repo_client.py:128`) | `otterdog/models/repository.py:1312` |
| `MCApplyOperationRename.cfg` | `RenamedArchivedAsConfigured` | the hooks and rules of a repository that is renamed and archived at once are sent to its new name, before the one patch that renames and archives it; they fail, and it is archived all the same (`apply.py:135`, `repo_webhook.py:45-53`) | `otterdog/models/repository.py:1312` |
| `MCApplyOperationAlias.cfg` | `ConfiguredIsNotDeleted` | a repository whose name is the alias of another is removed (`models/__init__.py:784`) | `docs/userguide/renaming.md:33` |
| `MCSettingsUnmasked.cfg` | `MergeIsApplied` | the apply of a merge compares two configurations, and takes what the older one masked (secret scanning of a private repository) for applied (`models/repository.py:736`) | `docs/userguide/workflow.md:53` |
| `MCBlueprintsRedefined.cfg` | `ConfigurationIsFetched` | a push that changes name and configuration of a blueprint stores only the name (`service.py:891`) | `docs/reference/blueprints/index.md:10` |
| `MCPagedReadsTeam.cfg` | `PermissionsAreRead` | the cursor of the caller overrides each cursor that GitHub returns, and the repositories of a team with more than two pages are read forever (`graphql.py:308`) | `graphql.py:263-265` |
| `MCSyncCheckCarried.cfg` | `CarriedOverIsTheSame` | the final status is always `success`, so that a verdict that is carried over is "in sync" (`tasks/check_sync.py:248`) | `tasks/check_sync.py:122` |
| `MCSyncCheckSkipped.cfg` | `SkippedIfChecked` | the hour counts from the previous commit, so that checks are skipped for longer than an hour (`tasks/check_sync.py:108`) | `tasks/check_sync.py:92-93` |
| `MCSyncCheckAborted.cfg` | `InSyncIsTrue` | a plan that a `RuntimeError` ends makes no callback and counts as in sync (`tasks/check_sync.py:164`) | `otterdog/webapp/templates/comment/help_comment.txt:21` |

### The properties

* `CompletedOnlyIfMerged`, `LiveOnlyFromMergeCommit`, `LiveNeedsValidation`: the
  record never runs ahead of the merge, and nothing but the merged commit, of a
  pull request that some validation called valid, reaches the organization, although
  several tasks replace each other's writes.
* `BotNeedsEvidence`: the bot merges and announces only if it has seen a commit
  that qualifies and may rely on the author or on an approval. That it is the
  commit that gets merged does not hold (`MCPullRequestTasksPushed.cfg`).
* `CompletedIsAccountedFor`: the four ways to `COMPLETED`. The last one is a
  surprise: a merge commit that is invalid leaves no patches, which counts as a
  success.
* `QuietMergeIsApplied`: a merge that finds no task in flight and a record that says
  valid is applied, or the attempt failed, the app restarted, or a later validation
  changed the record. Without the quiet it does not hold (`MCPullRequestTasksEarlyMerge.cfg`).
* `CompletedWasWritten`, `UncontestedIsInSync`, `OrderlyIsInSync`: what one can rely
  on although applies are not serialized. That the organization is always at the
  head of the default branch once all is completed is not promised by the code, and
  not true: the condition of `OrderlyIsInSync` is what it takes.
* `CleanRunSettles`, `FailuresAreIsolated`, `NothingVanishes`: see their comments for
  the cases each excludes. A repository that is created archived needs a second run; a
  repository and an alias of it that are both live are the subject of
  `MCApplyOperationAlias.cfg`.
* `ChildrenBeforeArchiving`: from the moment a run archives a repository its hooks and
  rules are as configured, also if the run fails or ends midway. Two things are out of it.
  A hook or a rule whose own request failed is not waited for (`hist.spoilt`: exactly
  that one is excused, and what somebody changes in the web UI). And a repository that is
  renamed and archived by the same run is archived without them
  (`MCApplyOperationRename.cfg`), so the property is about those that keep their name;
  `hist.archives` has the others too, under the old name and the new one.
* `SettlesAtOnce`, `SettlesInTwo`, `ValidIsAccepted`: a run leaves three things for the
  next one, settings that the organization masked until then, those that another setting of
  the repository masked (`Excepted`; the approval policy of a repository that was private until
  then among them), and code scanning that is
  enabled together with the workflows it needs (it is sent first and refused); two runs
  leave nothing. The apply of a merge leaves a fourth: what the older configuration says but
  masks counts as applied (`TakenForApplied`), and a push protection that relies on it is
  refused. Where the organization allows no more actions than the configuration of
  the repository, a repository that is live with fewer stays so (`repo_workflow_settings.py:56`).
* `SettlesInTwo`, `ThirdRunIsEmpty` (of `References`): what is too early (a secret for a
  repository of the same run, `providers/github/__init__.py:470`) or too late is mended
  by the next run, if the configuration is `Coherent`. It is not if a ruleset names a role
  of the organization: the code knows none but GitHub's own (`ruleset.py:640`), and the
  `KeyError` is not one of the errors that end a patch only (`apply.py:148`), so each run
  breaks off there (`BreakOff`). The comments name what is never
  read back as it was written: contexts that change their form, actors that
  cannot be read, a ruleset that loses all its rules and keeps them (`ruleset.py:746`).
* `NobodyLosesInBetween`: lists are changed by additions first or sent as a whole, so that
  a member, reviewer, actor or repository that stays is there all the time, whichever
  request fails and although identities were looked up some requests ago.
* `SecretsAreSecret`, `CleanRunSettles` (of `SecretsAndWebhooks`): the interplay of
  placeholders, providers, import and the app. Excused are listings that do not fit on
  a page and runs that end early, as with a second match of a wildcard.
* `EventsSuffice`, `InitRepairs`: without overlaps the database follows registry,
  GitHub and repositories by events alone, except for policies that change during a
  suspension; and an init that runs undisturbed repairs whatever overlaps have done,
  except for organizations that GitHub does not list any more and names in conflict.
* `ReadsAreExact`, `FailuresHaveACause`, `ReadsEnd`: what a caller may rely on; the token
  lasts under the assumption of the comment at `webapp/utils.py:87`.
* `ReportedIsTrue`, `ReviewedIsValid`: with the excuses their comments
  name: an answer that was lost, a file that was edited during the operation, a
  comparison that was skipped because the configuration could not be read. One report is
  false: `delete-file` takes a file that it cannot read for one that is not there, and says
  that the deletion succeeded (`content_client.py:139`, `delete_file.py:99`). That a commit
  of others is not overwritten between the read and the write of `update_content` is
  GitHub's own check and not a property here; one between the difference that was
  shown and that read is overwritten, with consent to something else.
* `CalmCheckIsTrue`, `EveryCommitIsDecided`: a check that compares, with no other check
  under way and nothing changing, brings record, comment and status in line with the
  settings, whatever overlapping or failed checks have left behind; and no commit keeps
  a pending status unless a restart, or a failure before the commit is known, loses the task.
* `DismissalStands`: once a dismissal has settled (no task in flight, no open pull
  request) no check overwrites it or prepares another remediation until a user
  reopens one, unless the very look-up of the dismissal fails.
* `StatusIsTrue`: if users acted on a settled app only, merged what complies, and
  there was no fault, then whenever the app has settled, the stored status agrees
  with the repository and its pull requests.
* `RecheckHappens`, `RemediationIsPrepared`: a merged remediation is rechecked
  eventually, with faults and in any order of events; a repository that does not
  comply gets an open pull request, under the condition of `StatusIsTrue`.

### The bounds and why they are enough

* `PullRequestTasks`: two commits suffice for every race between a push and a task,
  since tasks distinguish only the commit they saw and the current one. Three user
  actions on top of the opening, with one task in flight when a user acts
  (`MaxBusy = 1`: then up to four more are added), give every pair of deliveries
  that overlap, followed by another. Longer overlaps are what the proofs are for: the
  six safety properties of `pull_request_races` and the refinement are proved for any
  `MaxBusy`. Between the two passing runs every kind and every command occurs.
* `ConfigHistory`: two pull requests, two settings, two values: a setting that both
  change, one that only one of them changes, and an older value that comes back.
  One repeat and one failure give overlapping applies of one pull request, and a
  partial one.
* `ApplyOperation`: repository `a` in any combination of its settings, `b` missing
  or plain; configurations with either, both, with `a` renamed to `b`, and with an
  alias that is live. Two runs, one drift and one failing, lost or aborting request.
* `Blueprints`: three user actions, a fault counting as two of them, so that a fault
  comes before or after one user action; a remediation, its merge or close and what
  follows it need two actions. `MaxPRs = 5` is never reached within these events, so
  it cuts nothing off. One file content and the mode that only wants the file to
  exist, with files that are missing, edited or as required. `DismissalStands`
  and `StatusIsTrue` are proved for all bounds.
* `Settings`: nineteen groups of settings that depend on each other, each in all
  combinations of its values while the others agree; groups share no rule. Three runs
  and a failing request: a run that is cut short, and two clean ones after it.
  All three properties are proved for all bounds.
* `References`: groups of objects that refer to each other, two teams, two users, one
  app, two repositories; three runs, a failure and a change by others, so that the
  third run may follow two calm ones. Rulesets name built-in roles, a role that cannot be
  resolved, and apps by name and by number. Secrets and variables are configured with and
  without a selection, also where it is ignored. All three properties are proved for
  all bounds.
* `SecretsAndWebhooks`: up to three live objects with a page of two; configurations with
  one or two entries with and without wildcard and alias, whose keys overlap. Two applies
  or imports, a merge, a change by others and a failure, in any order.
* `Installations`: two organizations and six registries (other template, other
  organization, swapped and reused names). Three changes of an installation give every
  sequence installed, suspended, unsuspended or removed; one overlap and one failure
  suffice to leave the database behind, an init follows.
* `PagedReads`: five items and pages of two: a first, a middle and a last page, one
  change of the list, two faults of two attempts.
* `LocalCopies`: three operations, two commits or edits by others, one fault; two valid
  contents and an invalid one.
* `SyncCheck`: three checks, two at a time, one change, one fault. Two that overlap may
  leave a comment each and a record that contradicts it; the third has to clean up.
  `Hour = 1` with two points of time has commits that are recent and commits that are not.

Deadlock is not checked in any run: once users have done what the bounds allow and
the tasks have ended, nothing is left to do.

## 4. Fairness

`PullRequestTasks!FairSpec` assumes weak fairness of `Work`: the event loop goes on
as long as there is a task that can run. Users, faults and webhooks owe nothing.
`Blueprints!FairSpec` assumes weak fairness of the tasks of each event, because
asyncio runs ready tasks in turn and none can keep another from running, and of
`StartRound`, because `/internal/check` is meant to be called again and again. The
latter is an assumption about the operator: nothing in the code calls the route.
`PagedReads!Spec` assumes weak fairness of `Answer`: GitHub or the network answers a
request at last. The clients rely on that, since they set no total timeout for a
request. `SyncCheck!Spec` assumes weak fairness of each task's `Step`, for the reason given
for the tasks of `Blueprints`; faults and changes owe nothing. All other runs check
safety only and use `Spec` (`AppSpec` in `Installations`, `RefSpec` in `References`, `SetSpec` in `Settings`).

## 5. What is proved

All proofs are for every value of the constants, with the assumptions that the
modules name: bounds are natural numbers, what users may choose is a subset of what
there is, and the values that stand for absence are none of the others.

**PullRequestTasks_proofs.** The inductive invariant is `IInv`:

* `TypeOK`;
* `GitHubInv`: the pull request is merged exactly if it has a merged commit, which
  is then its head and never beyond the branch;
* `RecordInv`: every positive answer in the document was true of some commit or
  review (`AnswersInv`), a document that says merged or applied implies the merge,
  and a completed one is accounted for;
* `EffectsInv`: what was written and what the bot did is covered by such evidence;
* `TaskInv` of every task: the same of the document it found, of the snapshot it
  carries and of the answers it is about to write.

The last part is what makes it inductive: a task stores what it found out long
before, over whatever is stored by then, and the properties hold only because each
answer in flight stays justified by facts that never become false again (evidence
that was seen, a merge that took place). There is one lemma for each action.
Theorems: `Invariance`, `TypeCorrect`, `AppliedImpliesMerged`,
`OnlyMergeCommitIsWritten`, `BotActsOnEvidence`, `LiveWasValidated`,
`CompletedIsExplained`, and `Refinement`: `Spec => ImplementsMergeThenApply`, where
each step maps to a step of `MergeThenApply` or to a stutter.

**Blueprints_proofs.** `IInv` is `TypeOK` with

* `DocInv`: a document that a task has found is never removed, so that its save
  writes to an existing one;
* `BranchInv`: at most one pull request is open, and its branch exists;
* `DismissalInv`: once a dismissal has settled, no pull request is open, no check is
  past its look-up of the dismissal, and no status update is in flight, so that
  nothing can write the status: new updates need an open pull request to be closed
  or merged, and opening one needs a check that gets past the look-up, or a user who
  reopens it.

Steps that leave the pull requests alone are all instances of the lemma
`SamePullRequests`, those that change them of `OtherPullRequests`.

`CalmInv` is inductive together with `IInv`: while users were calm, each task that is
in flight is one of a few that the state allows (`CalmTasks`: after a dismissal only its
status update, after a push only checks, ...), the record stays what one of them will
correct, and the settled record is true (`CalmStatus`). It is stated of the blueprint
that was fetched: a fetch that stores the name and not the configuration of a blueprint
(`service.py:891`) leaves a status that is true of the older one.
Theorems: `Invariance`, `TypeCorrect`, `SettledDismissalStands`:
`Spec => []DismissalStands`, and `CalmStatusIsTrue`: `Spec => []StatusIsTrue`, for any
number of actions, overlapping checks, lost webhooks, failing calls and restarts.

**ConfigHistory_proofs.** The invariants come in three layers, because less and less
holds as more methods of merging are allowed. `IInv` (types and places in the history)
holds for all; `LinearInv` adds that every commit has one parent, so that what an apply
has still to write is what its merge changed; `SingleInv` is for pull requests that
become a single commit each (`OneCommitEach`) and says, for each setting, who changed it
last, what of it is written, still to be written or has failed, and that only one who
changed it may have overwritten it. Theorems: `TypeCorrect` for all methods; `Refinement`:
`Spec => ImplementsLiveFollowsHistory`, without merge commits; `CompletedIsWritten`,
`UncontestedSettles`, `OrderlySettles` for squash merges. These hypotheses are not for
want of a proof: `MCConfigHistoryMerge.cfg` and `MCConfigHistoryRebase.cfg` show what
becomes of an apply without them.

**ApplyOperation_proofs.** A plan is put together with `FlattenSeq` from the patches of
each repository, so the proofs begin with what it preserves: members, types, and any
relation between an earlier and a later member (`FlattenFollows`). Then comes matching:
when the keys and aliases of a configuration differ, no live repository is taken twice
(`TakenOnce`). `IInv` is `TypeOK` with

* `TodoInv`: each patch that is left has requests for the repository it is for;
* `OrderInv`: nothing comes after a patch that makes its repository readonly, and
  nothing before the one that creates it;
* `ArchiveInv`: what is archived belongs to a configured repository that is to be
  archived, and if it keeps its name each hook and rule of it is as configured or spoilt by
  its own failure;
* `IsolationInv`: what is not as configured has a patch that is still to come or failed.

`SettleInv` is inductive together with it: in a run with nothing amiss every difference
between a live repository and its configuration has a request that is left, and what
is left of the live repositories that nobody claims has no other excuse than
`--delete-resources`. Theorems: `Invariance`, `TypeCorrect`, `ArchivingIsLast`,
`FailuresStayIsolated`, `NothingGetsLost` (the action property) and
`CleanRunLeavesNothing`: everything the run `apply_operation` checks.

**SecretsAndWebhooks_proofs.** Plans and imports are recursive functions; what holds of
each of their values follows from the lemmas `Folding` (a recursion has a solution) and
`Steps` (what holds at first and is preserved holds of all). `IInv` is `TypeOK`, which
says that no two objects have the same key, with

* `LiveInv`, `ConfigInv`: only webhooks have wildcards and aliases, and a configured
  secret is a reference, a literal, nothing or a placeholder;
* `TodoInv`: a patch that is left has a secret that GitHub may use, and unless it is for
  a webhook its entry has the key of the object it is for: without that a secret could
  be put under the name of another;
* `SecretsAreSecret`.

`SettleInv` is about what a run with nothing amiss has still to do. It forgets the order
of things: `Settling` relates the set of live objects, the set of patches that are left
and the set of configured entries. No two patches are for the same object or the same
entry, each is for an object that is live or an entry that is not, and says what is
configured (`Accurate`); every live object goes, or is as its entry says, or has a patch
(`ObjectSettles`); every entry that is no placeholder is live or is added
(`EntrySettles`), with the secret its credential has if the run was asked to update them
(`SecretSettles`). With no patch left these say that the next plan finds nothing
(`NothingLeft`). A patch takes out what it does on both sides (`RemoveSettles`,
`PutSettles`); that a plan or an import establishes the relation (`PlanSettles`,
`ImportSettles`) needs what the loops of the matching compute, for which
`MatchedPlain` and `AddedPlain` describe every value of the recursion.

Theorems: `Invariance`, `TypeCorrect`, `SecretsStaySecret`: `Spec => []SecretsAreSecret`,
and `CleanRunsSettle`: `Spec => []CleanRunSettles` if no key has a wildcard (`Plainly`).
Aliases, of which an object may be known by several, are covered. With wildcards it would be false, as TLC shows for two that overlap
(`x*` and `xa*`, with `xb` and `xa` live): an import keeps them, and then the next plan matches
one of them twice and ends with an error. The run `secrets_and_webhooks` checks that a
single wildcard settles.

**PagesAndInstallations_proofs, pages.** `TokenInv` is about the token, which outlives every read that
takes no longer than the buffer; `RestInv` is about places: what stayed in the list and
was not read is at a place beyond the pages that were read, unless something before it
was removed, and what was read twice was pushed back by an addition; `CursorInv` is about
order: what is up to the cursor was read, what is beyond was not. Theorems: `Invariance`,
`ReadsExact` (`Spec => []ReadsAreExact`, if nobody reads the repositories of a team:
`MCPagedReadsTeam.cfg` shows why), `FailuresCaused`.

**PagesAndInstallations_proofs, installations.** (Both components are extended by one
module; to that end the names that `PagedReads` has too are prefixed in `Installations`:
`AppInit`, `AppNext`, `AppSpec`, `AppTypeOK`.) `AppIInv` is in three parts.

* `DataInv`: types, unique project names, and `Sound(owner)`: an installation id belongs
  to one organization for good, whoever holds it (GitHub, a document, an event or a
  fetch that waits, a list that was read), so that an id never finds another
  organization (`FoundFacts`), however late its event is dealt with. `owner` is not part
  of the model: a step either keeps it or, when an id is given out, extends it.
* `AloneInv`: since an init began by itself, either it is under way and has brought in
  line what its stage promises (`InitRuns`: after `Applies` the registry, after `Lists` it
  carries what GitHub says), or only fetches are left (`Fetching`): each is going to save
  what is up to date (`Brings`), and what is not up to date has one.
* `OrderlyInv`: the same for events that come one at a time. `EventRuns` says that
  everything is up to date but for the organization of the event, and what is known of that
  one; `UpdateRuns` that an update knows what it has to fetch again (`Kept`).

A step that anything else disturbs makes `alone` or `orderly` false, and there is
one lemma for each action. What an update makes of the documents is a recursion over the
entries of the registry: `Updated` holds after each of them (`EnteredFacts`), so of all
(`UpdateFacts`). It assumes `RegistriesAssumption`: a registry has each organization and
each project name once. `OtterdogConfig` does not check that, but looks entries up by
either (`config.py:241-242`), and the documents are keyed by one and unique in the other
(`models.py:30-31`). Theorems: `AppInvariance`, `AppTypeCorrect`, `EventsAreEnough`:
`AppSpec => []EventsSuffice`, `InitPutsRight`: `AppSpec => []InitRepairs`, for any
organizations and registries.

**LocalCopiesAndReferences_proofs, local copies.** `StageInv` (the way through the stages), `WorkInv` (what has been
done and what there was at each of them), `BranchInv` (the new branch is as it was made
until the operation writes to it) and `FileInv` (what is going to be written is what was
validated) with the two properties themselves. Theorems: `TypeCorrect`, `ReportsAreTrue`,
`ReviewsAreValid`.

**LocalCopiesAndReferences_proofs, references.** (One module for two components again, hence
`RefInit`, `RefNext`, `RefSpec`, `RefTypeOK`.) Requests are put together when a patch begins
and sent later, while teams are removed, others add actors and requests fail. So the
invariant has to say of every request that is left that it does no harm, whatever the
others come to. `KeepInv` is

* `LiveInv`: no actor is stored without an identity, and only what is visible to selected
  repositories has a selection;
* `TodoInv`: a plan has each object once, removes only what is not configured, and a team
  that it adds does not exist until its turn comes;
* `StepsInv`: each request that is left is `Sound`. One that sends a whole list sends all
  who are to be kept (`Kept`: without the teams that were removed after the patch began,
  which have no identity that anybody could lose); one that takes an entry out takes out
  one that is not wanted, but for the creator of a new team. The list of a team is sent as
  a whole by the request that creates it and by none after it.

A plan and the requests of a patch are joined from parts; `FlattenSeq` and `\o` preserve what
holds of each part (`FlattenRange`, `FollowsConcat`, `SoundConcat`), and `SetToSeq` lists each
entry once (`SetAsSequence`). `StepsAreSound` has a lemma for each kind of object,
`StepKeeps` to `OtherGrantsKeeps` one for each action. `TeamsInv` and `RestInv` add what
`RefTypeOK` needs: an identity is given out once, so that a team that is made again never
gets that of another. Assumed is that situations to start in are such as GitHub can be in
(`CasesAssumption`), that names of teams differ from other names (`TeamsAssumption`: they
are written `@organization/team`), and that bounds are numbers. Theorems: `KeepInvariance`,
`RefTypeCorrect`, and `NobodyIsLostInBetween`: `RefSpec => NobodyLosesInBetween`, for any
teams, users and apps, any number of runs, failures and changes by others.

That runs settle needs more of what there is and of what is left to do. Assumed in addition
is that roles and the special words for apps of status checks are not names of users or apps
(`NamesAssumption`), and that configurations and the first live state hold what they can
hold (`ContentsAssumption`, evaluated by TLC for all situations): a configuration names in
each list only such kinds of actors as can be written there (`Mentions`), which includes the
roles of the organization that no ruleset can resolve, and one level of permission for each
team; GitHub's lists are of teams and repositories that exist, and it
gave none of the identities that are still to come. On these rest

* `StoredInv`: what there is stays so, since each request that is left is `Legal`. From
  this follows what is read of an object (`ActorsAreRead`, `EntriesAreRead`): identities
  and names agree for everybody who exists;
* `OrderInv`: teams come first in a plan, and an environment before the ruleset that
  deploys to it;
* `CalmInv`, of a configuration that has what it insists on and nothing that ends each run
  (`Coherent`), and a run that is not disturbed. An object whose patch is done, or that has none, fits (`GoodNow`), but for
  a selection that came before its repository (`Waits`, in the first calm run only); a
  patch whose turn has not come finds its object as the plan saw it (`Awaits`); and of the
  patch that is being applied the requests that are left lead to what is configured
  (`Underway`): for requests that send fields this is what the last one leaves, for lists
  the entries that are there, less those still to be removed, with those still to be added
  (`Final`).

`OthersStay` shows that what fits goes on to fit while other objects change (`Steady`: nobody
who is configured goes away, and a new team has an identity that nothing refers to yet),
`TeamsThere` that everything behind the teams finds them all, and `HeadAccepted` that GitHub
refuses nothing that is needed; `StepsLead` goes through the patches of each kind,
`StepCalms` through a request. At the end of a run nothing is pending, so everything is
`GoodNow` or `Waits`, and the next run does not wait, since the repository is there
(`RepoThere`). An object that is `GoodNow` and differs all the same when it is read is
`Restless` (`GoodIsRestless`). Theorems: `StoredInvariance`, `CalmInvariance`,
`RefsSettleInTwo`: `RefSpec => []SettlesInTwo`, and `ThirdRunChangesNothing`:
`RefSpec => []ThirdRunIsEmpty`.

**SyncCheckAndSettings_proofs, sync check.** `ShaInv` (which commit a task has) and `CalmInv`: a check in calm is
the only one, and has brought comment, record and status in line as far as its stage
(`Stands`), whatever others have left. Theorems: `TypeCorrect`, `CalmChecksAreTrue`.

**SyncCheckAndSettings_proofs, settings.** (One module for two components, hence `SetInit`,
`SetNext`, `SetSpec`, `SetTypeOK`.) What GitHub accepts depends on what it has when a
request arrives, and a request relies on values that it does not carry: on those of the
organization, and on settings of the repository that were compared when the plan was made.
So the invariant has to follow what is still to be sent. `AcceptInv` is

* `LiveInv`: every setting has a value; a plan against an earlier configuration is the first,
  and GitHub does what that configuration says;
* `TodoInv`: patches and their requests are `Arranged`: the organization, its properties, the
  repository, its rule, in each of them the requests in the order of the client, no field
  twice, and each request `Fits`, that is, carries what is configured;
* `UndisturbedInv`, as long as the configuration is valid and nothing went wrong without a
  reason. `OrgInv`: what a repository relies on in the organization is as configured or
  `Coming`, before the repository's turn. `RepoInv`: so is what a request relies on in the
  repository (its visibility, the level of allowed actions, the setup of code scanning).
  `StuckInv`: code scanning that was refused for disabled workflows ends its patch, so the
  workflows stay disabled, and so on in each later run. `RefusedInv`: nothing but code
  scanning and push protection was refused, the latter for what a local plan took for applied.

A patch is put together from parts in order, which `\o` preserves (`OrderedConcat`,
`ArrangedConcat`); `PlanFacts` says which requests a plan has, `CurrentFacts` how what it is
compared with agrees with what GitHub does. `OrgAccepted` and `RepoAccepted` show that a
request that relies on nothing else is accepted, `OrgStep` and `RepoStep` that the rest of
the plan stands after one that was sent. Assumed is what is true of what the code evaluates
and reads (`CasesAssumption`): the templates give every setting a value, switches are on or
off, and what was merged before has been applied.

That a request is accepted says nothing yet about what was not sent. A plan leaves a setting
alone if it does not differ from what is reported, and what is reported may be what the
organization decides, or nothing. So the second invariant, `SettleInv`, says for each
setting that it `Agrees` with what is expected, is on its way (`Has`), or is `Moot`, which
depends on the configuration alone: something else that is configured makes it ineffective.

* `RunInv`: in a run in which nothing has failed that is so of each setting of the organization
  and of each of the repository that was `Shown` to the plan. The settings that mask
  others (`Masks`) always are.
* `TwiceInv`: in a second such run it is so of all. What hides a setting from the second plan
  is by then as configured, and what is hidden by what is configured is moot.
* `CleanInv`: how such runs are counted; the apply of a merge is a single one.

`OrgIsPlanned`, `RestIsPlanned` and `FlowIsPlanned` show that a plan has what is shown and
lacking, `SecondPlan` the same of a second one, and `OrgIsSettled` and `RepoIsSettled` that
GitHub behaves as configured once each setting agrees or is moot.

Theorems: `AcceptInvariance`, `SettingsTypeCorrect`, `ValidIsNeverRefused`:
`SetSpec => []ValidIsAccepted`, `SettleInvariance`, `RunSettles`: `SetSpec => []SettlesAtOnce`,
`TwoRunsSettle`: `SetSpec => []SettlesInTwo`, for any settings that GitHub can have, any
number of runs and failures.

Five components need an induction over numbers (over places, members of a plan or steps of
a recursion). The induction theorems of the library are stated for operators; the proofs
use that a set of numbers that is not empty has a least member instead (`LeastNumber`,
from `FS_StrictSubsetOrderingWellFounded`), applied to the set of counterexamples.

What proving found: `ChildrenBeforeArchiving` is false of a configuration that uses a key
twice, for which the plan ends with an error (`utils.py:231`) and nothing is sent; no
instance of TLC had one, and now `KeysAreUnique` is its condition. `NobodyLosesInBetween` was
false of a secret that everybody sees and that is configured with a selection all the
same, and so were `SettlesInTwo` and `ThirdRunIsEmpty`: the run now has such secrets, and
`Named` excuses them. The proof of
`ValidIsNeverRefused` showed that the configuration that was applied before need not be
valid, which `ValidIsAccepted` had as a condition. `SettlesAtOnce` was false of a private
repository that becomes public: GitHub reports no approval policy of it
(`RepoFlowRead`), so if nothing else of its workflows differs the policy is compared in the
next run only, and of a repository with pages whose plan is not the configured one; no
group of settings had either, and the groups `Policies` and `Upgrade` now do. `StatusIsTrue` is false of a redefined blueprint
unless it speaks of the one that was fetched. Several `CASE`s had arms that overlap.

## 6. What is only model-checked, and what is not modelled

Liveness (`QuietMergeIsApplied`, `RecheckHappens`, `RemediationIsPrepared`, `ReadsEnd`,
`EveryCommitIsDecided`) and everything about `ENABLED` are out of the prover's reach and
stay with TLC. So does `ReadsAreExact` for the reads of teams, which do not end.
Also model-checked only: `CleanRunSettles` of `SecretsAndWebhooks` for webhooks with a
wildcard. All other safety properties that the runs check are theorems. The type invariants of `ConfigHistory`, `Installations`, `LocalCopies`,
`PagedReads`, `References`, `SecretsAndWebhooks`, `Settings` and `SyncCheck` are proved; no
run of the list checks them.

### Not modelled

* Policies beyond their fetch: the evaluation uploads a file to an external service.
* The cache by entity tag, which is a library, and jsonnet with its template checkouts:
  a crash between clone and checkout (`jsonnet.py:387`) leaves the default branch
  checked out, and later runs pull it instead of using the ref.
* Organization roles, team discussions, settings that only the web UI reaches, and the
  web UI provider itself.
* Operations that only read (`show`, `list-...`, `check-...`), and those that call the API once
  for each object (`approve-blueprints`, `dispatch-workflow`, `review-permissions`).
* Dashboard, API and login: views; webhook reception: signature and dispatch.

### What the models leave as it is

Behaviour that the models show or excuse, that no text of the repository contradicts,
and that a maintainer may want to know:

* Without `--update-webhooks` nothing repairs a webhook url that an alias matched
  (`webhook.py:160`); a wildcard entry overwrites the live url with the wildcard, and
  a second live match ends the run with a KeyError (`models/__init__.py:791-793`), which
  an import of two webhooks with overlapping wildcards may leave behind.
* An import copies "no secret" over a live secret; webhooks, secrets and environments
  are read from the first page only.
* Secrets of a repository are resolved twice, by the repository and by themselves
  (`config.py:194-203`, `secret.py:49`): one that resolves to text with two colons fails. A
  literal with two colons ends the validation, and with it each plan, with a `ValueError`
  (`secret.py:52`).
* A role of the organization among the bypass actors of a ruleset ends each apply with a
  `KeyError` (`ruleset.py:640`).
* `delete-file` says "succeeded" for a file that is not there or cannot be read, and crashes
  when the deletion fails (`delete_file.py:96-104`).
* Registered organizations that swap project names, or a new one that takes the name of
  a removed one, make `update_installations_from_config` raise midway; an organization
  that was suspended misses changes of its policies (`service.py:93-102`).
* A failed `open-pr` leaves its branch, so that the same name fails ever after
  (`open_pull_request.py:169`); `push-config` takes any failed read of the remote
  configuration for "no configuration yet" (`push_config.py:158`) and checks the file
  on disk later than it read it.
* Actors of a branch protection rule with more than one page are added twice from the
  first page (`graphql.py:124-142`). A mutation that GraphQL refuses is answered with 200
  and `data: null`, which the client takes for success (`graphql.py:165-173`; `Overlook`).
* `blocks_creations` and `lock_allows_fetch_and_merge` are reported as ignored by the
  validation but compared and sent all the same (`branch_protection_rule.py:206-229`, `231-264`).

GitHub and MongoDB are external. Their side is modelled as the code relies on it:
a document is saved atomically and only in the fields that were assigned; GitHub
refuses to merge drafts, refuses requests to archived repositories, keeps one open
pull request for a branch, closes it when its branch is deleted and restores the
branch when it is reopened.

## 7. Plan

Done: `PullRequestTasks` with `MergeThenApply`, `ConfigHistory` with
`LiveFollowsHistory`, `ApplyOperation`, `Blueprints`, `Settings`, `References`,
`SecretsAndWebhooks`, `Installations`, `PagedReads`, `LocalCopies`, `SyncCheck`; proofs
about all of them. In this order, next:

1. `CleanRunSettles` of `SecretsAndWebhooks` for one wildcard that no other key overlaps.
2. An abstract specification of `LocalCopies` (a file that is replaced as a whole or not
   at all) and of `PagedReads` (a read that takes effect at one moment, for lists that
   do not change), with their refinements.
3. Further disagreements that `Blueprints` can show: a check under way when its pull
   request is closed overwrites the dismissal (`docs/reference/blueprints/index.md:14`);
   a reopening that is overtaken by the late dismissal.
