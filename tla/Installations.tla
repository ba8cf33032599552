--------------------------- MODULE Installations ---------------------------
(***************************************************************************)
(* How the app keeps track of the organizations it serves.  A registry,    *)
(* the otterdog configuration, names the projects and their organizations; *)
(* GitHub knows where the app is installed; each organization has a        *)
(* repository with its own configuration and policies.  The database has a *)
(* document per registered organization and what was last fetched from it. *)
(*                                                                         *)
(* Webhook events and background tasks run concurrently: here a bag of     *)
(* tasks, an event being a task that has not begun.  A step of a task is   *)
(* what it does between two requests to GitHub; in between, others run.    *)
(*                                                                         *)
(* A behaviour is about one kind of fetched data, "config" or "policies".  *)
(***************************************************************************)
EXTENDS Naturals, Sequences, Bags

CONSTANTS
    Orgs,           \* the organizations of GitHub
    Registries,     \* what may be published: sequences of [org, project, template]
    Kinds,          \* a subset of {"config", "policies"}
    MaxTransitions, \* bound: installed, uninstalled, suspended, unsuspended
    MaxPushes,      \* bound: pushes to the repository of an organization
    MaxVersions,    \* bound: versions of the registry
    MaxInits,       \* bound: requests to initialize
    MaxOverlaps,    \* bound: changes and requests while a task is left
    MaxFailures     \* bound: requests to GitHub that fail

VARIABLES
    kind,     \* what the behaviour fetches
    github,   \* GitHub: [Orgs -> [state, id, head]]
    versions, \* GitHub: the versions of the registry published so far
    doc,      \* database: [Orgs -> installation or None]
    stored,   \* database: [Orgs -> what was fetched last or None]
    tasks,    \* the bag of tasks that are waiting or under way
    happened, \* how often each bounded event happened
    orderly,  \* history: nothing ever changed while a task was left, nothing failed
    alone,    \* history: nothing changed and nothing failed since an init began alone
    missed    \* history: the organizations suspended since their policies were fetched

appVars == <<kind, github, versions, doc, stored, tasks, happened, orderly, alone, missed>>

None == [none |-> TRUE]
Latest == versions[Len(versions)]
Entries(registry) == {registry[i] : i \in DOMAIN registry}
EntryOf(o, registry) == CHOOSE e \in Entries(registry) : e.org = o
Registered(o, registry) == \E e \in Entries(registry) : e.org = o

ASSUME KindsAssumption == Kinds \subseteq {"config", "policies"}

\* Organizations and project names are what the documents are found by: a registry has
\* each of them once.
ASSUME RegistriesAssumption ==
    \A registry \in Registries :
        /\ registry \in Seq(Entries(registry))
        /\ \A i, j \in DOMAIN registry :
               /\ registry[i].org \in Orgs
               /\ i # j => /\ registry[i].org # registry[j].org
                          /\ registry[i].project # registry[j].project

Task(what, org, id) ==
    [what |-> what, org |-> org, id |-> id, stage |-> "begin", version |-> 0, seen |-> None]
With(bag, t) == bag (+) SetToBag({t})
Without(bag, t) == bag (-) SetToBag({t})
WithAll(bag, ts) == bag (+) SetToBag(ts)

\* The organization whose document has an installation id.
Found(id) == {o \in Orgs : doc[o] # None /\ doc[o].id = id}

Fetch(o, id, version) ==
    [Task("fetch", o, id) EXCEPT !.version = IF kind = "config" THEN 0 ELSE version]

-----------------------------------------------------------------------------
(* GitHub and the people that use it.                                      *)

Happens(what) ==
    /\ tasks # EmptyBag => happened.overlaps < MaxOverlaps
    /\ happened' = [happened EXCEPT ![what] = @ + 1,
                                    !.overlaps = @ + (IF tasks = EmptyBag THEN 0 ELSE 1)]
    /\ orderly' = (orderly /\ tasks = EmptyBag)
    /\ alone' = (what = "inits" /\ tasks = EmptyBag)

\* Installations get a new id each time.
Change(o, from, to, event) ==
    /\ happened.changes < MaxTransitions
    /\ github[o].state = from
    /\ LET id == IF event = "created" THEN happened.changes + 1 ELSE github[o].id
       IN /\ github' = [github EXCEPT ![o].state = to,
                                      ![o].id = IF to = "absent" THEN 0 ELSE id]
          /\ tasks' = With(tasks, Task(event, o, id))
    /\ Happens("changes")
    /\ missed' = IF to = "suspended" THEN missed \cup {o} ELSE missed
    /\ UNCHANGED <<kind, versions, doc, stored>>

Install(o) == Change(o, "absent", "installed", "created")
Unsuspend(o) == Change(o, "suspended", "installed", "unsuspend")
Uninstall(o) == \E from \in {"installed", "suspended"} : Change(o, from, "absent", "deleted")
Suspend(o) == Change(o, "installed", "suspended", "suspend")

\* Only an app that is installed and not suspended hears of a push.
Push(o) ==
    /\ happened.pushes < MaxPushes
    /\ github' = [github EXCEPT ![o].head = @ + 1]
    /\ tasks' = IF github[o].state = "installed"
                THEN With(tasks, Task("push", o, github[o].id)) ELSE tasks
    /\ Happens("pushes") /\ UNCHANGED missed
    /\ UNCHANGED <<kind, versions, doc, stored>>

Publish(registry) ==
    /\ Len(versions) < MaxVersions
    /\ versions' = Append(versions, registry)
    /\ tasks' = With(tasks, [Task("registry", "none", 0) EXCEPT !.version = Len(versions) + 1,
                                                                !.stage = "apply"])
    /\ Happens("versions") /\ UNCHANGED missed
    /\ UNCHANGED <<kind, github, doc, stored>>

Initialize ==
    /\ happened.inits < MaxInits
    /\ tasks' = With(tasks, Task("init", "none", 0))
    /\ Happens("inits") /\ UNCHANGED missed
    /\ UNCHANGED <<kind, github, versions, doc, stored>>

-----------------------------------------------------------------------------
(* Events of an installation.                                              *)

Step(t, what, stage) == t.what = what /\ t.stage = stage
Ends(t) == tasks' = Without(tasks, t)
Continue(t, u) == tasks' = With(Without(tasks, t), u)
Undisturbed == UNCHANGED <<orderly, alone, missed>>
Broken == orderly' = FALSE /\ alone' = FALSE /\ UNCHANGED missed

\* The global policies are read first, then GitHub is asked for the installation.
CreatedBegins(t) ==
    /\ Step(t, "created", "begin")
    /\ Continue(t, [t EXCEPT !.stage = "read", !.version = Len(versions)])
    /\ Undisturbed
    /\ UNCHANGED <<kind, github, versions, doc, stored, happened>>

CreatedReads(t) ==
    /\ Step(t, "created", "read")
    /\ IF github[t.org].id = t.id
       THEN Continue(t, [t EXCEPT !.stage = "save", !.seen = github[t.org]]) /\ Undisturbed
       ELSE Ends(t) /\ Broken
    /\ UNCHANGED <<kind, github, versions, doc, stored, happened>>

Reported(d, seen) == [d EXCEPT !.id = seen.id, !.status = seen.state]

CreatedSaves(t) ==
    /\ Step(t, "created", "save")
    /\ IF doc[t.org] = None
       THEN Ends(t) /\ UNCHANGED doc
       ELSE /\ doc' = [doc EXCEPT ![t.org] = Reported(@, t.seen)]
            /\ Continue(t, Fetch(t.org, t.id, t.version))
    /\ Undisturbed
    /\ UNCHANGED <<kind, github, versions, stored, happened>>

NotInstalled(d) == [d EXCEPT !.id = 0, !.status = "absent"]

\* Mutant: what was fetched from an organization outlives its document.
KeptAll(docs) == stored

\* Data of organizations without a document go; what the app fetched from the
\* organization it was removed from stays as long as that one is registered.
CleanedUp(docs) == [o \in Orgs |-> IF docs[o] = None THEN None ELSE stored[o]]

Deleted(t) ==
    /\ Step(t, "deleted", "begin")
    /\ doc' = [o \in Orgs |-> IF o \in Found(t.id) THEN NotInstalled(doc[o]) ELSE doc[o]]
    /\ stored' = IF Found(t.id) = {} THEN stored ELSE CleanedUp(doc)
    /\ Ends(t)
    /\ Undisturbed
    /\ UNCHANGED <<kind, github, versions, happened>>

Suspended(t) ==
    /\ Step(t, "suspend", "begin")
    /\ doc' = [o \in Orgs |-> IF o \in Found(t.id) THEN [doc[o] EXCEPT !.status = "suspended"]
                                                   ELSE doc[o]]
    /\ Ends(t)
    /\ Undisturbed
    /\ UNCHANGED <<kind, github, versions, stored, happened>>

\* The configuration is fetched again, the policies are not.
Unsuspended(t) ==
    /\ Step(t, "unsuspend", "begin")
    /\ doc' = [o \in Orgs |-> IF o \in Found(t.id) THEN [doc[o] EXCEPT !.status = "installed"]
                                                   ELSE doc[o]]
    /\ tasks' = WithAll(Without(tasks, t),
                        {Fetch(o, t.id, 0) : o \in {p \in Found(t.id) : kind = "config"}})
    /\ Undisturbed
    /\ UNCHANGED <<kind, github, versions, stored, happened>>

\* A push to the configuration repository of an installation that is known.
Pushed(t) ==
    /\ Step(t, "push", "begin")
    /\ tasks' = WithAll(Without(tasks, t),
                        {Fetch(t.org, t.id, Len(versions)) : o \in Found(t.id)})
    /\ Undisturbed
    /\ UNCHANGED <<kind, github, versions, doc, stored, happened>>

-----------------------------------------------------------------------------
(* A new version of the registry, and the request to initialize.           *)

InitBegins(t) ==
    /\ Step(t, "init", "begin")
    /\ Continue(t, [t EXCEPT !.stage = "apply", !.version = Len(versions)])
    /\ Undisturbed
    /\ UNCHANGED <<kind, github, versions, doc, stored, happened>>

New(e) == [project |-> e.project, template |-> e.template, id |-> 0, status |-> "absent"]

\* Mutant: a new template is saved and nothing is fetched again.
OnlyRenamed(d, e) == d.project # e.project

HasChanged(d, e) == d.project # e.project \/ d.template # e.template

\* One entry: a project that moved to another organization loses its old document;
\* a project name that another document has cannot be saved.
Entered(s, e) ==
    LET holders == {o \in Orgs \ {e.org} : s.docs[o] # None /\ s.docs[o].project = e.project}
        d == s.docs[e.org]
    IN CASE ~s.ok -> s
         [] s.ok /\ d = None ->
              [s EXCEPT !.docs = [o \in Orgs |-> IF o \in holders THEN None
                                                 ELSE IF o = e.org THEN New(e) ELSE s.docs[o]],
                        !.force = @ \cup {e.project}]
         [] s.ok /\ d # None /\ holders # {} -> [s EXCEPT !.ok = FALSE]
         [] OTHER ->
              [s EXCEPT !.docs[e.org] = [d EXCEPT !.project = e.project, !.template = e.template],
                        !.force = @ \cup (IF HasChanged(d, e) THEN {e.project} ELSE {})]

\* All entries in their order, one document after the other.
Update(registry) ==
    LET after[i \in 0..Len(registry)] ==
            IF i = 0 THEN [docs |-> doc, force |-> {}, ok |-> TRUE]
                     ELSE Entered(after[i - 1], registry[i])
    IN after[Len(registry)]

Applies(t) ==
    /\ t.stage = "apply"
    /\ LET registry == versions[t.version]
           s == Update(registry)
           docs == [o \in Orgs |-> IF Registered(o, registry) THEN s.docs[o] ELSE None]
       IN IF s.ok
          THEN /\ doc' = docs
               /\ stored' = CleanedUp(docs)
               /\ Continue(t, [t EXCEPT !.stage = "list", !.seen = s.force])
               /\ Undisturbed
          ELSE /\ doc' = s.docs
               /\ Ends(t)
               /\ Broken
               /\ UNCHANGED stored
    /\ UNCHANGED <<kind, github, versions, happened>>

Lists(t) ==
    /\ t.stage = "list"
    /\ Continue(t, [t EXCEPT !.stage = "save",
                             !.seen = [force |-> @, github |-> github]])
    /\ Undisturbed
    /\ UNCHANGED <<kind, github, versions, doc, stored, happened>>

\* What GitHub listed is saved, whatever has been learnt since; an installation it
\* did not list keeps its status.
Listed(t) ==
    [o \in Orgs |-> IF doc[o] # None /\ t.seen.github[o].state # "absent"
                    THEN Reported(doc[o], t.seen.github[o]) ELSE doc[o]]

Saves(t) ==
    /\ t.stage = "save" /\ t.what \in {"registry", "init"}
    /\ LET docs == Listed(t)
           active == {o \in Orgs : docs[o] # None /\ docs[o].status = "installed"}
           due == {o \in active : \/ kind = "policies"
                                  \/ stored[o] = None
                                  \/ docs[o].project \in t.seen.force}
           again == {o \in active : t.what = "init" /\ kind = "config"}
           fetches(os) == {Fetch(o, docs[o].id, t.version) : o \in os}
       IN /\ doc' = docs
          /\ tasks' = WithAll(WithAll(Without(tasks, t), fetches(due)), fetches(again))
    /\ Undisturbed
    /\ UNCHANGED <<kind, github, versions, stored, happened>>

-----------------------------------------------------------------------------
(* Fetching from the repository of an organization.                        *)

\* The project and the template are those of the document at this moment.
FetchBegins(t) ==
    /\ Step(t, "fetch", "begin")
    /\ IF Found(t.id) = {}
       THEN Ends(t) /\ Broken
       ELSE /\ \E o \in Found(t.id) : Continue(t, [t EXCEPT !.stage = "read", !.seen = doc[o]])
            /\ Undisturbed
    /\ UNCHANGED <<kind, github, versions, doc, stored, happened>>

Data(d, version, head) ==
    IF kind = "config"
    THEN [project |-> d.project, template |-> d.template, version |-> 0, head |-> head]
    ELSE [project |-> "any", template |-> "any", version |-> version, head |-> head]

\* The token of the installation works as long as the app is installed.
FetchReads(t) ==
    /\ Step(t, "fetch", "read")
    /\ IF github[t.org].state = "installed" /\ github[t.org].id = t.id
       THEN /\ Continue(t, [t EXCEPT !.stage = "save",
                                     !.seen = Data(@, t.version, github[t.org].head)])
            /\ Undisturbed
       ELSE Ends(t) /\ Broken
    /\ UNCHANGED <<kind, github, versions, doc, stored, happened>>

\* Two configurations never have the same project name; policies are not unique.
NameTaken(o, project) ==
    kind = "config" /\ \E p \in Orgs \ {o} : stored[p] # None /\ stored[p].project = project

FetchSaves(t) ==
    /\ Step(t, "fetch", "save")
    /\ IF NameTaken(t.org, t.seen.project)
       THEN Broken /\ UNCHANGED stored
       ELSE /\ stored' = [stored EXCEPT ![t.org] = t.seen]
            /\ missed' = missed \ {t.org}
            /\ UNCHANGED <<orderly, alone>>
    /\ Ends(t)
    /\ UNCHANGED <<kind, github, versions, doc, happened>>

\* Where GitHub is asked: for the registry and the global policies first, later for the
\* installation, the list of all of them, or the files of an organization.  (When the
\* global policies cannot even be listed they are taken for none, which is left out.)
AsksGitHub(t) ==
    \/ t.stage = "begin" /\ t.what \in {"created", "init", "push"}
    \/ t.stage = "apply" /\ t.what = "registry"
    \/ t.stage \in {"read", "list"}

\* A request to GitHub fails: the task ends where it is.
Fails(t) ==
    /\ happened.failures < MaxFailures
    /\ AsksGitHub(t)
    /\ Ends(t)
    /\ Broken
    /\ happened' = [happened EXCEPT !.failures = @ + 1]
    /\ UNCHANGED <<kind, github, versions, doc, stored>>

-----------------------------------------------------------------------------
AppInit ==
    /\ kind \in Kinds
    /\ github = [o \in Orgs |-> [state |-> "absent", id |-> 0, head |-> 0]]
    /\ \E registry \in Registries : versions = <<registry>>
    /\ doc = [o \in Orgs |-> None]
    /\ stored = [o \in Orgs |-> None]
    /\ tasks = SetToBag({Task("init", "none", 0)})
    /\ happened = [changes |-> 0, pushes |-> 0, versions |-> 0, inits |-> 0, overlaps |-> 0,
                   failures |-> 0]
    /\ orderly = TRUE
    /\ alone = TRUE
    /\ missed = {}

Environment ==
    \/ \E o \in Orgs : Install(o) \/ Uninstall(o) \/ Suspend(o) \/ Unsuspend(o) \/ Push(o)
    \/ \E registry \in Registries : Publish(registry)
    \/ Initialize

Runs(t) ==
    \/ CreatedBegins(t) \/ CreatedReads(t) \/ CreatedSaves(t)
    \/ Deleted(t) \/ Suspended(t) \/ Unsuspended(t) \/ Pushed(t)
    \/ InitBegins(t) \/ Applies(t) \/ Lists(t) \/ Saves(t)
    \/ FetchBegins(t) \/ FetchReads(t) \/ FetchSaves(t) \/ Fails(t)

AppNext == Environment \/ \E t \in BagToSet(tasks) : Runs(t)

AppSpec == AppInit /\ [][AppNext]_appVars

-----------------------------------------------------------------------------
(* Types and the uniqueness the database enforces.                         *)

\* An installation without an id is one that is not installed, and conversely;
\* no two documents, and no two configurations, have the same project name.
AppTypeOK ==
    /\ kind \in {"config", "policies"}
    /\ \A o \in Orgs : doc[o] # None =>
         /\ doc[o].status \in {"absent", "installed", "suspended"}
         /\ (doc[o].id = 0) = (doc[o].status = "absent")
         /\ \A p \in Orgs \ {o} : doc[p] # None => doc[p].project # doc[o].project
    /\ \A o, p \in Orgs : kind = "config" /\ o # p /\ stored[o] # None /\ stored[p] # None =>
         stored[o].project # stored[p].project

Quiet == tasks = EmptyBag

\* The database says what the registry says ...
FollowsRegistry ==
    \A o \in Orgs :
        /\ (doc[o] # None) = Registered(o, Latest)
        /\ doc[o] # None => LET e == EntryOf(o, Latest)
                            IN doc[o].project = e.project /\ doc[o].template = e.template
        /\ doc[o] = None => stored[o] = None

\* ... what GitHub says, of some organizations ...
FollowsGitHub(orgs) ==
    \A o \in orgs : doc[o] # None => doc[o].id = github[o].id /\ doc[o].status = github[o].state

\* ... and what the repositories say, of some installed organizations.
FollowsRepositories(orgs) ==
    \A o \in orgs :
        doc[o] # None /\ github[o].state = "installed" => stored[o] = Data(doc[o], Len(versions), github[o].head)

\* An init that runs by itself puts right whatever went wrong before, except the
\* status of an organization that GitHub does not list any more.
InitRepairs ==
    Quiet /\ alone =>
        LET listed == {o \in Orgs : github[o].state # "absent"}
        IN FollowsRegistry /\ FollowsGitHub(listed) /\ FollowsRepositories(listed)

\* Events are enough as long as they come one at a time: init is only needed once.
\* What is missed is how the policies change while an organization is suspended.
EventsSuffice ==
    Quiet /\ orderly =>
        /\ FollowsRegistry
        /\ FollowsGitHub(Orgs)
        /\ FollowsRepositories(IF kind = "policies" THEN Orgs \ missed ELSE Orgs)
=============================================================================
