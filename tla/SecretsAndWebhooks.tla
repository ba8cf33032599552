------------------------ MODULE SecretsAndWebhooks ------------------------
(***************************************************************************)
(* The webhooks, the secrets or the variables of one owner (organization,  *)
(* repository, environment): how what is configured is matched with        *)
(* what is live, how the credentials that secrets refer to are resolved,   *)
(* and what an apply by a user, an apply by the app after a merge and an   *)
(* import do with them.                                                    *)
(*                                                                         *)
(* GitHub never gives a secret away: it reads back redacted.  A webhook    *)
(* may be configured by a prefix of its url, with a wildcard at the end,   *)
(* to keep the rest of it private.                                         *)
(*                                                                         *)
(* A key, a url or a name, is a sequence of parts; the last part of a      *)
(* wildcard is "*".                                                        *)
(***************************************************************************)
EXTENDS Naturals, Sequences, FiniteSets, SequencesExt

CONSTANTS
    Kinds,       \* a subset of {"webhook", "secret", "variable"}
    Words,       \* the keys: urls and names
    Data,        \* what else there is to an object
    Lives,       \* [Kinds -> what may be live at first]
    Configs,     \* [Kinds -> what may be configured]
    References,  \* the references to credentials, resolved by a provider
    Literals,    \* secrets that are written down as they are
    Credentials, \* what a provider may give for a reference
    Colons,      \* the literals and credentials with two colons in them
    PageSize,    \* how many objects GitHub lists without being asked for more
    MaxRuns,     \* bound: applies and imports
    MaxEdits,    \* bound: pull requests that are merged
    MaxOthers,   \* bound: changes by somebody else
    MaxFailures  \* bound: requests that fail for no reason of their own

NoSecret == "none"
Dummy == "********"
Missing == "missing"

\* What GitHub may use as a secret, what a configuration may have instead.
Secrets == Literals \cup Credentials
Given == References \cup Literals \cup {NoSecret, Dummy}
AnySecret == Secrets \cup Given \cup {Missing}

IsWildcard(key) == Last(key) = "*"

LiveObject == [key : Words, secret : AnySecret, data : Data]
Entry == [key : Words, aliases : SUBSET Words, secret : AnySecret, data : Data]

\* Only webhooks have aliases, and urls with a wildcard.  A secret always has a value,
\* and the value of a variable is none.
Fits(k, object) ==
    /\ k # "webhook" => ~IsWildcard(object.key)
    /\ k = "secret" => object.secret # NoSecret
    /\ k = "variable" => object.secret = NoSecret
FitsEntry(k, e) == Fits(k, e) /\ (k # "webhook" => e.aliases = {})
KeysDiffer(objects) == \A i, j \in DOMAIN objects : objects[i].key = objects[j].key => i = j

\* What stands for the absence of a secret is no secret.
ASSUME AbsenceAssumption == {NoSecret, Dummy, Missing} \cap (Secrets \cup References) = {}
ASSUME KindsAssumption == Kinds \subseteq {"webhook", "secret", "variable"}
ASSUME LivesAssumption ==
    \A k \in Kinds : \A l \in Lives[k] :
        /\ l \in Seq(LiveObject) /\ KeysDiffer(l)
        /\ \A i \in DOMAIN l : l[i].secret \in Secrets \cup {NoSecret} /\ Fits(k, l[i])
ASSUME ConfigsAssumption ==
    \A k \in Kinds : \A c \in Configs[k] :
        c \in Seq(Entry) /\ \A i \in DOMAIN c : c[i].secret \in Given /\ FitsEntry(k, c[i])
ASSUME PageAssumption == PageSize \in Nat

VARIABLES
    kind,    \* which objects the behaviour is about
    live,    \* GitHub: the sequence of [key, secret, data] there is
    config,  \* the sequence of [key, aliases, secret, data] configured
    base,    \* the configuration that the app applied last
    vault,   \* [References -> Credentials \cup {Missing}]
    run,     \* the apply under way: [by, delete, todo]
    count,   \* how often each bounded event happened
    clean    \* history: what the last run knows to be settled

vars == <<kind, live, config, base, vault, run, count, clean>>

Idle == [by |-> "nobody", delete |-> FALSE, todo |-> <<>>]

Page(s) == SubSeq(s, 1, IF Len(s) <= PageSize THEN Len(s) ELSE PageSize)
Keys(s) == {s[i].key : i \in DOMAIN s}

-----------------------------------------------------------------------------
(* Matching.                                                               *)

Stripped(key) == IF IsWildcard(key) THEN Front(key) ELSE key
Names(e) == {e.key} \cup e.aliases

\* No key or alias is used twice: a configuration that does is refused.
NamesDiffer(entries) ==
    \A i, j \in DOMAIN entries : i # j => Names(entries[i]) \cap Names(entries[j]) = {}

\* The entry for a live object: the one that bears its name and has not been used,
\* else, as soon as any entry has a wildcard, the first one that its key starts
\* with, used or not, wildcard or not; 0 if there is none.
EntryFor(key, entries, left) ==
    LET named == {i \in left : key \in Names(entries[i])}
        prefixed == IF \E i \in DOMAIN entries : IsWildcard(entries[i].key)
                    THEN {i \in DOMAIN entries : IsPrefix(Stripped(entries[i].key), key)}
                    ELSE {}
        all == IF named # {} THEN named ELSE prefixed
    IN IF all = {} THEN 0 ELSE CHOOSE i \in all : \A j \in all : i <= j

-----------------------------------------------------------------------------
(* Differences and patches.                                                *)

\* Mutant: a redacted secret is compared as if it were the secret.
SecretComparedAlways(e, c) == e.secret # c.secret

\* A secret that reads back redacted only tells that there is one.
SecretDiffers(e, c) == IF c.secret = Dummy THEN e.secret = NoSecret ELSE e.secret # c.secret

IsForced(e, options) ==
    \/ kind = "secret" /\ options.secrets
    \/ kind = "webhook" /\ options.webhooks /\ e.secret # NoSecret   \* variables never are

\* The key itself is no difference, and a redacted secret in the configuration
\* means that the object is skipped altogether.
IsPatched(e, c, options) ==
    e.secret # Dummy /\ (IsForced(e, options) \/ e.data # c.data \/ SecretDiffers(e, c))

Patch(op, e, key) == [op |-> op, entry |-> e, key |-> key]
NoEntry == [key |-> <<"none">>, aliases |-> {}, secret |-> NoSecret, data |-> "none"]
Patches == [op : {"add", "change", "remove"}, entry : Entry \cup {NoEntry}, key : Words]

\* One live object c: its patch, if any, and the entry that is used up.  An entry
\* whose keys are dropped twice raises a KeyError.
Matched(s, c, entries, options) ==
    LET i == EntryFor(c.key, entries, s.left) IN
    IF i = 0 THEN [s EXCEPT !.out = Append(@, Patch("remove", NoEntry, c.key))]
    ELSE [left |-> s.left \ {i},
          ok |-> s.ok /\ i \in s.left,
          out |-> IF IsPatched(entries[i], c, options)
                  THEN Append(s.out, Patch("change", entries[i], c.key)) ELSE s.out]

AllMatched(current, entries, options) ==
    LET s[i \in 0 .. Len(current)] ==
            IF i = 0 THEN [left |-> DOMAIN entries, ok |-> TRUE, out |-> <<>>]
                     ELSE Matched(s[i - 1], current[i], entries, options)
    IN s[Len(current)]

\* An entry that is left is added.
WithAdditions(patches, entries, left) ==
    LET s[i \in 0 .. Len(entries)] ==
            IF i = 0 THEN patches
            ELSE IF i \in left /\ entries[i].secret # Dummy
                 THEN Append(s[i - 1], Patch("add", entries[i], entries[i].key))
                 ELSE s[i - 1]
    IN s[Len(entries)]

Planned(current, entries, options) ==
    LET s == AllMatched(current, entries, options)
    IN [ok |-> NamesDiffer(entries) /\ s.ok, patches |-> WithAdditions(s.out, entries, s.left)]

\* The patches that are in a set, in their order.
Chosen(patches, set) ==
    LET s[i \in 0 .. Len(patches)] ==
            IF i = 0 THEN <<>>
            ELSE IF patches[i] \in set THEN Append(s[i - 1], patches[i]) ELSE s[i - 1]
    IN s[Len(patches)]

\* Mutant: the app applies what has secrets like everything else.
AnythingIncluded(p, options) == TRUE

\* What is left of the plan: the app leaves out what has a secret, except to remove it.
Included(p, options) ==
    /\ options.app => p.op = "remove" \/ p.entry.secret = NoSecret
    /\ options.onlySecrets => kind = "secret"   \* webhooks and variables are none

Selected(patches, options) == Chosen(patches, {p \in ToSet(patches) : Included(p, options)})

-----------------------------------------------------------------------------
(* Resolving secrets, after everything has been planned.                   *)

\* What a provider or, for a literal, nobody makes of a secret.
Value(secret) == IF secret \in References THEN vault[secret] ELSE secret

\* A missing credential aborts the run; a text with two colons cannot be split into
\* a provider and its data.  What belongs to an object that has a patch of its own
\* is resolved with it and once more for itself.
ResolvingFails(secrets, twice) ==
    \E s \in secrets : \/ s \in Colons
                       \/ Value(s) = Missing
                       \/ twice /\ Value(s) \in Colons

\* A configured secret is split as well when everything is validated, before anything is
\* planned and whatever is left out of the plan; a text with two colons is nothing that
\* the validation expects.
ValidationFails == kind = "secret" /\ \E i \in DOMAIN config : config[i].secret \in Colons

WithValues(p, options) ==
    IF p.op = "remove" \/ options.app THEN p ELSE [p EXCEPT !.entry.secret = Value(@)]

-----------------------------------------------------------------------------
(* The requests of a patch.                                                *)

\* The object that a request is for, 0 if there is none.  Secrets and variables go by
\* their name, webhooks by the identity that was read with them or, when the current
\* state was read from a file, by the first of those listed that fits.
Target(p, app) ==
    LET looked == app /\ kind = "webhook"
        fits == {i \in DOMAIN (IF looked THEN Page(live) ELSE live) :
                    \/ live[i].key = p.key
                    \/ looked /\ IsWildcard(p.key) /\ IsPrefix(Stripped(p.key), live[i].key)}
    IN IF fits = {} THEN 0 ELSE CHOOSE i \in fits : \A j \in fits : i <= j

Object(e) == [key |-> e.key, secret |-> e.secret, data |-> e.data]
Put(e, i) == IF i = 0 THEN Append(live, Object(e)) ELSE [live EXCEPT ![i] = Object(e)]

\* What otterdog makes of the answer, and what GitHub holds after the request.
Answer(ok, objects) == [ok |-> ok, live |-> objects]

Refused == Answer(FALSE, live)
Removed(i) == IF i = 0 THEN Refused ELSE Answer(TRUE, RemoveAt(live, i))

\* Webhooks: all that is configured is sent, the url as well, and no two of them have
\* the same url.
Clashes(e, i) == \E j \in DOMAIN live : live[j].key = e.key /\ j # i

AddWebhook(e) == IF Clashes(e, 0) THEN Refused ELSE Answer(TRUE, Put(e, 0))
UpdateWebhook(e, i) == IF i = 0 \/ Clashes(e, i) THEN Refused ELSE Answer(TRUE, Put(e, i))
DeleteWebhook(i) == Removed(i)

AskForWebhook(p, i) ==
    CASE p.op = "remove" -> DeleteWebhook(i)
      [] p.op = "add" -> AddWebhook(p.entry)
      [] OTHER -> UpdateWebhook(p.entry, i)

\* Secrets are put whether they exist or not; that it was the other way round than
\* expected, 204 for 201, counts as a failure.
AddSecret(e, i) == Answer(i = 0, Put(e, i))
UpdateSecret(e, i) == Answer(i # 0, Put(e, i))
DeleteSecret(i) == Removed(i)

AskForSecret(p, i) ==
    CASE p.op = "remove" -> DeleteSecret(i)
      [] p.op = "add" -> AddSecret(p.entry, i)
      [] OTHER -> UpdateSecret(p.entry, i)

\* Variables are posted when they are new and patched when they are not.
AddVariable(e, i) == IF i = 0 THEN Answer(TRUE, Put(e, 0)) ELSE Refused
UpdateVariable(e, i) == IF i # 0 THEN Answer(TRUE, Put(e, i)) ELSE Refused
DeleteVariable(i) == Removed(i)

AskForVariable(p, i) ==
    CASE p.op = "remove" -> DeleteVariable(i)
      [] p.op = "add" -> AddVariable(p.entry, i)
      [] OTHER -> UpdateVariable(p.entry, i)

Ask(p, app) ==
    LET i == Target(p, app) IN
    CASE kind = "webhook" -> AskForWebhook(p, i)
      [] kind = "secret" -> AskForSecret(p, i)
      [] kind = "variable" -> AskForVariable(p, i)

-----------------------------------------------------------------------------
(* Import.                                                                 *)

\* The earlier secret is copied from the entry with the very same key, even if that
\* one has none and GitHub has.
ImportedSecret(c) ==
    IF c.secret = NoSecret THEN NoSecret
    ELSE LET same == {i \in DOMAIN config : config[i].key = c.key}
         IN IF same = {} THEN Dummy ELSE config[CHOOSE i \in same : TRUE].secret

ImportedEntry(c) == [key |-> c.key, aliases |-> {}, secret |-> ImportedSecret(c), data |-> c.data]

\* Each wildcard of the earlier configuration masks the first url that starts with it.
Masked(entries, e) ==
    LET fits == {i \in DOMAIN entries : IsPrefix(Stripped(e.key), entries[i].key)}
    IN IF ~IsWildcard(e.key) \/ fits = {} THEN entries
       ELSE [entries EXCEPT ![CHOOSE i \in fits : \A j \in fits : i <= j].key = e.key]

Imported ==
    LET s[i \in 0 .. Len(config)] ==
            IF i = 0 THEN [j \in DOMAIN Page(live) |-> ImportedEntry(live[j])]
                     ELSE Masked(s[i - 1], config[i])
    IN s[Len(config)]

-----------------------------------------------------------------------------
Plain == [app |-> FALSE, webhooks |-> FALSE, secrets |-> FALSE, onlySecrets |-> FALSE]
ByTheApp == [Plain EXCEPT !.app = TRUE]
Options == {o \in [app : {FALSE}, webhooks : BOOLEAN, secrets : BOOLEAN, onlySecrets : BOOLEAN] :
                o.webhooks = o.secrets}

Nothing == [plan |-> FALSE, values |-> FALSE]

Init ==
    /\ kind \in Kinds
    /\ live \in Lives[kind]
    /\ config \in Configs[kind]
    /\ base = config
    /\ vault \in [References -> Credentials \cup {Missing}]
    /\ run = Idle
    /\ count = [runs |-> 0, edits |-> 0, others |-> 0, failures |-> 0]
    /\ clean = Nothing

\* What GitHub answers when it is asked for its objects: secrets come without what
\* they are.
Redacted(c) == [c EXCEPT !.secret = IF kind = "secret" \/ @ # NoSecret THEN Dummy ELSE NoSecret]
Listing == [i \in DOMAIN Page(live) |-> Redacted(live[i])]

\* A user plans against GitHub, and confirms.  The secrets and the variables of a
\* repository that cannot be listed are taken for none.
UserPlans(options, delete, twice, listed) ==
    LET plan == Planned(listed, config, options)
        todo == Selected(plan.patches, options)
        resolved == {p.entry.secret : p \in {q \in ToSet(todo) : q.op # "remove"}}
                    \cup (IF twice THEN {config[i].secret : i \in DOMAIN config} ELSE {})
        fails == ValidationFails \/ ~plan.ok \/ ResolvingFails(resolved, twice)
        applied == Chosen(todo, {p \in ToSet(todo) : delete \/ p.op # "remove"})
    IN /\ run = Idle
       /\ count.runs < MaxRuns
       /\ run' = IF fails THEN Idle
                 ELSE [by |-> "user", delete |-> delete,
                       todo |-> [i \in DOMAIN applied |-> WithValues(applied[i], options)]]
       /\ clean' = IF fails \/ listed # Listing \/ Len(live) > PageSize \/ ~delete THEN Nothing
                   ELSE [plan |-> ~options.onlySecrets \/ kind = "secret",
                         values |-> IF kind = "secret" THEN options.secrets
                                    ELSE options.webhooks /\ ~options.onlySecrets]
       /\ count' = [count EXCEPT !.runs = @ + 1, !.failures = IF listed # Listing THEN @ + 1 ELSE @]
       /\ UNCHANGED <<kind, live, config, base, vault>>

UserApply ==
    \E options \in Options, delete, twice \in BOOLEAN :
        \/ UserPlans(options, delete, twice, Listing)
        \/ /\ kind # "webhook" /\ count.failures < MaxFailures
           /\ UserPlans(options, delete, twice, <<>>)

\* The app compares the configuration with the one before the merge.
AppApply ==
    LET before == [i \in DOMAIN base |-> Object(base[i])]
        plan == Planned(before, config, ByTheApp)
        todo == Selected(plan.patches, ByTheApp)
    IN /\ run = Idle
       /\ base # config
       /\ run' = IF ValidationFails \/ ~plan.ok THEN Idle
                 ELSE [by |-> "app", delete |-> TRUE,
                       todo |-> [i \in DOMAIN todo |-> WithValues(todo[i], ByTheApp)]]
       /\ base' = config
       /\ clean' = Nothing
       /\ UNCHANGED <<kind, live, config, vault, count>>

\* The next patch; one that fails does not keep the others from being applied.
Apply ==
    LET answer == Ask(Head(run.todo), run.by = "app") IN
    /\ run.todo # <<>>
    /\ live' = answer.live
    /\ run' = [run EXCEPT !.todo = Tail(@)]
    /\ clean' = IF answer.ok THEN clean ELSE Nothing
    /\ UNCHANGED <<kind, config, base, vault, count>>

Fail ==
    /\ run.todo # <<>>
    /\ count.failures < MaxFailures
    /\ run' = [run EXCEPT !.todo = Tail(@)]
    /\ count' = [count EXCEPT !.failures = @ + 1]
    /\ clean' = Nothing
    /\ UNCHANGED <<kind, live, config, base, vault>>

Finish ==
    /\ run # Idle
    /\ run.todo = <<>>
    /\ run' = Idle
    /\ UNCHANGED <<kind, live, config, base, vault, count, clean>>

\* An import writes the configuration anew, for a pull request of its own.
Import ==
    /\ run = Idle
    /\ base = config
    /\ count.runs < MaxRuns
    /\ config' = Imported
    /\ count' = [count EXCEPT !.runs = @ + 1]
    /\ clean' = [plan |-> /\ Cardinality(Keys(Imported)) = Len(Imported)
                          /\ \A i \in DOMAIN Imported : Imported[i].secret = NoSecret => live[i].secret = NoSecret,
                 values |-> FALSE]
    /\ UNCHANGED <<kind, live, base, vault, run>>

Merge ==
    /\ run = Idle
    /\ base = config
    /\ count.edits < MaxEdits
    /\ config' \in Configs[kind] \ {config}
    /\ count' = [count EXCEPT !.edits = @ + 1]
    /\ clean' = Nothing
    /\ UNCHANGED <<kind, live, base, vault, run>>

Rotate ==
    /\ count.others < MaxOthers
    /\ \E r \in References, v \in Credentials \cup {Missing} :
           vault[r] # v /\ vault' = [vault EXCEPT ![r] = v]
    /\ count' = [count EXCEPT !.others = @ + 1]
    /\ clean' = [clean EXCEPT !.values = FALSE]
    /\ UNCHANGED <<kind, live, config, base, run>>

\* Somebody adds an object, or removes one, on GitHub.
OthersChange ==
    /\ count.others < MaxOthers
    /\ \/ \E o \in UNION {ToSet(l) : l \in Lives[kind]} :
              o.key \notin Keys(live) /\ live' = Append(live, o)
       \/ \E i \in DOMAIN live : live' = RemoveAt(live, i)
    /\ count' = [count EXCEPT !.others = @ + 1]
    /\ clean' = Nothing
    /\ UNCHANGED <<kind, config, base, vault, run>>

Next ==
    \/ UserApply
    \/ AppApply
    \/ Apply
    \/ Fail
    \/ Finish
    \/ Import
    \/ Merge
    \/ Rotate
    \/ OthersChange

Spec == Init /\ [][Next]_vars

-----------------------------------------------------------------------------
\* The values of the variables, and no two objects of the same key: no two webhooks
\* share a url, and nothing but webhooks is ever given another key.
TypeOK ==
    /\ kind \in Kinds
    /\ live \in Seq(LiveObject) /\ KeysDiffer(live)
    /\ config \in Seq(Entry) /\ base \in Seq(Entry)
    /\ vault \in [References -> Credentials \cup {Missing}]
    /\ run \in [by : {"nobody", "user", "app"}, delete : BOOLEAN, todo : Seq(Patches)]
    /\ clean \in [plan : BOOLEAN, values : BOOLEAN]

\* What GitHub uses as a secret is a secret: whoever applies, after whichever import,
\* it is never the reference to a credential nor the asterisks that stand for it
\* (resolve_secrets after the plan, the app without credentials, copied secrets).
SecretsAreSecret ==
    \A i \in DOMAIN live : live[i].secret \in Secrets \cup {NoSecret}

\* A run in which nothing failed settles what it could see: while nobody changes
\* anything, the next plan is empty whatever was matched by an alias or a wildcard,
\* and if secrets were to be updated they are the current ones (generate_live_patch,
\* generate_live_patch_of_list, import_configuration).
CleanRunSettles ==
    (run = Idle /\ clean.plan /\ Len(live) <= PageSize) =>
        LET plan == Planned(Listing, config, Plain) IN
        /\ plan.ok /\ plan.patches = <<>>
        /\ clean.values =>
               \A i \in DOMAIN config : config[i].secret \notin {NoSecret, Dummy} =>
                   \E j \in DOMAIN live :
                       /\ config[i].key = live[j].key
                       /\ live[j].secret = Value(config[i].secret)
=============================================================================
