------------------------- MODULE MCApplyOperation -------------------------
(* Instances of ApplyOperation for TLC, and what the texts of the          *)
(* repository say of an apply that the code does not always keep.          *)
EXTENDS ApplyOperation

MCOrder == <<"a", "b">>

\* Repository a in any state of its settings, b missing or nothing special.
Plain == [archived |-> FALSE, desc |-> 1, topics |-> 1, hook |-> Absent, rule |-> Absent]
MCLive ==
    {[n \in Names |-> IF n = "a" THEN r ELSE b] :
        r \in {x \in Repo : x.hook # 2 /\ (x.desc = 1 \/ x.rule # 2)} \cup {Absent},
        b \in {Absent, Plain}}

\* Either repository is configured, or b as the new name of a, or both.
Want(aliases) ==
    [aliases : {aliases}, archived : BOOLEAN, desc : {1}, topics : {1},
     hook : {1, Absent}, rule : {1, Absent}]
MCConfigs ==
    {[n \in Names |-> IF n = "a" THEN a ELSE b] :
        a \in Want({}) \cup {Absent}, b \in {Absent} \cup {Plain @@ [aliases |-> {}]}}
    \cup {[n \in Names |-> IF n = "a" THEN Absent ELSE b] : b \in Want({"a"})}
    \cup {[n \in Names |-> [Plain EXCEPT !.archived = x] @@ [aliases |-> IF n = "b" THEN {"a"} ELSE {}]] :
            x \in BOOLEAN}

\* models/repository.py: "if the change to archived happens in this operation,
\* still perform any other changes, the archiving will be done last."
ArchivedAsConfigured ==
    pc = "done" /\ ~hist.disturbed =>
        \A m \in Names, f \in Parts : <<m, m>> \in hist.archives => AsConfigured(m, f)

\* The same of the hooks and rules of a repository that is renamed and archived at once.
RenamedArchivedAsConfigured ==
    pc = "done" /\ KeysAreUnique /\ ~hist.disturbed /\ ~hist.clash =>
        \A p \in hist.archives, f \in Children : live[p[2]] # Absent => AsConfigured(p[2], f)

\* docs/userguide/renaming.md: after a rename the alias "can be left for
\* traceability"; no apply deletes a repository that is configured.
ConfiguredIsNotDeleted ==
    [][ \A m \in Expected : live[m] # Absent => live'[m] # Absent ]_vars
=============================================================================
