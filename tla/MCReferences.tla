---------------------------- MODULE MCReferences ----------------------------
(* Instances of References for TLC: the objects that depend on each other,   *)
(* while the others are as configured.                                       *)
EXTENDS References, TLC

Obj(refs, checks, data) == [refs |-> refs, checks |-> checks, data |-> data]
NoList == Obj({}, {}, {})
Default == [o \in Objects |-> IF o \in Permanent THEN NoList ELSE None]

\* Configurations of a group of objects: `choices` of each.
Configs(choices) ==
    {c \in [DOMAIN choices -> UNION {choices[o] : o \in DOMAIN choices}] :
        \A o \in DOMAIN choices : c[o] \in choices[o]}
Full(c) == [o \in Objects |-> IF o \in DOMAIN c THEN c[o] ELSE Default[o]]

Numbers == LET s == SetToSeq(Teams) IN [t \in Teams |-> CHOOSE i \in DOMAIN s : s[i] = t]
IdsOf(c) == [t \in Teams |-> IF c[t] = None THEN 0 ELSE Numbers[t]]

\* What GitHub has when a configuration without mistakes is applied.
AsLive(c) ==
    LET i == IdsOf(c) IN
    [o \in Objects |->
        IF o \in HasActors /\ c[o] # None
        THEN [c[o] EXCEPT !.refs = {IF n \in Teams THEN <<n, i[n]>> ELSE <<n, 0>> : n \in @},
                          !.checks = StoredChecks(o, @)]
        ELSE c[o]]

TeamsOf(c) == {t \in Teams : c[t] # None}
Proper(c) ==
    /\ \A o \in HasActors : c[o].refs \cap Teams \subseteq TeamsOf(c)
    /\ c["managers"].refs \subseteq TeamsOf(c)
    /\ {p[1] : p \in c["perms"].checks} \subseteq TeamsOf(c)
    /\ \A o \in Selective : "second" \in c[o].refs => c["repo"] # None
    /\ "selected" \in c["env"].data \/ c["env"].checks = {}
    /\ \A o \in Selective : "selected" \in c[o].data \/ c[o].refs = {}
    /\ "deployment" \in c["rule"].data => c["env"] # None
    /\ "nosuch" \notin c["branch"].checks

Situations(choices) ==
    LET all == {Full(c) : c \in Configs(choices)}
    IN  [live : {AsLive(c) : c \in {x \in all : Proper(x)}}, ids : {0}, installed : {Apps}, config : all]
Start(s) == [s EXCEPT !.ids = IdsOf(s.live)]

Team == {None, Obj({}, {}, {}), Obj({"kim"}, {}, {}), Obj({"bot", "kim"}, {}, {"other"})}
There == {None, Obj({}, {}, {})}
Member == {None, Obj({"kim"}, {}, {})}

People == Situations([red |-> Team, blue |-> {None},
                      managers |-> {NoList, Obj({"red"}, {}, {})},
                      perms |-> {NoList, Obj({}, {<<"red", "pull">>}, {}), Obj({}, {<<"red", "push">>}, {})}])
TwoTeams == Situations([red |-> Member, blue |-> Member,
                        managers |-> {Obj(s, {}, {}) : s \in SUBSET {"red", "blue"}},
                        perms |-> {NoList, Obj({}, {<<"red", "pull">>, <<"blue", "push">>}, {})}])
Selections == Situations([repo |-> There,
                          secret |-> {None, Obj({"first"}, {}, {})} \cup {Obj(s, {}, {"selected"}) : s \in SUBSET {"first", "second"}},
                          variable |-> {None, Obj({"second"}, {}, {"selected"})} \cup {Obj(s, {}, {}) : s \in {{}, {"first"}}}])
Bypasses(o) == Situations([red |-> Member, blue |-> {None}] @@
                          (o :> {None} \cup {Obj(s, {}, {"deletion"}) : s \in {{}, {"red"}, {"app", "role"}, {"red", "role"}, {"red", "custom"}}}))
RulesOf(o) == Situations(o :> {None} \cup {Obj({}, c, d) : c \in {{}, {"app"}, {"any", "none", "number"}}, d \in {{}, {"deletion"}}})
Deployment == Situations([env |-> {None, Obj({}, {}, {})},
                          rule |-> {None, Obj({}, {}, {"deletion"}), Obj({}, {}, {"deployment"})}])
Environment == Situations([red |-> Member, blue |-> {None},
                           env |-> {None, Obj({}, {"main"}, {})} \cup {Obj(s, {}, {}) : s \in {{}, {"red", "kim"}}}
                                    \cup {Obj({"kim"}, p, {"selected"}) : p \in SUBSET {"main", "tags"}}])
Pages == Situations([pages |-> {None, Obj({}, {}, {})}, env |-> {None, Obj({}, {}, {})}])
Protection == Situations([red |-> Member, blue |-> {None},
                          branch |-> {None} \cup {Obj(s, c, d) : s \in {{}, {"red"}, {"kim", "app"}},
                                                       c \in {{}, {"none", "app"}, {"actions"}, {"nosuch"}}, d \in {{}, {"reviewed"}}}])

MCCases == {Start(s) : s \in People \cup TwoTeams \cup Selections \cup Bypasses("orgrule") \cup Bypasses("rule")
                             \cup RulesOf("orgrule") \cup RulesOf("rule") \cup Deployment \cup Environment \cup Pages \cup Protection}
=============================================================================
