---------------------------- MODULE MCBlueprints ----------------------------
(* Bounded instances of Blueprints for TLC, and what the documentation says *)
(* of blueprints that the code does not always keep.                       *)
EXTENDS Blueprints

\* docs/reference/blueprints/index.md: "If a blueprint is defined for an
\* organization, otterdog will check if the matching repositories of the
\* organization comply to the configuration of that blueprint."  So once the
\* blueprint is fetched, its configuration is the one that is checked.
ConfigurationIsFetched ==
    Calm /\ tasks = {} /\ model # None => model.config = defined.config
=============================================================================
