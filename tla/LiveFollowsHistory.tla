------------------------- MODULE LiveFollowsHistory -------------------------
(***************************************************************************)
(* What applying merged pull requests promises about the live settings:    *)
(* the history of the default branch only grows, and a live setting is     *)
(* only ever given a value by a commit that changed this very setting.     *)
(***************************************************************************)
EXTENDS Naturals, Sequences

CONSTANTS Settings, Configs     \* what is configured, and how it may be

VARIABLES
    history,   \* the configurations along the default branch
    live       \* the settings of the organization

vars == <<history, live>>

\* Commit n of the history changed the setting.
ChangedBy(n, s) ==
    /\ n \in 2 .. Len(history)
    /\ history[n][s] # history[n - 1][s]

Init ==
    /\ history \in {<<c>> : c \in Configs}
    /\ live = history[1]

Grow ==
    /\ \E n \in 1 .. 2 : Len(history') = Len(history) + n
    /\ SubSeq(history', 1, Len(history)) = history
    /\ UNCHANGED live

Write ==
    /\ \E s \in Settings, n \in 1 .. Len(history) :
          /\ ChangedBy(n, s)
          /\ live' = [live EXCEPT ![s] = history[n][s]]
    /\ UNCHANGED history

Next == Grow \/ Write

Spec == Init /\ [][Next]_vars
=============================================================================
