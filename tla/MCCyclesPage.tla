---------------------------- MODULE MCCyclesPage ----------------------------
(***************************************************************************)
(* Instances of CyclesPage and SettingsPage for TLC: a tab shows one page  *)
(* or the other.                                                           *)
(***************************************************************************)
EXTENDS CyclesPage, SettingsPage

CONSTANTS g1, g2, c1, c2

VARIABLE tab

\* Some group has a cycle; where the first rounds of one are over the other group
\* has none.
TabInit ==
    /\ Init /\ SettingsInit
    /\ route = g1
    /\ \/ /\ tab = "cycles"
          /\ \E g \in Groups : status[g] = "in_progress"
          /\ done # {} => status[g2] = "none"
          /\ url = g1 /\ store = None /\ locked = {} /\ account = [g \in Groups |-> None]
       \/ tab = "settings" /\ status = [g \in Groups |-> "none"]

tabVars == <<vars, settingsVars, tab>>

TabNext ==
    \/ tab = "cycles" /\ Next /\ UNCHANGED <<settingsVars, tab>>
    \/ tab = "settings" /\ SettingsNext /\ UNCHANGED <<vars, tab>>

TabSpec == TabInit /\ [][TabNext]_tabVars /\ Fairness

=============================================================================
