------------------------------- MODULE MCMainLoop ------------------------------
(***************************************************************************)
(* The three parts the main loop serves, for TLC: the calls of clients,    *)
(* the list of events they read, and the timer of the settings.  They      *)
(* share no state, so what is checked are the behaviours of one part or    *)
(* another, never two at once.                                             *)
(***************************************************************************)
EXTENDS ControlDispatch, EventHistory, SettingsSync

VARIABLE part           \* the one that moves

LoopInit ==
  /\ part \in {"dispatch", "history", "settings"}
  /\ Init /\ HistoryInit /\ SettingsInit
  /\ part # "settings" => condition = "absent" /\ content = EmptyDocument

LoopNext ==
  /\ \/ part = "dispatch" /\ Next /\ UNCHANGED <<historyVars, settingsVars>>
     \/ part = "history"  /\ HistoryNext /\ UNCHANGED <<vars, settingsVars>>
     \/ part = "settings" /\ SettingsNext /\ UNCHANGED <<vars, historyVars>>
  /\ UNCHANGED part

\* Nothing that fairness is about can be done in the initial state of a part, so a part
\* that does not move is treated fairly.
LoopSpec ==
  /\ LoopInit /\ [][LoopNext]_<<part, vars, historyVars, settingsVars>>
  /\ Fairness /\ SettingsFairness

================================================================================
