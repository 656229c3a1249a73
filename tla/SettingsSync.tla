------------------------------- MODULE SettingsSync ----------------------------
(***************************************************************************)
(* The settings of a running window and the file they come from, which the *)
(* user edits with other programs while the window reads and writes it.    *)
(*                                                                         *)
(*   rust/model/src/settings.rs     decode_settings, encode_settings       *)
(*   rust/model/src/persistence.rs  load_settings_at_launch,               *)
(*                                  reload_settings, save_settings         *)
(*   rust/model/src/platform.rs     FileFingerprint, PollingFileWatcher    *)
(*   rust/app/src/terminal.rs       initialize, poll_settings,             *)
(*                                  apply_settings, attach_settings_source *)
(*   rust/app/src/dialogs.rs        request_settings, the sidebar toggle   *)
(*                                                                         *)
(* The content of a file is what its known keys say and the rest of it.    *)
(* Every edit by somebody else leaves a mark of its own in the rest, an    *)
(* unknown key say, so that one can see which edits a document goes back   *)
(* to.  A fingerprint has the time of the last change: it differs after    *)
(* every write.  How a file is replaced step by step is in StateStore.     *)
(***************************************************************************)
EXTENDS Naturals

CONSTANTS
  Values,               \* what the known keys may say
  Default,              \* one of them: what they say when they are absent
  Invalid,              \* keys that are absent, or say what is not valid
  MaxEdits              \* bound of the model: edits by others

ASSUME SettingsAssumption ==
  Default \in Values /\ Invalid \notin Values /\ MaxEdits \in Nat

Marks    == 0 .. MaxEdits
Contents == [known : Values \union {Invalid}, mark : Marks]

(***************************************************************************)
(* "absent"  no file                                                       *)
(* "good"    a JSON object of a version that can be read                   *)
(* "bad"     half written, malformed or of a later version                 *)
(* "unsafe"  a symbolic link, of another owner, or too large               *)
(***************************************************************************)
States == {"absent", "good", "bad", "unsafe"}

VARIABLES
  condition,            \* which of these the file is
  content,              \* what it holds when it is good
  changed,              \* it was written since the watcher took its fingerprint
  stage,                \* "off", "loaded", "idle", "reloading"
  raw, resolved,        \* the document in memory, persistence.settings
  watching,             \* settings_watcher is not None
  dialog,               \* the settings dialog is open ...
  base,                 \* ... and was opened on this document
  missed,               \* the last write was between the load and the first fingerprint
  edits                 \* edits by others so far

file == <<condition, content, changed>>
memory == <<raw, resolved>>
settingsVars == <<file, stage, memory, watching, dialog, base, missed, edits>>

Document == <<raw, resolved>>

\* resolve(validated_map(raw))
Resolved(c) == IF c.known = Invalid THEN Default ELSE c.known

\* encode_settings: the known keys replace what the raw document says of them.
Encoded(r, v) == [r EXCEPT !.known = v]

EmptyDocument == [known |-> Invalid, mark |-> 0]

SettingsInit ==
  /\ condition \in {"absent", "good"}
  /\ content \in [known : Values \union {Invalid}, mark : {0}]
  /\ changed = FALSE
  /\ stage = "off"
  /\ raw = EmptyDocument /\ resolved = Default
  /\ watching = FALSE
  /\ dialog = FALSE /\ base = <<raw, resolved>>
  /\ missed = FALSE
  /\ edits = 0

Decoded(c) == raw' = c /\ resolved' = Resolved(c)

--------------------------------------------------------------------------------
(* A launch. *)

\* load_settings_at_launch: a file that can be read but not decoded is set aside, or
\* stays where that fails; in both cases the defaults are used.
Load ==
  /\ stage = "off"
  /\ Decoded(IF condition = "good" THEN content ELSE EmptyDocument)
  /\ condition' \in IF condition = "bad" THEN {"bad", "absent"} ELSE {condition}
  /\ stage' = "loaded"
  /\ missed' = FALSE
  /\ UNCHANGED <<content, changed, watching, dialog, base, edits>>

\* PollingFileWatcher::new, further down in initialize: whatever is there by now counts
\* as seen.  No watcher if the file is unsafe.
Watch ==
  /\ stage = "loaded"
  /\ changed' = FALSE
  /\ watching' = (condition # "unsafe")
  /\ stage' = "idle"
  /\ UNCHANGED <<condition, content, memory, dialog, base, missed, edits>>

--------------------------------------------------------------------------------
(* The timer, every 250 ms. *)

\* A mistake Poll avoids: a change is put off, and forgotten, while the dialog is open.
PollUnlessDialog ==
  /\ stage = "idle" /\ watching
  /\ changed /\ condition # "unsafe"
  /\ changed' = FALSE
  /\ stage' = IF dialog THEN "idle" ELSE "reloading"
  /\ UNCHANGED <<condition, content, memory, watching, dialog, base, missed, edits>>

\* Another: it waits for the dialog to be closed.
PollAfterDialog ==
  /\ stage = "idle" /\ watching /\ ~ dialog
  /\ changed /\ condition # "unsafe"
  /\ changed' = FALSE
  /\ stage' = "reloading"
  /\ UNCHANGED <<condition, content, memory, watching, dialog, base, missed, edits>>

\* poll_settings, PollingFileWatcher::poll: a new fingerprint, which is the previous one
\* from now on.  An unsafe file is an error and changes nothing.
Poll ==
  /\ stage = "idle" /\ watching
  /\ changed /\ condition # "unsafe"
  /\ changed' = FALSE
  /\ stage' = "reloading"
  /\ UNCHANGED <<condition, content, memory, watching, dialog, base, missed, edits>>

\* poll_settings, reload_settings and apply_settings: what is there now, if it is good.
Reload ==
  /\ stage = "reloading"
  /\ IF condition = "good" THEN Decoded(content) /\ missed' = FALSE
     ELSE UNCHANGED <<memory, missed>>
  /\ stage' = "idle"
  /\ UNCHANGED <<file, watching, dialog, base, edits>>

--------------------------------------------------------------------------------
(* The user. *)

\* save_settings replaces the file; the watcher is not told.
Saves(r, v) ==
  /\ condition # "unsafe"
  /\ condition' = "good"
  /\ content' = Encoded(r, v)
  /\ changed' = TRUE
  /\ missed' = FALSE

\* The command that shows or hides the sidebar: the document in memory with one value
\* changed.  It stays what it was if it cannot be saved.
Toggle(v) ==
  /\ stage = "idle" /\ ~ dialog
  /\ Saves(raw, v)
  /\ resolved' = v
  /\ UNCHANGED <<stage, raw, watching, dialog, base, edits>>

OpenDialog ==
  /\ stage = "idle" /\ ~ dialog
  /\ dialog' = TRUE
  /\ base' = Document
  /\ UNCHANGED <<file, stage, memory, watching, missed, edits>>

\* A mistake SaveDialog avoids: it does not look whether the settings changed meanwhile.
SaveDialogAnyway(v) ==
  /\ stage = "idle" /\ dialog
  /\ Saves(base[1], v)
  /\ raw' = base[1] /\ resolved' = v
  /\ dialog' = FALSE
  /\ UNCHANGED <<stage, watching, base, edits>>

\* Save: refused when the document in memory is not the one the dialog was opened on.
SaveDialog(v) ==
  /\ stage = "idle" /\ dialog
  /\ base = Document
  /\ Saves(base[1], v)
  /\ raw' = base[1] /\ resolved' = v
  /\ dialog' = FALSE
  /\ UNCHANGED <<stage, watching, base, edits>>

CloseDialog ==
  /\ stage = "idle" /\ dialog
  /\ dialog' = FALSE
  /\ UNCHANGED <<file, stage, memory, watching, base, missed, edits>>

\* The window is closed, or the process dies.
Stop ==
  /\ stage # "off"
  /\ stage' = "off"
  /\ Decoded(EmptyDocument)
  /\ watching' = FALSE /\ dialog' = FALSE
  /\ base' = <<EmptyDocument, Default>>
  /\ missed' = FALSE
  /\ UNCHANGED <<file, edits>>

--------------------------------------------------------------------------------
(* Other programs. *)

\* An edit, complete or half done, the removal of the file, or a link in its place.
Edit(s, k) ==
  /\ edits < MaxEdits
  /\ edits' = edits + 1
  /\ condition' = s
  /\ content' = IF s = "good" THEN [known |-> k, mark |-> edits + 1] ELSE content
  /\ changed' = TRUE
  /\ missed' = (missed \/ stage = "loaded")
  /\ UNCHANGED <<stage, memory, watching, dialog, base>>

--------------------------------------------------------------------------------
User ==
  \/ \E v \in Values : Toggle(v) \/ SaveDialog(v)
  \/ OpenDialog \/ CloseDialog

SettingsNext ==
  \/ Load \/ Watch \/ Poll \/ Reload \/ User \/ Stop
  \/ \E s \in States, k \in Values \union {Invalid} : Edit(s, k)

SettingsSpec == SettingsInit /\ [][SettingsNext]_settingsVars

\* A launch goes on, and GLib runs the timer: a main loop in the middle of
\* poll_settings finishes it.
SettingsFairness ==
  WF_settingsVars(Watch) /\ WF_settingsVars(Poll) /\ WF_settingsVars(Reload)

SettingsFairSpec == SettingsSpec /\ SettingsFairness

--------------------------------------------------------------------------------
(* Properties *)

SettingsTypeOK ==
  /\ condition \in States
  /\ content \in Contents /\ raw \in Contents
  /\ resolved \in Values
  /\ stage \in {"off", "loaded", "idle", "reloading"}
  /\ changed \in BOOLEAN /\ watching \in BOOLEAN /\ dialog \in BOOLEAN /\ missed \in BOOLEAN
  /\ base \in Contents \X Values
  /\ edits \in Marks

\* The settings in force are not what the file says.
Behind == condition = "good" /\ resolved # Resolved(content)

\* "External edits are noticed": when the settings in force differ from the file, the
\* watcher has yet to see its last change, so the next poll will.  The two holes are
\* named: a write between the load and the first fingerprint, and a file that was unsafe
\* at the launch, which leaves no watcher.
EditsNoticed == stage = "idle" /\ Behind => changed \/ missed \/ ~ watching

\* A good file does not stay ahead of the settings in force, dialog or not.
EditsArrive == (stage = "idle" /\ watching /\ ~ missed /\ Behind) ~> ~ (stage = "idle" /\ Behind)

\* No save of the program goes back behind an edit it has already taken over, and none
\* drops what it does not understand of that edit: the file still has its mark.
TakenEditKept ==
  [][\A v \in Values :
       Toggle(v) \/ SaveDialog(v) => content'.mark >= raw.mark]_settingsVars

================================================================================
