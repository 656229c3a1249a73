# Kitmux for Linux: models, checks and proofs

TLA+ models of the parts of this repository whose correctness depends on the
order in which things happen, the TLC runs that check small instances of them,
and TLAPS proofs of what holds for every instance. Source paths below are
relative to `kitmux-linux/`.

## The system

Kitmux is a terminal multiplexer in one GTK4 window. The Rust host (`rust/app`)
owns a hierarchy of workspaces, groups, tabs and split panes (`rust/model`), runs
one terminal session per pane through the locked C library libkitty, keeps the
hierarchy in a snapshot file, and lets local programs (`kitmuxctl`) control it over
a Unix socket.

| component | state | operations | interacts with |
|---|---|---|---|
| control server (`model/src/control_socket.rs`) | `stop`, `active_clients`, the socket path | accept, refuse, read a frame, answer, stop and join | one thread per client; the dispatch handler |
| control dispatch (`app/src/control.rs`, `install_control_server`) | the bounded queue, `wake_pending`, `CONTROL_WAKE` | enqueue, wake, drain, dispatch, answer, time out | client threads and the GTK main loop |
| event history (`control_socket.rs`) | cursor counter, ring of 512 events | record, list, cursor | client threads, main loop, pollers |
| snapshot store (`model/src/persistence.rs`, `platform.rs`) | `state.json`, `.last-good`, what was set aside, temporary files, `state_may_write` | load, set aside, recover, save | every process of the (NON_UNIQUE) application, the file system |
| hierarchy (`model/src/model.rs`, `split.rs`) | nested sequences with a selected position each, split trees, focused panes | append, select, cycle, move, close, split, swap, focus | navigation, snapshot |
| navigation and sessions (`app/src/terminal.rs`, `navigation.rs`, `control.rs`) | `navigation`, `sessions`, `active_surface_id` | commands, control requests, `reconcile_sessions`, restore | hierarchy, libkitty, window |
| split tree (`split.rs`, zoom in `terminal.rs`) | tree, ratios, `zoomed_pane` | split, close, swap, resize, drag, layout, nearest pane in a direction, zoom | navigation, window |
| close review (`app/src/dialogs.rs`, `window.rs`, `control.rs`) | `close_confirmed`, `modal_dialog_open`, the dialog that is shown | close, review, confirm, shell exit, SIGTERM, shutdown | navigation, control requests |
| resume (`model/src/resume.rs`, `app/src/terminal.rs`, `dialogs.rs`, `restore.rs`) | saved commands, pending offers, the review and its ticks, the editor | name a command, save, offer, review, run, edit | snapshot, sessions |
| settings (`model/src/settings.rs`, `persistence.rs`, `platform.rs`) | the settings file, the document in memory, the watcher's fingerprint | load, poll, reload, save, apply | dialog, sidebar toggle, editors outside |
| SSH profiles (`model/src/ssh.rs`, `app/src/ssh.rs`, `control.rs`) | profile file, its copy in each process, approvals, SSH surfaces | open, create, update, delete, resolve, approve, connect, reconnect, restore | control requests, ssh_config, every process |
| surface registry (`model/src/runtime.rs`) | surface stack of a pane | add, select, close | hierarchy |
| snapshot codec (`model/src/state.rs`, `app/src/restore.rs`) | none | encode, validate, restore | snapshot store |
| interaction trackers (`model/src/interaction.rs`) | pressed keys, scroll remainder, search, pending paste | key events, paste review | window |
| control catalog, CLI, import | none | parse, format, convert | |
| window, menus, rendering, FFI | GTK objects | wiring and drawing | everything |
| C prototype host, libkitty, scripts | - | superseded, third party, or not part of the program | |

### Where it is hard

* Threads. The accept thread, up to 32 client threads and the main loop share a
  queue, an atomic flag that coalesces wake-ups, a slot count and the event ring;
  a client gives up after two seconds while its call stays queued; shutdown joins
  the accept thread on the main loop.
* Crashes. A save replaces two files, each through a temporary file, a rename and
  a directory sync; a kill or a power failure may come between any two of them,
  any call may fail, and several processes work on the same files.
* Sequences. Selection, focus, sessions and the surface that receives the
  keystrokes are four pieces of state that the handlers bring into agreement by hand; some
  handlers return early, some put an old selection back.
* Staleness. A close review, the editor of resume commands and the settings dialog
  are opened on one state and answered on another; resume offers and SSH approvals are
  checked long before they are used; a stopping server compares an inode it noted at its start.
* Flags. `close_confirmed` and `modal_dialog_open` are set and reset by hand on
  many paths; one path that forgets lets every later close skip its review, or
  refuses every request for good.

### What makes each component correct

* Control dispatch: no queued call without a wake-up; a call is carried out at most
  once, in order, and exactly those are that were accepted; every slot is given
  back; every answer is true and leaves a trace; shutdown completes.
* Control socket: of servers that start together one wins; nobody removes the
  socket of a live server.
* Event history: no event disappears while there is room, none is delivered twice.
* Snapshot store: after an acknowledged save every launch finds that session; a
  launch that would find a session still does after any step, crash or power failure;
  the file of a later version is lost only to a process that was there before it.
* Hierarchy: every level always has a selected element; closing takes exactly what it
  must and selects a predictable successor; reordering does not move the focus.
* Navigation: the active surface always has a session, the sessions of panes that
  stay are never ended, those of closed panes are, and keys go to the focused pane.
* Split tree: the layout tiles the window, no pane falls below its minimum while
  there is room, every pane can be reached by focus commands.
* Close review: no running program is ended outside the scope that was reviewed or forced; the
  review is of what its command would close; SIGTERM always closes.
* Resume: no crash loses a command; only what was shown, ticked and is unchanged runs.
* Settings: an edit from outside arrives, and no save undoes one that has.
* SSH: every connection was approved as it resolved and runs that, unless ssh_config changed
  before it started; an edit of a profile clears its approval.

`PROJECT.json` lists the hazards behind these, each at its line.

## Modules

| module | models |
|---|---|
| `ControlDispatch` | accept thread, client threads, queue, wake-up, main loop, shutdown |
| `CallService` | what callers are promised: the abstraction `ControlDispatch` implements |
| `SocketPath` | processes that start and stop control servers on one path |
| `EventHistory` | the ring, the cursor counter and a poller |
| `StateStore` | files, atomic writer, loading, saving, crashes, several processes |
| `SnapshotStore` | what saving promises: the abstraction `StateStore` implements |
| `AppModel` | the hierarchy as operators on nested sequences |
| `Navigation` | the handlers that apply them, sessions and the active surface |
| `SplitTree` | one tab: split tree, layout, ratios, directional focus, zoom |
| `Closing` | closes, the review, the two flags, shell exits, SIGTERM |
| `ResumeReview` | resume commands from the shell to the file, the review and back |
| `SettingsSync` | the settings file, its watcher, the dialog and editors outside |
| `SshLaunch` | profiles, approvals and connections of several processes |
| `*Proofs` | theorems about the module of that name; `ControlDispatchProofs` has those about `EventHistory`, too, `SshLaunchProofs` those about `SettingsSync` |
| `MC*` | instances for TLC: symmetry sets, the hierarchy of `closing`; `MCMainLoop` puts `ControlDispatch`, `EventHistory` and `SettingsSync` into one run |

Definitions named as a mistake ("A mistake X avoids") are not part of a model.
They are plausible bugs: put in the place of the definition they name, each makes TLC
report the property that guards against it.

### ControlDispatch

`pc[c]` is the position of the thread serving connection `c`; the comment above
`Serving` translates its values. `acceptor` is the accept thread, `active` the
slot counter, `queue`, `wakePending` and `wakes` the dispatch queue, the flag and the closures
glib has queued on the main context (`MainContext::invoke` from another thread
queues an idle source, because the main thread owns the context while the
application runs). `host` is the main loop: idle, running the closure
("woken": it has cleared the flag and not yet drained the queue), dispatching
the drained batch, or joining the accept thread. One action is one atomic step of one thread:
a lock region, an atomic operation, a system call. Drain and dispatch are
separate because `take` releases the queue lock before the first call runs.

Abstracted: the frame (a valid or an invalid one), the method, the clock (an armed
timer may fire at any moment), the response bytes. Mutex poisoning is left out.

### SocketPath

A socket is its inode. `path` is the inode at the socket path, `listener[i]` the process whose
open listener is bound to `i`, `pc[p]` the next system call of `ControlServer::start`, of the end of
`accept_loop` or of `Drop`, `identity[p]` what `socket_identity` noted after bind. A new socket
gets any inode that no open or renamed socket holds; `again` keeps the numbers that were given
out more than once, so that a property can say on which file systems it holds. `Kill` may
come anywhere, `StartFails` wherever `?` returns after bind, `RenameAway` at any time except
between a server's last look at the path and its removal.

Left out: modes and owners, things at the path that are no sockets, a path that is renamed
back.

### EventHistory

`record()` takes a cursor from the atomic counter and then the lock of the ring;
`ClaimCursor` and `PushEvent` are those two steps, so events may be out of
cursor order. `ListEvents` and `ReadCursor` are the two calls the `event.list` arm makes,
between which other threads may record. What `list` returns is kept as a set: its order
plays no part, which events it holds does.

### StateStore

A file is what `decode_snapshot` makes of its bytes and whether they were synced.
`dir` is the directory the processes see; `images` the directories a power failure
may leave: all since the last directory sync. `step[p]` walks through
`load_state_at_launch` and `save_state` one system call at a time. `set_aside` links and
then removes whatever is at the path *now*. `SaveFails` may end a save
anywhere, `Stop` a process, `PowerFails` the machine.

`LaterVersionSaves` is a kitmux of a later version that writes the primary, at any time: the application is
NON_UNIQUE and `state_may_write` is decided at the launch, so a process of this version may be at work then
and go on writing. Two variables are the model's, not the code's: `overtaken` are the processes that
were at work when a later version last saved, `contested` is set once two processes were at work at once or
somebody else changed a file, and stays set.

### AppModel and Navigation

A container is `[id, items, active]`; a tab `[id, panes, focused]`, with the depth-first
order of its split tree's leaves. `AppModel` has one operator per method of
`AppModel`, `WorkspaceModel`, `GroupModel` and `TabModel` that changes something.
`Navigation` has one action per handler: what the handler does to the hierarchy
followed by `reconcile_sessions` (`Changed`), or an early return after the
hierarchy was touched (`Refused`). `RequestClosePane` keeps the order of the code:
close, reconcile, select the old positions again. `Relaunch` is the restore
of `Terminal::initialize`, where only the focused surface must get a session.

Left out: labels, surface stacks (the application has one surface per pane), what `SplitTree`
has (zoom, ratios, which pane lies in which direction; here a directional move is a
`FocusPane`), and the review in front of a close, which `Closing` has.

### SplitTree

`root` is the `SplitNode` of a tab as a function: from the ways that lead from the root to a node
(sequences of `"first"` and `"second"`) to that node, a pane or a split. A split, which has a UUID in the
code, is named by its way. What the code does by recursion on the tree is a recursive function of
the way here: minimum sizes and `pane_ids` from the panes up, the frames from the root down.
Ratios, f64 in the code, are integers in units of 1/`Scale`. In the run `Scale` is a common multiple
of all lengths, so every division of the code is exact; the proofs ask only that it is finer than a
pixel and a multiple of ten (`FineAssumption`). `FirstLength`, `FirstRect`,
`SecondRect` and `DividerRect` are `fill_layout`, `LowerBound` and `UpperBound` `ratio_bounds`,
`Innermost(Movable(..))` is `resize_target`, `Neighbour` is `directional_neighbor`. Of `split_layout` the
model keeps that a zoomed pane of the tab leaves no dividers.
`TabKept` ties the tree to `AppModel`: on the order of the leaves and the focus, every step is
the operator `Navigation` uses for it, and that is proved.

Left out: the hit test of dividers (any divider may be dragged at any time), fractional
pointer positions, the rounding of f64, a change of the display's scale factor while a tab is shown
(`Gap` is `SPLIT_GAP` times it, a constant), other tabs (a zoomed pane that is closed stands for every
zoomed pane that is not in the tab shown), and trees loaded from a file: a tab begins with one pane.
That matters for the ratios only: `state.rs` (`model/src/state.rs:181`) accepts any ratio between 0
and 1 (`model/src/split.rs:141`), the program itself writes none outside a tenth and nine tenths
(`RatiosBounded`).

### Closing

A handler runs to its end on the GTK main loop and is one action. `confirmed` and `modal` are the
two flags, `dialog` what is shown: nothing, another guarded dialog, or a close review. Of a review the model
keeps the panes its command would close (`covers`) and those of them that were busy when it was shown, which
it counted (`counted`); the code keeps the number only. `CloseUnreviewed`, `AskForScope`, `ConfirmScope` are the three ways through
`request_navigation_command`, `CloseHandler` is the handler of `window.close()`, which the
close button, a confirmed review, an exited shell (`IdleClose`) and SIGTERM (`ServeTerm`) reach.
While a dialog is up the user's keys go to it; requests are refused by `NotPaused`;
programs, shells, the settings timer and signals go on. `window = "aborted"` is the end of
`RequestCloseLast`: see "Seen, without a run".

Of the hierarchy `Home` says which panes share a tab, a group, a workspace. Which pane
is selected after a close is left open (`Navigation` has it), which only adds behaviours.
`on_child_exit` asks whether the session is the visible one, which follows `active_surface_id`; here that is the
selected pane's. The two part only as in the run `navigation_input`.

### ResumeReview

A surface stands for itself and its pane. `saved` is the state file, `shell`, `command`, `dir` and
`known` are the sessions, `offers` what a launch found to offer, `rows` and `ticked` the review.
`Capture` is a user variable of a shell, saved at once; `Pump` and `ChangeDir` let the directory
a session knows lag behind the one its shell is in; `RemoveDir` makes a saved one unusable.
`RunSelected` is the whole of `run_resume_commands` with its second check of each ticked row
(`Executable`). A save may fail (`unsaved`), the process may `Crash` at any point.

Left out: SSH surfaces (they save no command), windows that may not write, launches that
do not restore the layout, and how the file is replaced, which is in `StateStore`.

### SettingsSync

A document is what its known keys say and a mark for the last edit from outside it goes back to.
`Load` and `Watch` are two steps of `initialize` with time between them; `Poll` and `Reload` are the
fingerprint and the reading of the file, with time between them as well. `Edit` is another
program: a good document, a half-written one, a removal or a link. `missed` marks an edit
between `Load` and `Watch`, which the watcher takes for the state it starts from.

### SshLaunch

`store[p]` is the document process `p` has in memory, `onDisk` the file all share. A save may fail
before or after the file is replaced (`HalfSaved`: the rename is done, the sync of the
directory is not). `config` is the user's ssh_config, which may change at any time.

A request is three steps, with the world going on in between: `Connect` or `Reconnect` takes what `ssh -G`
answers, compares it with the approval and with what the request names; `Approve` or `ApprovalFails` stores
the new approval, if one is needed; `Start` starts ssh, which reads the configuration again. The main loop
waits for all of it, so the process does nothing else meanwhile (`Turn`), but the file, the configuration
and other processes go on. A surface keeps the answer it was started on (`as`), what its request
named, whether the configuration changed between (`drifted`), and what the started ssh read (`ran`).

`FileEdited` is a user who edits a profile in the file, which is the only way to change one in this version:
the store's create, update and delete are methods no command of the application calls yet. The model has
them for what they promise. Such an edit leaves the approval in place; `handEdited` keeps the profiles it
happened to. `agreed` collects what some request has named. Both are the model's, not the code's.

## Runs

| run | instance | question |
|---|---|---|
| `main_loop` | dispatch: 3 connections, 2 slots, queue of 2; events: 3 threads, ring of 3, limit 2, 6 events; settings: 2 values, invalid keys, 3 edits; fairness | wake-ups, slots, true answers, audit, refinement of `CallService`, queued calls are carried out, shutdown completes; no event lost while there is room, none twice; edits are noticed and arrive, saves undo none |
| `state` | 2 processes, 2 edits, 2 damages or saves of a later version | refinement of `SnapshotStore`; a usable store stays usable; a later version's file is lost only to a process that was there before |
| `state_newer` | 1 process, 1 edit | expected violation: a later version's file is rewritten |
| `navigation` | 3 live panes, 4 names | sessions, active surface, closing, moving, successors |
| `navigation_input` | 3 panes | expected violation: keys go to a pane that is not focused |
| `socket_path` | 3 processes, 4 inodes | one winner, live sockets stay |
| `splits` | 3 panes, windows of 5 and 12 by 8 pixels, gap 1, minimum 2 by 2 | tiling, minimum sizes, reachability, resize and drag, agreement with `AppModel` |
| `divider_drag` | 2 panes, 24 by 24 pixels, gap 4 | expected violation: a dragged divider is not centred under the pointer |
| `closing` | 5 panes: two in one tab, one each in a second tab, group and workspace, the last with SSH; fairness | review and selection, flags, kills stay in the reviewed scope, SIGTERM closes |
| `closing_busy` | 2 panes | expected violation: a program started during the review is ended without a further question |
| `resume` | 2 surfaces, 2 commands, home and 1 directory | commands survive crashes, the editor's subject, only reviewed commands run |
| `ssh` | 2 processes, 1 pane, 1 profile, 2 commands, 2 resolutions | approved launches, edits clear approvals |

`main_loop` has three systems that share no state: which one moves (`part`) is chosen at the start and
stays, so its behaviours are those of the one or the other, and its states the sum of theirs. The fairness is
the conjunction of the parts' own. It does not weaken what the moving part is asked for, and holds of the
others by itself: in their initial states none of the steps it is about is enabled.

Why the bounds are enough.

* *main_loop*, dispatch: two slots hold a pair of client threads in the push/swap/invoke window while the
  third connection is over the limit or comes into a slot given back; a queue of two can be full
  while a batch of two is being dispatched. Events: two recording threads beside the main loop
  reorder their pushes, and six events wrap a ring of three. Settings: an edit before the watcher's first look, one while a
  dialog is open and one after.
* *state*: two processes are what the set-aside race and the overtaken process need; two damages can
  hit both files, or be a later version's save and a damage. Two edits and the session of a first start
  are the three snapshots a save deals with: the one in the primary, the one in last-good and its own.
* *navigation*: three panes give each level up to three elements, a first, a middle and a last; a
  fourth name lets a container outlive the pane it is named after.
* *socket_path*: a process that stops, one that starts on what it leaves and a third that races the
  second; four inodes, one per socket and one that was renamed.
* *splits*: three panes give every nesting of two splits in the same and in different axes; 12 pixels
  have room for all of them, 5 only for one split, so that both branches of the layout and the
  missing bounds are reached; a keyboard step of 3/10 instead of 1/20 reaches the bounds in
  two steps and meets both roundings. Random simulation of four panes over 11 by 9 to 12 by 12
  pixels, with ten pointer positions (about 150,000 states), found no error either.
* *closing*: for p1, every scope has a pane inside it beside p1 and one outside; tabs, groups and
  workspaces are closed, and kept where they are the last of their parent.
* *resume*: one surface is active while the other changes; two commands make the one a review
  shows differ from the one its session has by then, one directory beside home does the same for
  directories.
* *closing_busy*, *divider_drag*, *state_newer*, *navigation_input*: the smallest instance that has the
  case; the gap is the code's 4, an even number, so that its centre is a pixel.
* *ssh*: one resolution without and one with an externally listening forward, two commands to
  update between, two processes with diverging documents. Panes and profiles do not interact but for
  sharing the document, which two commands of one profile already show. Two panes of
  one process, and two hosts instead of two commands, were run by hand and found no error either.

Runs whose system comes to an end (all connections over, the event or edit budget used up,
the window closed) do not check deadlock; the others do.

`UsableForGood` has a condition: last-good is usable in every directory a power failure may leave, or
there was at most one damage. With both files damaged once, a process that has found the primary
unusable and is about to set it aside may remove the good primary another process has written since,
while last-good is still the damaged one. The run `state` finds that behaviour if the condition is dropped.

### Fairness

* `ControlDispatch`: weak fairness of the accept thread, of the main loop and of each client thread.
  The kernel schedules runnable threads, and every wait of theirs is a poll (accept, every 10 ms)
  or has a timer (`set_read_timeout`, `recv_timeout`), so each of them is always enabled again.
  Nobody is obliged to connect, to quit, or to make `accept` fail.
* `Closing`: weak fairness of `ServeTerm`, the timer that looks at the signal's flag, and of `IdleClose`,
  an idle source: GLib dispatches both while a dialog is open. Nobody has to answer a dialog.
* `SettingsSync`: weak fairness of `Watch` and `Reload`, where the main loop is in the middle of a
  handler, and of `Poll`, a timer every 250 ms. Nobody has to save or to close the dialog.

## Theorems

Each module of proofs rests on one inductive invariant `IInv`, on the assumptions about the
constants that the module names, and on nothing else. All theorems are for every value of the
constants: any number of processes, threads, panes or surfaces, any limits.

| module | proved | `IInv` adds to the properties |
|---|---|---|
| `ControlDispatchProofs` | all safety properties of the dispatch in `main_loop`, at-most-once, the refinement of `CallService` | who carries the one wake-up, the stage of each call, the exact count of records |
| the same, `HistoryInv` | both properties of the events in `main_loop` | claimed cursors are distinct; what was given is not after the poller's position, what is listed is |
| `SocketPathProofs` | both properties of `socket_path`, that a noted inode is one's own | what the holder of the lock saw stays true; own inodes while none comes twice |
| `StateStoreProofs` | all properties of `state`, the refinement of `SnapshotStore` among them | bytes are synced before they are renamed; an account of damage; who may write beside a later version |
| `NavigationProofs` | all properties of `navigation` | nothing to the shape and `ActiveHasSession`, but states the shape level by level |
| `SplitTreeProofs` | all properties of `splits` | that the tree is only so deep; `RatiosInv` on its own |
| `ClosingProofs` | the safety properties of `closing` | nothing: the two invariants and the type carry each other |
| `ResumeReviewProofs` | all properties of `resume` | rows have commands, only shown rows are ticked, no dialog outlives its window |
| `SshLaunchProofs`, `SettingsInv` | the safety properties of the settings in `main_loop` | the same promise for the time between the load and the first fingerprint |
| `SshLaunchProofs` | all properties of `ssh` | every approval in any document, however old, was agreed to; what a request under way was resolved to, still holds or has drifted |

*Control dispatch.* `NoLostWake` and `OneWake` are not inductive: they need `WakeInv`, which says that
the flag is set exactly while one wake-up is on its way, from the swap to the closure's first
step, and who carries it. `AtMostOnce` needs `CallInv`: the batch is non-empty while the main loop
answers, and the position of a thread tells whether its call is in `Calls`. `Audited` needs
`RecordCount`: the exact number of events per position and answer. The refinement maps `Enqueue` to
`Accept`, `DispatchCall` to `CarryOut`, the writing of a response to an answer, closing the listener
to `TurnAway`, everything else to a stutter.

*Socket path.* `StartInv`: what the holder of the lock saw at the path (a dead socket, or its own)
stays true, because only the holder binds. `OwnInv`: while no inode number comes twice, a server that
is about to remove the path finds its own inode there, and one whose listener is closed never finds
it again, so the second check in `Drop` never succeeds. `UpInv`: the socket of a server that is up is
at the path or was renamed. `OneWinner` follows from `UpInv`, `LiveSocketKept` from `OwnInv` and
`IdentityIsOwn`, action by action.

*Event history.* That a push takes an event out of the claims needs that no two threads hold the same
cursor (`RingInv`). That the poller sees nothing twice follows from two bounds (`PollInv`), whatever
the order of the ring.

*Snapshot store.* `UsableForGood` rests on an account of the damage done (`DamageInv`). While last-good was
never damaged, a save makes it usable in every directory that may survive before it touches the
primary (`LastGoodClean`); while the primary was never damaged, nobody sets it aside
(`PrimaryClean`); one damage breaks only one of the two. `LaterVersionKept` rests on `state_may_write`:
while the only copy of a later version's snapshot is the primary, no process that was launched after it
was written may write (`NewerInv`). `ImplementsPromise` is for any number of processes; what it says of them
it says until `contested`, that is of launches one after the other: `SoloInv` says where the two files are in
each step of a save and which snapshots they hold. With two processes at once the promise is not kept: the
last one to save wins.

*Navigation.* The hierarchy is three levels of the same thing, so each operation on a container
(`Selected`, `Cycled`, `Appended`, `Removed`, `Moved`, the replacement of one element) has one lemma
for all levels: it keeps the name, leaves the elements with distinct names and no common pane, and says
which panes the container holds afterwards and which element is selected. What an operation does to
the window follows by carrying that up the selected way (`WithTabKeeps`, `WithGroupKeeps`,
`WithWorkspaceKeeps`); an operation on a named pane brings it onto that way first (`PlaceSelectedKeeps`).
`ActiveHasSession` then needs only the two cases of reconciling: the focused surface has a session and
becomes the active one, or it has none and nothing changes. That a request never closes the last pane
although it asks before it focuses needs that the answer depends on the panes of the
window alone (`LastPaneIsForHost`, `HostClosesLastPane`).

*Split tree.* What the code computes by recursion on the tree is proved by induction on the length of ways.
The library's induction theorems take an operator as a parameter, which the provers cannot
instantiate; induction over a set of numbers (`Induction`, from the well-foundedness of `<`) does the
same. `DownwardDefinition` and `UpwardDefinition` say that the recursive functions of the model exist, `Downward`
and `Upward` that what goes from a split to its halves, or from the halves to a split, holds of every
node; both directions end because a tree is only so deep (`Shallow`, trivial for the finite trees of a
run). `SplitLaidOut` is the arithmetic: the parts of one split tile it, and where there is room for
it there is room for both halves. `TilesDisjoint` and `TilesCover` carry that to the view,
`FramesInside` the room. That the operations keep the shape is one lemma each (`SplitKeeps`, `WithoutKeeps`,
`SwapKeeps`, `RatioKeeps`); that the focus stays in the tree needs that the comparison in
`directional_neighbor` always has a best pane (`NeighbourFound`), which rests on the order of the
panes having each pane at one place (`PaneIdsList`).

`TabKept` needs what an operation on the tree does to `pane_ids`, which concatenates from the panes up.
A change at one node is followed up the way to the root: below every node above it the order is the
old one with one part replaced (`Replaced`, `PutAt`), or with two panes exchanged (`Exchanged`), and
what is not on that way has its old order (`KeptOther`). So `SplitOrder`, `WithoutOrder`, `SwapOrder`
and `RatioOrder` say of the whole tree what `AppModel` says of a sequence (`InsertedAfter`,
`RemovedThere`, `ExchangedThere`), and the theorem is one step per action.

`ResizeNeverShrinks` needs `RatiosInv`: a resize moves the ratio by a step and then takes it into its
bounds, so a ratio outside a tenth would be moved back. Within it, the new ratio is on the right side of the
old one (`MovedForward`, `MovedBack`), or both give the same length once the minimums have cut them
(`ShareFollowsRatio`). What the half gains its own halves share, and neither loses (`SharesGrow`,
`HalvesGrow`); `BelowGrows` takes that down to the pane, and `FramesKept` says that nothing above the
split moves. `DragFollowsPointer` is `DraggedShare`: a pixel becomes a ratio and the ratio a pixel again, with a
division and a rounding each, and comes back as itself because a ratio is finer than half a pixel
(`ThereAndBack`); the bounds of the ratio and those of the layout are then the same pixels.

`AllReachable` goes up the tree: the panes below a node are all in a set closed under moving the focus, or
all out of it. For a split that is `FocusCrosses`: some pane at the divider moves the focus to
the other side. On the near side there is a pane that reaches the divider (`EdgePane`), on the other a
pane that begins at it and overlaps the first (`FacingPane`), so `directional_neighbor` prefers
aligned panes and finds none further away than the divider is wide. Whatever it chooses lies in the
frame of the split, since frames that meet along both axes are one below the other (`FramesMeet`), and not
on the near side, where nothing overlaps the first pane and is further on. A pane could be hidden from all others
behind a divider at its whole length; `GapAssumption` excludes that: a divider, 4 pixels times
the display's scale factor, is narrower than the smallest pane, 80 by 50, up to a factor of 12.

*Close review.* The selection under a review stays what it was because requests are refused while
the flag is set, and the flag is set because every dialog that is shown sets it. What a step ends
follows from the one close it runs.

*Resume.* A row that is shown or offered has a command and only shown rows are ticked (`ReviewInv`),
so what runs was reviewed; a surface the file does not have, it has no command for (`SavedInv`).

*Settings.* That a difference is always noticed rests, at the end of a launch, on what was loaded
before there was a watcher: `LoadedInv` says it of that state.

*SSH.* An approval is written by a request that named it and by nothing else. `EarnedInv` says of every
document, on disk or in memory, that its approvals were agreed to; a request compares the answer of `ssh -G`
with one of these, or with what it names itself. `RequestInv` carries that to the start of ssh, over everything
others do meanwhile: the answer was agreed to, by this request if it listens externally, and is what the
configuration says or the request has drifted. `approve()` is told the identifier only, but the process
does nothing else during its request, so the profile it finds is the one that was resolved (`OfProfile`).

Only model-checked: liveness, which is out of the prover's reach. Every safety and every action property
of the passing runs is a theorem.

## Disagreements found

Each has a run that TLC must find violated, for a property that says what the document says.

* `navigation_input`: `pane.move` and `pane.split` move the focus before they are refused, and
  `pane.close` puts old positions back after the reconciliation (`app/src/control.rs:304`). The model
  then says one pane is focused and keys go to another, until the next change.
  `contracts/feature-inventory.json:538` says "Only the focused surface receives ordinary input".
* `divider_drag`: `resize_divider` makes the pointer's place the end of the first half
  (`app/src/terminal.rs:808`), so the divider begins at the pointer. `contracts/feature-inventory.json:980` says
  "a drag centers the divider under the pointer". `DragFollowsPointer` states what the code does.
* `closing_busy`: on confirmation of a review `app/src/dialogs.rs:192` counts the busy panes again, for the log
  only, and goes on. `contracts/feature-inventory.json:1354` says "newly-busy panes re-prompt".
  `KillsStayInScope` states what is left of the promise: programs end within the reviewed scope.
* `state_newer`: a process that was launched before a later version wrote `state.json` replaces that file with its
  next save (`model/src/persistence.rs:167`). `contracts/feature-inventory.json:1127` says "An unknown newer schema
  is detected and set aside rather than silently rewritten as the current version". `LaterVersionKept` states
  what is left: no launch loses it.

Seen, without a run:

* `pane.close` closes the pane and then answers "rejected" (`app/src/control.rs:818`; `RequestClosePane` has it).
* A forced close of the last pane runs `window.close()` inside the dispatch of the request; `shutdown()`
  then takes `CONTROL_WAKE`, which the dispatch holds borrowed, and the process panics before the
  state is saved (`app/src/terminal.rs:2095`; `RequestCloseLast` has it).
* `Drop` looks at the socket path once more after its listener is closed (`model/src/control_socket.rs:163`).
  Where inode numbers are reused, a server that started in between loses its socket; `LiveSocketKept`
  is about the others.
* Nothing but `toggle_zoom` changes `zoomed_pane` (`app/src/terminal.rs:240`). After the zoomed pane is
  closed, or another tab is selected, `render` draws nothing (`:834`), while clicks still go to the tree.
* `contracts/feature-inventory.json:980` says an exact hit on a divider's strip is preferred; `divider_at` prefers
  the smallest split.
* `event.list` reads its cursor after the list (`app/src/control.rs:236`): a poller that resumes from
  `eventCursor` misses what was recorded in between, or was cut off by the limit, and an event whose
  cursor was claimed before that and which is pushed after it (`model/src/control_socket.rs:600`).
* A save replaces what another process has saved since it loaded: the session file
  (`model/src/persistence.rs:157`) and the profile store with its approvals (`model/src/ssh.rs:705`).
* The temporary file of a killed process has the name the next process with its pid uses first, whose
  first save then fails (`model/src/platform.rs:379`).
* SSH: what is approved is the answer of `ssh -G` (`app/src/control.rs:482`); the ssh that is started reads the
  configuration again, and runs what has become of it since. `LaunchWasApproved` says so (`drifted`).
* SSH: an edit of a profile in its file keeps the approval (the next connection compares the whole
  fingerprint and asks again, `model/src/ssh.rs:361`). A client that retries a slow `ssh.connect` gets a second
  connection.
* The clipboard is read asynchronously and the text goes to whatever session is active then
  (`app/src/dialogs.rs:876`).
* A shell that exits while a dialog is open leaves its window open: the close is swallowed by the
  close handler (`app/src/window.rs:864`). A restored surface that cannot be started loses its saved
  command at the next save (`app/src/terminal.rs:685`).

## Not modelled

`PROJECT.json` names every component with its status and the reason.

* The clock: an armed timer may fire at any moment, so the nesting of deadlines and the time
  a slow client takes are not judged.
* The snapshot codec is an oracle: a file is a snapshot, damaged or of a later version. The
  parser of `ssh -G` and the form of commands and directories are oracles as well.
* Interaction trackers, the search and the paste dialog: functions of one event with no other actor,
  but for the clipboard above.
* The control catalog, the command line, the import of the reference application's state, identifiers
  and tables: parsing and formatting without state.
* The surface registry of a pane (`runtime.rs`): the application keeps one surface per pane and does not use it.
* Window, menus, rendering, discovery of libraries: input and output. libkitty and the C prototype
  are outside the Rust application.

## What is left

* A model with a clock for the deadlines of the control server (`control_socket.rs:19`, `:480`).
* The paste dialog and the clipboard as a component of its own.
* Two documents in one model: `SshLaunch` and `StateStore` share the atomic writer, of which
  `SshLaunch` has only the two outcomes of a failed save.
