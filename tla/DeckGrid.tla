------------------------------ MODULE DeckGrid ------------------------------
(***************************************************************************)
(* The buttons of the grid and who uses them: deck_grid.c and gtkdeck.c on *)
(* the main thread (drag and drop, selection, configuration, deletion,     *)
(* saving and loading), the thread that reads the keys (streamdeck.c), and *)
(* the pool that executes the buttons (deck_plugin.c).                     *)
(*                                                                         *)
(* A button is an address: once freed, it may be given to another button.  *)
(* Of its settings one value stands for all that the configuration widgets *)
(* change and the file keeps, but the picture, which is the action's or    *)
(* one the user chose.  GTK, GLib's key files and hidapi are external.     *)
(***************************************************************************)
EXTENDS Integers, Sequences

CONSTANTS
    NumKeys,       \* rows * columns
    ScanKeys,      \* the literal 15 of read_key_states and of save_config
    Buttons, NULL, \* addresses of buttons
    Codes,         \* Codes[p]: the codes of the actions of plugin p, in order
    PictureActions, LabelActions, \* whose configuration resets the picture,
                                  \* whose execution changes the label
    Dropped,       \* the actions that are dragged to the grid
    Settings, Default,
    Pool,
    None, Unread,
    Reports,       \* what the device may report: its keys, 1 for a pressed one
    MaxDrops, MaxEdits, MaxReports, MaxStarts   \* bounds

Keys    == 0 .. NumKeys - 1
Plugins == DOMAIN Codes
Actions == {a \in Plugins \X (1 .. 9) : a[2] \in DOMAIN Codes[a[1]]}
Groups  == [name : Plugins, code : {Codes[a[1]][a[2]] : a \in Actions},
            settings : Settings, custom : BOOLEAN]

ASSUME DeckGridAssumption ==
    /\ NumKeys \in Nat \ {0} /\ ScanKeys \in Nat
    /\ NULL \notin Buttons \cup Actions /\ Default \in Settings /\ Dropped \subseteq Actions
    /\ Reports \subseteq [Keys -> {0, 1}]
    /\ None \notin Groups /\ Unread \notin Groups \cup {None}
    /\ \A p \in Plugins :
         /\ Codes[p] \in Seq(Nat) /\ Len(Codes[p]) \in 1 .. 9
         /\ \A i, j \in DOMAIN Codes[p] : Codes[p][i] = Codes[p][j] => i = j
    /\ MaxDrops \in Nat /\ MaxEdits \in Nat /\ MaxReports \in Nat /\ MaxStarts \in Nat

VARIABLES
    running,     \* whether the program runs
    actions,     \* priv->actions of the grid
    cell,        \* cell[k]: the "plugin" of the GtkButton of key k
    button,      \* button[b]: the button at address b, for the addresses in use
    current,     \* current_plugin
    owner,       \* the button the widgets in config_row were made for
    shown,       \* whether config_container is visible
    main,        \* where the main thread is
    keys,        \* the GKeyFile save_config fills
    file,        \* keys_<serial>.ini
    reader,      \* where the reader thread is
    key_state,   \* priv->key_state of the device
    queue,       \* what the pool has been given
    exec,        \* exec[t]: the button thread t of the pool executes
    drops, edits, reports, starts

bounds  == <<drops, edits, reports, starts>>
grid    == <<actions, cell>>
config  == <<current, owner, shown>>
device  == <<reader, key_state>>
pool    == <<queue, exec>>
vars    == <<running, grid, button, config, main, keys, file, device, pool, bounds>>

live == DOMAIN button

Button == [action : Actions, settings : Settings, custom : BOOLEAN, key : Keys]
MaybeButton == Buttons \cup {NULL}

TypeOK ==
    /\ running \in BOOLEAN
    /\ actions \in [Keys -> MaybeButton] /\ cell \in [Keys -> MaybeButton]
    /\ live \subseteq Buttons /\ button \in [live -> Button]
    /\ current \in MaybeButton /\ owner \in MaybeButton /\ shown \in BOOLEAN
    /\ main \in [pc : {"idle", "drop", "remove", "save"}, key : Keys,
                 action : Actions \cup {NULL}, index : 0 .. ScanKeys,
                 then : {"run", "quit", "exit"}]
    /\ keys \in [Keys -> Groups \cup {None}] /\ file \in [Keys -> Groups \cup {None}]
    /\ reader \in [pc : {"read", "scan"}, index : 0 .. ScanKeys, report : [Keys -> {0, 1}]]
    /\ key_state \in [Keys -> {0, 1}]
    /\ queue \in Seq(Buttons) /\ exec \in [Pool -> MaybeButton]
    /\ drops \in Nat /\ edits \in Nat /\ reports \in Nat /\ starts \in Nat

NoButtons == [k \in Keys |-> NULL]
NoGroups  == [k \in Keys |-> None]
Released  == [k \in Keys |-> 0]
Idle == [pc |-> "idle", key |-> 0, action |-> NULL, index |-> 0, then |-> "run"]
Read == [pc |-> "read", index |-> 0, report |-> Released]

Init ==
    /\ running = TRUE
    /\ actions = NoButtons /\ cell = NoButtons /\ button = [b \in {} |-> NULL]
    /\ current = NULL /\ owner = NULL /\ shown = FALSE
    /\ main = Idle /\ keys = NoGroups /\ file = NoGroups
    /\ reader = Read /\ key_state = Released
    /\ queue = <<>> /\ exec = [t \in Pool |-> NULL]
    /\ drops = 0 /\ edits = 0 /\ reports = 0 /\ starts = 0

\* The process is over: what it held in memory is gone.
Ended ==
    /\ running' = FALSE
    /\ actions' = NoButtons /\ cell' = NoButtons /\ button' = [b \in {} |-> NULL]
    /\ current' = NULL /\ owner' = NULL /\ shown' = FALSE
    /\ main' = Idle /\ keys' = NoGroups
    /\ reader' = Read /\ key_state' = Released
    /\ queue' = <<>> /\ exec' = [t \in Pool |-> NULL]

At(pc) == running /\ main.pc = pc

----------------------------------------------------------------------------
(* The main thread: the grid and the configuration                         *)

\* The widgets of a Multimedia button set their combo box after they have connected
\* it: media_key_changed gives the button the picture of its key.
Configured(b) ==
    IF button[b].action \in PictureActions
    THEN [button EXCEPT ![b].custom = FALSE] ELSE button

\* Hiding the container leaves the widgets in config_row.
show_config(plugin) ==
    /\ current' = plugin /\ shown' = (plugin # NULL)
    /\ owner' = IF plugin = NULL THEN owner ELSE plugin

\* The reference of the grid is the only one: unref frees the button.
Unref(b) == button' = [c \in live \ {b} |-> button[c]]

\* An action is dropped on the cell of key k; what was there is freed, and its pointer
\* stays in actions[k] until the new button has been made.
on_grid_drag_data_received(k, action) ==
    /\ At("idle") /\ drops < MaxDrops
    /\ Unref(actions[k])
    /\ main' = [main EXCEPT !.pc = "drop", !.key = k, !.action = action]
    /\ drops' = drops + 1
    /\ UNCHANGED <<running, grid, config, keys, file, device, pool, edits, reports, starts>>

add_plugin_button(k, plugin) == cell' = [cell EXCEPT ![k] = plugin]

\* Variant: the button is not told its key.
NewWithoutKey(action, k) ==
    [action |-> action, settings |-> Default, custom |-> FALSE, key |-> 0]

\* deck_plugin_new_with_action: a button with the settings every new one has.
New(action, k) == [action |-> action, settings |-> Default, custom |-> FALSE, key |-> k]

PlaceDropped(plugin) ==
    /\ At("drop") /\ plugin \notin live
    /\ button' = [b \in live \cup {plugin} |->
                    IF b = plugin THEN New(main.action, main.key) ELSE button[b]]
    /\ actions' = [actions EXCEPT ![main.key] = plugin]
    /\ add_plugin_button(main.key, plugin)
    /\ show_config(plugin)
    /\ main' = Idle
    /\ UNCHANGED <<running, keys, file, device, pool, bounds>>

\* A click on a cell selects its button.
button_pressed(k) ==
    /\ At("idle")
    /\ show_config(cell[k])
    /\ button' = IF cell[k] = NULL THEN button ELSE Configured(cell[k])
    /\ UNCHANGED <<running, grid, main, keys, file, device, pool, bounds>>

\* The button being configured is removed from the key it says it is on.
on_delete_clicked ==
    /\ At("idle") /\ current # NULL
    /\ LET key == button[current].key IN
         /\ Unref(actions[key])
         /\ main' = [main EXCEPT !.pc = "remove", !.key = key]
    /\ UNCHANGED <<running, grid, config, keys, file, device, pool, bounds>>

\* Variant: the container is hidden, and its widgets are not destroyed.
RemoveHidesOnly ==
    /\ At("remove")
    /\ actions' = [actions EXCEPT ![main.key] = NULL]
    /\ add_plugin_button(main.key, NULL)
    /\ current' = NULL /\ owner' = owner /\ shown' = FALSE
    /\ main' = Idle
    /\ UNCHANGED <<running, button, keys, file, device, pool, bounds>>

deck_grid_remove_button ==
    /\ At("remove")
    /\ actions' = [actions EXCEPT ![main.key] = NULL]
    /\ add_plugin_button(main.key, NULL)
    /\ current' = NULL /\ owner' = NULL /\ shown' = FALSE
    /\ main' = Idle
    /\ UNCHANGED <<running, button, keys, file, device, pool, bounds>>

\* A visible widget of the configuration changes the button it was made for:
\* another setting, which for a Multimedia button is another picture too, or a
\* picture the user chooses.
ChangeSetting(s) ==
    /\ button' = [button EXCEPT ![owner].settings = s,
                    ![owner].custom = @ /\ button[owner].action \notin PictureActions]

image_picker_pick_image == button' = [button EXCEPT ![owner].custom = TRUE]

Edit ==
    /\ At("idle") /\ shown /\ edits < MaxEdits
    /\ image_picker_pick_image \/ \E s \in Settings : ChangeSetting(s)
    /\ edits' = edits + 1
    /\ UNCHANGED <<running, grid, config, main, keys, file, device, pool, drops, reports, starts>>

----------------------------------------------------------------------------
(* Saving and loading                                                      *)

\* deck_plugin_save, in the group key_<k>.
deck_plugin_save(b) ==
    [name |-> button[b].action[1], code |-> Codes[button[b].action[1]][button[b].action[2]],
     settings |-> button[b].settings, custom |-> button[b].custom]

\* deck_plugin_load: the plugin of that name, and its first action of that code.
ActionOf(group) ==
    <<group.name, CHOOSE i \in DOMAIN Codes[group.name] :
        /\ Codes[group.name][i] = group.code
        /\ \A j \in 1 .. i - 1 : Codes[group.name][j] # group.code>>

\* Variant: the picture is not loaded.
deck_plugin_loadPlain(group, k) ==
    [action |-> ActionOf(group), settings |-> group.settings,
     custom |-> FALSE, key |-> k]

deck_plugin_load(group, k) ==
    [action |-> ActionOf(group), settings |-> group.settings,
     custom |-> group.custom, key |-> k]

\* The window is closed (it is only hidden), or Quit is chosen.
SaveAndThen(then) ==
    /\ At("idle")
    /\ main' = [main EXCEPT !.pc = "save", !.then = then]
    /\ UNCHANGED <<running, grid, button, config, keys, file, device, pool, bounds>>

on_window_delete_event == SaveAndThen("run")
on_menu_quit == SaveAndThen("quit")

CollectKey ==
    /\ At("save") /\ main.index < ScanKeys /\ main.index \in Keys
    /\ keys' = IF actions[main.index] = NULL THEN keys
               ELSE [keys EXCEPT ![main.index] = deck_plugin_save(actions[main.index])]
    /\ main' = [main EXCEPT !.index = @ + 1]
    /\ UNCHANGED <<running, grid, button, config, file, device, pool, bounds>>

\* Past the array lies nothing that looks like a button, or an address the process
\* dies of.
CollectPastTheGrid ==
    /\ At("save") /\ main.index < ScanKeys /\ main.index \notin Keys
    /\ \/ /\ main' = [main EXCEPT !.index = @ + 1]
          /\ UNCHANGED <<running, grid, button, config, keys, device, pool>>
       \/ Ended
    /\ UNCHANGED <<file, bounds>>

\* Variant: one GKeyFile serves every save.
SaveReusesKeys ==
    /\ At("save") /\ main.index = ScanKeys
    /\ file' \in {keys, file}
    /\ IF main.then = "exit" THEN Ended
       ELSE /\ keys' = keys
            /\ main' = IF main.then = "run" THEN Idle
                       ELSE [main EXCEPT !.index = 0, !.then = "exit"]
            /\ UNCHANGED <<running, grid, button, config, device, pool>>
    /\ UNCHANGED bounds

\* The file is replaced at once, or not at all: nobody looks at the result.  After Quit
\* main saves once more.
g_key_file_save_to_file ==
    /\ At("save") /\ main.index = ScanKeys
    /\ file' \in {keys, file}
    /\ IF main.then = "exit" THEN Ended
       ELSE /\ keys' = NoGroups
            /\ main' = IF main.then = "run" THEN Idle
                       ELSE [main EXCEPT !.index = 0, !.then = "exit"]
            /\ UNCHANGED <<running, grid, button, config, device, pool>>
    /\ UNCHANGED bounds

Crash == running /\ Ended /\ UNCHANGED <<file, bounds>>

\* read_config, and a cell for every key: deck_grid_constructed.
deck_grid_constructed(buttonOf) ==
    /\ ~running /\ starts < MaxStarts
    /\ running' = TRUE
    /\ actions' = buttonOf /\ cell' = buttonOf
    /\ button' = [b \in {buttonOf[k] : k \in Keys} \ {NULL} |->
                    LET k == CHOOSE k \in Keys : buttonOf[k] = b
                    IN  deck_plugin_load(file[k], k)]
    /\ starts' = starts + 1
    /\ UNCHANGED <<config, main, keys, file, device, pool, drops, edits, reports>>

\* What read_config may build: a new button for every group of the file.
Loaded ==
    {f \in [Keys -> MaybeButton] :
        /\ \A k \in Keys : f[k] = NULL <=> file[k] = None
        /\ \A k, l \in Keys : f[k] = f[l] /\ f[k] # NULL => k = l}

----------------------------------------------------------------------------
(* The keys: the reader thread and the pool                                *)

\* A report, or an error, which counts as a report of no pressed key.
hid_read(report) ==
    /\ running /\ reader.pc = "read" /\ reports < MaxReports
    /\ reader' = [pc |-> "scan", index |-> 0, report |-> report]
    /\ reports' = reports + 1
    /\ UNCHANGED <<running, grid, button, config, main, keys, file, key_state, pool,
                   drops, edits, starts>>

Pressed(k) == key_state[k] = 0 /\ reader.report[k] = 1

\* on_deck_key_pressed runs on the reader thread: whatever actions[key] points to is
\* given to the pool.
read_key_states ==
    /\ running /\ reader.pc = "scan" /\ reader.index < ScanKeys /\ reader.index \in Keys
    /\ LET plugin == actions[reader.index] IN
         queue' = IF Pressed(reader.index) /\ plugin # NULL THEN Append(queue, plugin) ELSE queue
    /\ reader' = [reader EXCEPT !.index = @ + 1]
    /\ UNCHANGED <<running, grid, button, config, main, keys, file, key_state, exec, bounds>>

\* Variant: the loop goes one too far.
ReadTooFar ==
    /\ running /\ reader.pc = "scan" /\ reader.index <= ScanKeys /\ reader.index \notin Keys
    /\ \/ /\ reader' = [reader EXCEPT !.index = @ + 1]
          /\ UNCHANGED <<running, grid, button, config, main, keys, key_state, pool>>
       \/ Ended
    /\ UNCHANGED <<file, bounds>>

ReadPastTheKeys ==
    /\ running /\ reader.pc = "scan" /\ reader.index < ScanKeys /\ reader.index \notin Keys
    /\ \/ /\ reader' = [reader EXCEPT !.index = @ + 1]
          /\ UNCHANGED <<running, grid, button, config, main, keys, key_state, pool>>
       \/ Ended
    /\ UNCHANGED <<file, bounds>>

EndOfReport ==
    /\ running /\ reader.pc = "scan" /\ reader.index = ScanKeys
    /\ key_state' = reader.report
    /\ reader' = Read
    /\ UNCHANGED <<running, grid, button, config, main, keys, file, pool, bounds>>

\* A thread of the pool takes the oldest press.
TakePress(t) ==
    /\ running /\ exec[t] = NULL /\ queue # <<>>
    /\ exec' = [exec EXCEPT ![t] = Head(queue)]
    /\ queue' = Tail(queue)
    /\ UNCHANGED <<running, grid, button, config, main, keys, file, device, bounds>>

\* The execution of a countdown shows the time left in the label of the button.  A
\* button that has been freed is whatever its memory holds.
process_plugin_exec(t) ==
    /\ running /\ exec[t] # NULL
    /\ \/ /\ exec' = [exec EXCEPT ![t] = NULL]
          /\ \/ UNCHANGED button
             \/ /\ exec[t] \in live /\ button[exec[t]].action \in LabelActions
                /\ \E s \in Settings : button' = [button EXCEPT ![exec[t]].settings = s]
          /\ UNCHANGED <<running, grid, config, main, keys, device, queue>>
       \/ exec[t] \notin live /\ Ended
    /\ UNCHANGED <<file, bounds>>

----------------------------------------------------------------------------
MainNext ==
    \/ \E k \in Keys : button_pressed(k) \/ \E a \in Dropped : on_grid_drag_data_received(k, a)
    \/ \E b \in Buttons : PlaceDropped(b)
    \/ on_delete_clicked \/ deck_grid_remove_button \/ Edit
    \/ on_window_delete_event \/ on_menu_quit
    \/ CollectKey \/ CollectPastTheGrid \/ g_key_file_save_to_file

ReaderNext ==
    \/ \E report \in Reports : hid_read(report)
    \/ read_key_states \/ ReadPastTheKeys \/ EndOfReport

PoolNext(t) == TakePress(t) \/ process_plugin_exec(t)

Next ==
    \/ MainNext \/ ReaderNext \/ (\E t \in Pool : PoolNext(t))
    \/ Crash \/ \E f \in Loaded : deck_grid_constructed(f)

Spec == Init /\ [][Next]_vars

----------------------------------------------------------------------------
(* Properties                                                              *)

\* The configuration is that of a button of the grid: whatever is clicked, dropped or
\* deleted, and although hiding the container leaves its widgets connected, no widget
\* points to a button that has been freed, and a visible one to the selected button.
ConfigOfTheGrid ==
    main.pc \in {"idle", "save"} =>
        /\ owner # NULL => owner \in live
        /\ current # NULL => shown /\ owner = current
        /\ shown => current # NULL

\* A cell shows the button its key executes, every button is on exactly the one key
\* it says, and none is left over: priv->actions, the cells and the buttons' own
\* "key" agree.
KeysAgree ==
    main.pc \in {"idle", "save"} =>
        /\ cell = actions
        /\ \A k \in Keys : actions[k] # NULL => actions[k] \in live /\ button[actions[k]].key = k
        /\ \A b \in live : actions[button[b].key] = b

\* What is deleted is the button whose configuration is shown.
DeletesTheShown == [][main'.pc = "remove" /\ main.pc = "idle" => live \ live' = {owner}]_vars

\* The file keeps the grid: a program that starts shows what each key held when the
\* last save collected it, whatever the pool does meanwhile.
Held(k) == IF actions[k] \in live THEN deck_plugin_save(actions[k]) ELSE None

Kept == INSTANCE SavedGrid WITH
    Contents <- Groups,
    grid  <- [k \in Keys |-> Held(k)],
    draft <- [k \in Keys |-> IF main.pc = "save" /\ k < main.index THEN keys[k] ELSE Unread],
    saved <- file,
    up    <- running

KeepsTheGrid == Kept!Spec

\* What the pool executes is a button: process_plugin_exec casts it with DECK_PLUGIN,
\* which asserts that it is an instance.
ExecutesButtons == \A t \in Pool : exec[t] # NULL => exec[t] \in live
=============================================================================
