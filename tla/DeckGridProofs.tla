--------------------------- MODULE DeckGridProofs ---------------------------
(***************************************************************************)
(* Theorems about DeckGrid for every number of keys, every set of          *)
(* addresses, actions and settings and every pool: the types, what the     *)
(* configuration and the keys have in common, what is deleted, and that    *)
(* DeckGrid implements SavedGrid.                                          *)
(***************************************************************************)
EXTENDS DeckGrid, TLAPS

(***************************************************************************)
(* The inductive invariant.  ConfigOfTheGrid and KeysAgree speak of the    *)
(* moments at which no button is half replaced; GridInv also says what     *)
(* the others are like, when one key holds the address of a button that is *)
(* gone.                                                                   *)
(***************************************************************************)
Between == main.pc \in {"drop", "remove"}

GridInv ==
    /\ cell = actions
    /\ \A k \in Keys : actions[k] # NULL /\ ~(Between /\ k = main.key) =>
           actions[k] \in live /\ button[actions[k]].key = k
    /\ \A b \in live : actions[button[b].key] = b
    /\ Between => actions[main.key] \notin live
    /\ main.pc = "drop" => main.action \in Actions

\* A save starts with no group, and has none yet for the keys it has not come to.
SaveInv ==
    /\ main.pc # "save" => main.index = 0
    /\ \A k \in Keys : k >= main.index => keys[k] = None
    /\ main.pc # "save" => keys = NoGroups

\* A group names an action that there is.
Named(group) ==
    \E i \in DOMAIN Codes[group.name] : Codes[group.name][i] = group.code
FileInv == \A k \in Keys : /\ keys[k] # None => Named(keys[k])
                           /\ file[k] # None => Named(file[k])

\* Nothing outlives the process but the file.
StoppedInv == ~running =>
    /\ actions = NoButtons /\ live = {}
    /\ current = NULL /\ owner = NULL /\ ~shown
    /\ main = Idle /\ reader = Read /\ queue = <<>>

IInv == TypeOK /\ GridInv /\ ConfigOfTheGrid /\ SaveInv /\ FileInv /\ StoppedInv

-----------------------------------------------------------------------------
(***************************************************************************)
(* Buttons that change in place: their addresses and their keys stay.      *)
(***************************************************************************)
Becomes(b, new) ==
    new \in Button /\ new.key = button[b].key /\ button' = [button EXCEPT ![b] = new]
Altered == UNCHANGED button \/ \E b \in live, new \in Button : Becomes(b, new)

LEMMA AlteredKeeps ==
    ASSUME TypeOK, Altered
    PROVE  /\ live' = live /\ button' \in [live -> Button]
           /\ \A b \in live : button'[b].key = button[b].key
<1>1. CASE UNCHANGED button
  BY <1>1 DEF TypeOK, live
<1>2. ASSUME NEW b \in live, NEW new \in Button, Becomes(b, new)
      PROVE  /\ live' = live /\ button' \in [live -> Button]
             /\ \A c \in live : button'[c].key = button[c].key
  <2>1. button \in [live -> Button]
    BY DEF TypeOK
  <2>2. button' = [button EXCEPT ![b] = new] /\ new.key = button[b].key
    BY <1>2 DEF Becomes
  <2> QED  BY <2>1, <2>2 DEF live
<1> QED  BY <1>1, <1>2 DEF Altered

LEMMA ConfiguredAlters ==
    ASSUME TypeOK, NEW b \in live, button' = Configured(b)
    PROVE  Altered
<1>1. button[b] \in Button
  BY DEF TypeOK
<1>2. CASE button[b].action \in PictureActions
  <2> DEFINE new == [button[b] EXCEPT !.custom = FALSE]
  <2>1. new \in Button /\ new.key = button[b].key
    BY <1>1 DEF Button
  <2>2. button' = [button EXCEPT ![b] = new]
    BY <1>2 DEF Configured
  <2> QED  BY <2>1, <2>2 DEF Altered, Becomes
<1>3. CASE button[b].action \notin PictureActions
  BY <1>3 DEF Configured, Altered
<1> QED  BY <1>2, <1>3

LEMMA EditAlters ==
    ASSUME TypeOK, ConfigOfTheGrid, Edit
    PROVE  Altered
<1>1. owner \in live
  BY DEF Edit, At, ConfigOfTheGrid
<1>2. button[owner] \in Button
  BY <1>1 DEF TypeOK
<1>3. CASE image_picker_pick_image
  <2> DEFINE new == [button[owner] EXCEPT !.custom = TRUE]
  <2>1. new \in Button /\ new.key = button[owner].key
    BY <1>2 DEF Button
  <2>2. button' = [button EXCEPT ![owner] = new]
    BY <1>3 DEF image_picker_pick_image
  <2> QED  BY <1>1, <2>1, <2>2 DEF Altered, Becomes
<1>4. ASSUME NEW s \in Settings, ChangeSetting(s) PROVE Altered
  <2> DEFINE custom == button[owner].custom /\ button[owner].action \notin PictureActions
             new == [button[owner] EXCEPT !.settings = s, !.custom = custom]
  <2>1. new \in Button /\ new.key = button[owner].key
    BY <1>2 DEF Button
  <2>2. button \in [live -> Button]
    BY DEF TypeOK
  <2>3. button' = [button EXCEPT ![owner] = new]
    BY <1>1, <1>2, <1>4, <2>2 DEF ChangeSetting, Button
  <2> QED  BY <1>1, <2>1, <2>3 DEF Altered, Becomes
<1> QED  BY <1>3, <1>4 DEF Edit

LEMMA ExecAlters ==
    ASSUME TypeOK, NEW t \in Pool, process_plugin_exec(t), ~Ended
    PROVE  Altered /\ UNCHANGED <<running, grid, config, main, keys, device, queue>>
<1>1. /\ UNCHANGED button \/ (/\ exec[t] \in live
                              /\ \E s \in Settings :
                                   button' = [button EXCEPT ![exec[t]].settings = s])
      /\ UNCHANGED <<running, grid, config, main, keys, device, queue>>
  BY DEF process_plugin_exec
<1>2. ASSUME exec[t] \in live, NEW s \in Settings,
             button' = [button EXCEPT ![exec[t]].settings = s]
      PROVE  Altered
  <2> DEFINE new == [button[exec[t]] EXCEPT !.settings = s]
  <2>1. button[exec[t]] \in Button
    BY <1>2 DEF TypeOK
  <2>2. new \in Button /\ new.key = button[exec[t]].key
    BY <2>1 DEF Button
  <2>3. button' = [button EXCEPT ![exec[t]] = new]
    BY <1>2
  <2> QED  BY <1>2, <2>2, <2>3 DEF Altered, Becomes
<1> QED  BY <1>1, <1>2 DEF Altered

-----------------------------------------------------------------------------
(***************************************************************************)
(* Which key holds which button.  Most steps change buttons in place and   *)
(* neither begin nor end a replacement.                                    *)
(***************************************************************************)
MainStays == UNCHANGED main \/ (~Between /\ main'.pc \in {"idle", "save"})
InPlace == Altered /\ UNCHANGED <<running, grid>> /\ MainStays

Replaces ==
    \/ \E k \in Keys, a \in Dropped : on_grid_drag_data_received(k, a)
    \/ \E b \in Buttons : PlaceDropped(b)
    \/ on_delete_clicked \/ deck_grid_remove_button
    \/ \E f \in Loaded : deck_grid_constructed(f)

LEMMA StepKinds ==
    ASSUME TypeOK, ConfigOfTheGrid, GridInv, Next
    PROVE  InPlace \/ Ended \/ Replaces
<1> USE DEF grid, config, device, pool, bounds
<1>1. ASSUME NEW k \in Keys, button_pressed(k) PROVE InPlace
  <2>1. Altered
    <3>1. CASE cell[k] = NULL
      BY <1>1, <3>1 DEF button_pressed, Altered
    <3>2. CASE cell[k] # NULL
      <4>1. cell[k] \in live
        BY <1>1, <3>2 DEF button_pressed, At, GridInv, Between
      <4> QED  BY <1>1, <3>2, <4>1, ConfiguredAlters DEF button_pressed
    <3> QED  BY <3>1, <3>2
  <2> QED  BY <1>1, <2>1 DEF button_pressed, InPlace, MainStays
<1>2. CASE Edit
  BY <1>2, EditAlters DEF Edit, InPlace, MainStays
<1>3. CASE on_window_delete_event \/ on_menu_quit
  <2>1. main'.pc = "save"
    BY <1>3 DEF on_window_delete_event, on_menu_quit, SaveAndThen, TypeOK
  <2> QED  BY <1>3, <2>1 DEF on_window_delete_event, on_menu_quit, SaveAndThen, At, InPlace,
           Altered, MainStays, Between
<1>4. CASE CollectKey
  <2>1. main'.pc = "save"
    BY <1>4 DEF CollectKey, TypeOK, At
  <2> QED  BY <1>4, <2>1 DEF CollectKey, At, InPlace, Altered, MainStays, Between
<1>5. CASE CollectPastTheGrid
  <2>1. ASSUME ~Ended PROVE main'.pc = "save"
    BY <1>5, <2>1 DEF CollectPastTheGrid, TypeOK, At
  <2> QED  BY <1>5, <2>1 DEF CollectPastTheGrid, At, InPlace, Altered, MainStays, Between
<1>6. CASE g_key_file_save_to_file
  <2>1. ASSUME ~Ended PROVE main'.pc \in {"idle", "save"}
    <3>1. main' = Idle \/ main' = [main EXCEPT !.index = 0, !.then = "exit"]
      BY <1>6, <2>1 DEF g_key_file_save_to_file
    <3>2. main.pc = "save"
      BY <1>6 DEF g_key_file_save_to_file, At
    <3>3. CASE main' = Idle
      BY <3>3 DEF Idle
    <3>4. CASE main' = [main EXCEPT !.index = 0, !.then = "exit"]
      BY <3>2, <3>4 DEF TypeOK
    <3> QED  BY <3>1, <3>3, <3>4
  <2> QED  BY <1>6, <2>1 DEF g_key_file_save_to_file, At, InPlace, Altered, MainStays, Between
<1>7. CASE ReaderNext
  BY <1>7 DEF ReaderNext, hid_read, read_key_states, ReadPastTheKeys, EndOfReport, InPlace,
     Altered, MainStays
<1>8. ASSUME NEW t \in Pool, PoolNext(t) PROVE InPlace \/ Ended
  <2>1. CASE TakePress(t)
    BY <2>1 DEF TakePress, InPlace, Altered, MainStays
  <2>2. CASE process_plugin_exec(t)
    BY <2>2, ExecAlters DEF InPlace, MainStays
  <2> QED  BY <1>8, <2>1, <2>2 DEF PoolNext
<1>9. CASE Crash
  BY <1>9 DEF Crash
<1> QED  BY <1>1, <1>2, <1>3, <1>4, <1>5, <1>6, <1>7, <1>8, <1>9
         DEF Next, MainNext, Replaces

LEMMA UnrefFrees ==
    ASSUME TypeOK, NEW b, Unref(b)
    PROVE  /\ live' = live \ {b} /\ button' \in [live' -> Button]
           /\ \A c \in live' : button'[c] = button[c]
  BY DEF Unref, TypeOK, live

LEMMA NewIsButton ==
    ASSUME NEW action \in Actions, NEW k \in Keys
    PROVE  New(action, k) \in Button /\ New(action, k).key = k
  BY DeckGridAssumption DEF New, Button

LEMMA PlacedIsNew ==
    ASSUME TypeOK, GridInv, NEW b \in Buttons, PlaceDropped(b)
    PROVE  /\ b \notin live /\ live' = live \cup {b} /\ button' \in [live' -> Button]
           /\ button'[b] = New(main.action, main.key)
           /\ \A c \in live : button'[c] = button[c]
<1>1. /\ b \notin live
      /\ button' = [c \in live \cup {b} |->
                      IF c = b THEN New(main.action, main.key) ELSE button[c]]
  BY DEF PlaceDropped
<1>2. New(main.action, main.key) \in Button
  BY NewIsButton DEF PlaceDropped, At, GridInv, TypeOK
<1>3. button \in [live -> Button]
  BY DEF TypeOK
<1> QED  BY <1>1, <1>2, <1>3 DEF live

LEMMA GridInPlace ==
    ASSUME TypeOK, GridInv, InPlace
    PROVE  GridInv'
<1>1. /\ live' = live /\ \A b \in live : button'[b].key = button[b].key
      /\ UNCHANGED <<cell, actions>>
  BY AlteredKeeps DEF InPlace, grid
<1>2. CASE UNCHANGED main
  BY <1>1, <1>2 DEF GridInv, Between
<1>3. CASE ~Between /\ main'.pc \in {"idle", "save"}
  <2>1. ~Between' /\ main'.pc # "drop"
    BY <1>3 DEF Between
  <2>2. \A k \in Keys : actions'[k] # NULL =>
            actions'[k] \in live' /\ button'[actions'[k]].key = k
    BY <1>1, <1>3 DEF GridInv
  <2>3. \A b \in live' : actions'[button'[b].key] = b
    BY <1>1 DEF GridInv
  <2> QED  BY <1>1, <2>1, <2>2, <2>3 DEF GridInv
<1> QED  BY <1>2, <1>3 DEF InPlace, MainStays

LEMMA GridEnded == Ended => GridInv'
  BY DEF Ended, GridInv, Between, Idle, NoButtons, live

\* A replacement begins: one button is freed, and its key is the one the main
\* thread is at.
LEMMA GridFreed ==
    ASSUME TypeOK, GridInv, ~Between, NEW k \in Keys, Unref(actions[k]), UNCHANGED grid,
           main'.pc \in {"drop", "remove"}, main'.key = k,
           main'.pc = "drop" => main'.action \in Actions
    PROVE  GridInv'
<1>1. /\ live' = live \ {actions[k]} /\ \A c \in live' : button'[c] = button[c]
      /\ actions' = actions /\ cell' = cell
  BY UnrefFrees DEF grid
<1>2. Between'
  BY DEF Between
<1>3. \A l \in Keys : actions'[l] # NULL /\ l # k =>
          actions'[l] \in live' /\ button'[actions'[l]].key = l
  <2> SUFFICES ASSUME NEW l \in Keys, actions[l] # NULL, l # k
               PROVE  actions[l] \in live' /\ button'[actions[l]].key = l
    BY <1>1
  <2>1. actions[l] \in live /\ button[actions[l]].key = l
    BY DEF GridInv
  <2>2. actions[l] # actions[k]
    BY <2>1 DEF GridInv
  <2> QED  BY <1>1, <2>1, <2>2
<1>4. \A b \in live' : actions'[button'[b].key] = b
  BY <1>1 DEF GridInv
<1>5. cell' = actions'
  BY <1>1 DEF GridInv
<1> QED  BY <1>1, <1>2, <1>3, <1>4, <1>5 DEF GridInv

LEMMA DropFrees ==
    ASSUME TypeOK, GridInv, NEW k \in Keys, NEW a \in Dropped, on_grid_drag_data_received(k, a)
    PROVE  /\ ~Between /\ Unref(actions[k]) /\ UNCHANGED grid
           /\ main'.pc = "drop" /\ main'.key = k /\ main'.action = a /\ main'.index = main.index
           /\ a \in Actions
<1>1. main' = [main EXCEPT !.pc = "drop", !.key = k, !.action = a] /\ main.pc = "idle"
  BY DEF on_grid_drag_data_received, At
<1>2. /\ main'.pc = "drop" /\ main'.key = k /\ main'.action = a /\ main'.index = main.index
  BY <1>1 DEF TypeOK
<1> QED  BY <1>1, <1>2, DeckGridAssumption DEF on_grid_drag_data_received, Between

\* What is deleted is the selected button, which is on the key it says.
LEMMA DeleteFrees ==
    ASSUME TypeOK, GridInv, ConfigOfTheGrid, on_delete_clicked
    PROVE  /\ ~Between /\ current \in live /\ owner = current
           /\ main'.key \in Keys /\ actions[main'.key] = current
           /\ Unref(actions[main'.key]) /\ UNCHANGED grid
           /\ main'.pc = "remove" /\ main'.index = main.index
<1>1. /\ main.pc = "idle" /\ current # NULL
      /\ main' = [main EXCEPT !.pc = "remove", !.key = button[current].key]
      /\ Unref(actions[button[current].key]) /\ UNCHANGED grid
  BY DEF on_delete_clicked, At
<1>2. current \in live /\ owner = current
  BY <1>1 DEF ConfigOfTheGrid
<1>3. button[current].key \in Keys
  BY <1>2 DEF TypeOK, Button
<1>4. main'.pc = "remove" /\ main'.key = button[current].key /\ main'.index = main.index
  BY <1>1 DEF TypeOK
<1> QED  BY <1>1, <1>2, <1>3, <1>4 DEF GridInv, Between

LEMMA GridPlaced ==
    ASSUME TypeOK, GridInv, NEW b \in Buttons, PlaceDropped(b)
    PROVE  GridInv'
<1>1. /\ actions' = [actions EXCEPT ![main.key] = b] /\ cell' = [cell EXCEPT ![main.key] = b]
      /\ main' = Idle /\ main.pc = "drop" /\ main.key \in Keys
  BY DEF PlaceDropped, add_plugin_button, At, TypeOK
<1>2. /\ b \notin live /\ live' = live \cup {b}
      /\ button'[b] = New(main.action, main.key)
      /\ \A c \in live : button'[c] = button[c]
  BY PlacedIsNew
<1>3. button'[b].key = main.key
  BY <1>2 DEF New
<1>4. ~Between' /\ main'.pc # "drop" /\ Between
  BY <1>1 DEF Between, Idle
<1>5. actions \in [Keys -> MaybeButton] /\ cell' = actions'
  BY <1>1 DEF TypeOK, GridInv
<1>6. \A k \in Keys : actions'[k] # NULL =>
          actions'[k] \in live' /\ button'[actions'[k]].key = k
  BY <1>1, <1>2, <1>3, <1>5 DEF GridInv
<1>7. ASSUME NEW c \in live' PROVE actions'[button'[c].key] = c
  <2>1. CASE c = b
    BY <1>1, <1>3, <1>5, <2>1
  <2>2. CASE c # b
    <3>1. c \in live /\ actions[button[c].key] = c /\ button'[c] = button[c]
      BY <1>2, <2>2 DEF GridInv
    <3>2. button[c].key # main.key /\ button[c].key \in Keys
      BY <1>4, <3>1 DEF GridInv, TypeOK, Button
    <3> QED  BY <1>1, <1>5, <3>1, <3>2
  <2> QED  BY <2>1, <2>2
<1> QED  BY <1>4, <1>5, <1>6, <1>7 DEF GridInv

LEMMA GridRemoved ==
    ASSUME TypeOK, GridInv, deck_grid_remove_button
    PROVE  GridInv'
<1>1. /\ actions' = [actions EXCEPT ![main.key] = NULL]
      /\ cell' = [cell EXCEPT ![main.key] = NULL] /\ UNCHANGED button
      /\ main' = Idle /\ main.pc = "remove" /\ main.key \in Keys
  BY DEF deck_grid_remove_button, add_plugin_button, At, TypeOK
<1>2. ~Between' /\ main'.pc # "drop" /\ Between
  BY <1>1 DEF Between, Idle
<1>3. actions \in [Keys -> MaybeButton] /\ cell' = actions' /\ live' = live
  BY <1>1 DEF TypeOK, GridInv, live
<1>4. \A k \in Keys : actions'[k] # NULL =>
          actions'[k] \in live' /\ button'[actions'[k]].key = k
  BY <1>1, <1>3 DEF GridInv
<1>5. ASSUME NEW c \in live' PROVE actions'[button'[c].key] = c
  <2>1. actions[button[c].key] = c /\ c \in live
    BY <1>3 DEF GridInv
  <2>2. button[c].key # main.key /\ button[c].key \in Keys
    BY <1>2, <2>1 DEF GridInv, TypeOK, Button
  <2> QED  BY <1>1, <1>3, <2>1, <2>2
<1> QED  BY <1>2, <1>3, <1>4, <1>5 DEF GridInv
-----------------------------------------------------------------------------
(***************************************************************************)
(* What a group of the file stands for, and the grid made from the file.   *)
(***************************************************************************)
LEMMA IsAction ==
    ASSUME NEW p \in Plugins, NEW i \in DOMAIN Codes[p]
    PROVE  <<p, i>> \in Actions
<1>1. Codes[p] \in Seq(Nat) /\ Len(Codes[p]) \in 1 .. 9
  BY DeckGridAssumption
<1>2. PICK n \in 1 .. 9 : Len(Codes[p]) = n
  BY <1>1
<1>3. i \in 1 .. n
  <2>1. DOMAIN Codes[p] = 1 .. n
    BY <1>1, <1>2
  <2> QED  BY ONLY <2>1, i \in DOMAIN Codes[p]
<1>4. i \in 1 .. 9
  BY <1>2, <1>3
<1> QED  BY <1>4 DEF Actions

LEMMA ActionFound ==
    ASSUME NEW group, group.name \in Plugins, NEW i \in DOMAIN Codes[group.name],
           Codes[group.name][i] = group.code
    PROVE  ActionOf(group) = <<group.name, i>>
<1> DEFINE codes == Codes[group.name]
           First(n) == /\ codes[n] = group.code
                       /\ \A j \in 1 .. n - 1 : codes[j] # group.code
<1>1. /\ codes \in Seq(Nat) /\ Len(codes) \in 1 .. 9 /\ DOMAIN codes = 1 .. Len(codes)
      /\ \A m, n \in DOMAIN codes : codes[m] = codes[n] => m = n
  BY DeckGridAssumption
<1>2. \A j \in 1 .. i - 1 : j \in DOMAIN codes /\ j # i
  BY <1>1
<1>3. First(i)
  BY <1>1, <1>2
<1>4. \A n \in DOMAIN codes : First(n) => n = i
  BY <1>1
<1>5. (CHOOSE n \in DOMAIN codes : First(n)) = i
  <2> HIDE DEF First, codes
  <2> QED  BY <1>3, <1>4 DEF codes
<1> QED  BY <1>5 DEF ActionOf

\* Loading a group makes a button, and saving that button makes the group again.
LEMMA LoadedIsButton ==
    ASSUME NEW group \in Groups, Named(group), NEW k \in Keys
    PROVE  /\ deck_plugin_load(group, k) \in Button
           /\ deck_plugin_load(group, k).key = k
<1>1. PICK i \in DOMAIN Codes[group.name] : Codes[group.name][i] = group.code
  BY DEF Named
<1>2. ActionOf(group) \in Actions
  BY <1>1, ActionFound, IsAction DEF Groups
<1> QED  BY <1>2 DEF deck_plugin_load, Button, Groups

LEMMA SavedIsGroup ==
    ASSUME TypeOK, NEW b \in live
    PROVE  deck_plugin_save(b) \in Groups /\ Named(deck_plugin_save(b))
<1>1. button[b] \in Button
  BY DEF TypeOK
<1> DEFINE a == button[b].action
<1>2. a \in Plugins \X (1 .. 9) /\ a \in Actions /\ a[2] \in DOMAIN Codes[a[1]]
  BY <1>1 DEF Button, Actions
<1>3. deck_plugin_save(b) \in Groups
  BY <1>1, <1>2 DEF deck_plugin_save, Groups, Button
<1>4. Named(deck_plugin_save(b))
  BY <1>2 DEF deck_plugin_save, Named
<1> QED  BY <1>3, <1>4

LEMMA Constructed ==
    ASSUME TypeOK, FileInv, StoppedInv, NEW f \in Loaded, deck_grid_constructed(f)
    PROVE  /\ actions' = f /\ cell' = f /\ f \in [Keys -> MaybeButton]
           /\ UNCHANGED <<config, main, keys, file, device, pool>>
           /\ current = NULL /\ owner = NULL /\ ~shown /\ main = Idle
           /\ live' \subseteq Buttons /\ button' \in [live' -> Button]
           /\ \A b \in live' : \E k \in Keys : f[k] = b
           /\ \A k \in Keys : f[k] = NULL <=> file[k] = None
           /\ \A k \in Keys : f[k] # NULL =>
                f[k] \in live' /\ button'[f[k]] = deck_plugin_load(file[k], k)
<1> DEFINE Live == {f[k] : k \in Keys} \ {NULL}
           KeyOf(b) == CHOOSE k \in Keys : f[k] = b
           Loads == [b \in Live |-> deck_plugin_load(file[KeyOf(b)], KeyOf(b))]
<1>1. /\ ~running /\ actions' = f /\ cell' = f /\ button' = Loads
      /\ UNCHANGED <<config, main, keys, file, device, pool>>
  BY DEF deck_grid_constructed
<1>2. /\ f \in [Keys -> MaybeButton] /\ \A k \in Keys : f[k] = NULL <=> file[k] = None
      /\ \A k, l \in Keys : f[k] = f[l] /\ f[k] # NULL => k = l
  BY DEF Loaded
<1>3. live' = Live /\ Live \subseteq Buttons
  BY <1>1, <1>2 DEF live, MaybeButton
<1>4. \A b \in Live : KeyOf(b) \in Keys /\ f[KeyOf(b)] = b
  OBVIOUS
<1>5. ASSUME NEW k \in Keys, f[k] # NULL
      PROVE  f[k] \in Live /\ KeyOf(f[k]) = k
  BY <1>2, <1>4, <1>5
<1>6. ASSUME NEW b \in Live
      PROVE  deck_plugin_load(file[KeyOf(b)], KeyOf(b)) \in Button
  <2>1. file[KeyOf(b)] # None /\ KeyOf(b) \in Keys
    BY <1>2, <1>4
  <2>2. file[KeyOf(b)] \in Groups /\ Named(file[KeyOf(b)])
    BY <2>1 DEF TypeOK, FileInv
  <2> HIDE DEF KeyOf
  <2> QED  BY <2>1, <2>2, LoadedIsButton
<1>7. button' \in [live' -> Button]
  BY <1>1, <1>3, <1>6
<1>8. \A k \in Keys : f[k] # NULL =>
          f[k] \in live' /\ button'[f[k]] = deck_plugin_load(file[k], k)
  BY <1>1, <1>3, <1>5
<1> QED  BY <1>1, <1>2, <1>3, <1>4, <1>7, <1>8 DEF StoppedInv

LEMMA GridConstructed ==
    ASSUME TypeOK, FileInv, StoppedInv, NEW f \in Loaded, deck_grid_constructed(f)
    PROVE  GridInv'
<1>1. /\ actions' = f /\ cell' = f /\ main' = Idle
      /\ \A b \in live' : \E k \in Keys : f[k] = b
      /\ live' \subseteq Buttons
      /\ \A k \in Keys : f[k] # NULL =>
           f[k] \in live' /\ button'[f[k]] = deck_plugin_load(file[k], k)
  BY Constructed
<1>2. \A k \in Keys : f[k] # NULL => button'[f[k]].key = k
  <2>1. \A k \in Keys : deck_plugin_load(file[k], k).key = k
    BY DEF deck_plugin_load
  <2> QED  BY <1>1, <2>1
<1>3. \A b \in live' : actions'[button'[b].key] = b
  BY <1>1, <1>2, DeckGridAssumption
<1>4. ~Between' /\ main'.pc # "drop"
  BY <1>1 DEF Between, Idle
<1> QED  BY <1>1, <1>2, <1>3, <1>4 DEF GridInv

LEMMA GridStep ==
    ASSUME TypeOK, ConfigOfTheGrid, GridInv, FileInv, StoppedInv, Next
    PROVE  GridInv'
<1>1. ASSUME NEW k \in Keys, NEW a \in Dropped, on_grid_drag_data_received(k, a) PROVE GridInv'
  BY <1>1, DropFrees, GridFreed
<1>2. CASE on_delete_clicked
  <2>1. /\ ~Between /\ main'.key \in Keys /\ Unref(actions[main'.key]) /\ UNCHANGED grid
        /\ main'.pc = "remove"
    BY <1>2, DeleteFrees
  <2> QED  BY <2>1, GridFreed
<1> QED  BY <1>1, <1>2, StepKinds, GridInPlace, GridEnded, GridPlaced, GridRemoved,
         GridConstructed DEF Replaces
-----------------------------------------------------------------------------
(***************************************************************************)
(* The configuration: a click, a new button and a deleted one change it.   *)
(***************************************************************************)
LEMMA ConfigKinds ==
    ASSUME Next
    PROVE  \/ UNCHANGED config \/ Ended
           \/ \E k \in Keys : button_pressed(k)
           \/ \E b \in Buttons : PlaceDropped(b)
           \/ deck_grid_remove_button
<1> USE DEF config
<1>1. ASSUME NEW k \in Keys, NEW a \in Dropped, on_grid_drag_data_received(k, a)
      PROVE  UNCHANGED config
  BY <1>1 DEF on_grid_drag_data_received
<1>2. CASE on_delete_clicked \/ Edit \/ on_window_delete_event \/ on_menu_quit \/ CollectKey
  BY <1>2 DEF on_delete_clicked, Edit, on_window_delete_event, on_menu_quit, SaveAndThen,
     CollectKey
<1>3. CASE CollectPastTheGrid \/ g_key_file_save_to_file
  BY <1>3 DEF CollectPastTheGrid, g_key_file_save_to_file
<1>4. CASE ReaderNext
  BY <1>4 DEF ReaderNext, hid_read, read_key_states, ReadPastTheKeys, EndOfReport
<1>5. ASSUME NEW t \in Pool, PoolNext(t) PROVE UNCHANGED config \/ Ended
  BY <1>5 DEF PoolNext, TakePress, process_plugin_exec
<1>6. ASSUME NEW f \in Loaded, deck_grid_constructed(f) PROVE UNCHANGED config
  BY <1>6 DEF deck_grid_constructed
<1> QED  BY <1>1, <1>2, <1>3, <1>4, <1>5, <1>6 DEF Next, MainNext, Crash

LEMMA ConfigStep ==
    ASSUME TypeOK, ConfigOfTheGrid, GridInv, FileInv, StoppedInv, Next
    PROVE  ConfigOfTheGrid'
<1>1. CASE Ended
  BY <1>1 DEF Ended, ConfigOfTheGrid
<1>2. ASSUME NEW k \in Keys, button_pressed(k) PROVE ConfigOfTheGrid'
  <2>1. /\ main.pc = "idle" /\ show_config(cell[k]) /\ main' = main
        /\ button' = IF cell[k] = NULL THEN button ELSE Configured(cell[k])
    BY <1>2 DEF button_pressed, At
  <2>2. /\ owner # NULL => owner \in live
        /\ cell[k] # NULL => cell[k] \in live
    BY <2>1 DEF ConfigOfTheGrid, GridInv, Between
  <2>3. live' = live
    <3>1. CASE cell[k] = NULL
      BY <2>1, <3>1 DEF live
    <3>2. CASE cell[k] # NULL
      BY <2>1, <2>2, <3>2, ConfiguredAlters, AlteredKeeps
    <3> QED  BY <3>1, <3>2
  <2> QED  BY <2>1, <2>2, <2>3 DEF show_config, ConfigOfTheGrid
<1>3. ASSUME NEW b \in Buttons, PlaceDropped(b) PROVE ConfigOfTheGrid'
  <2>1. b \in live' /\ b # NULL
    BY <1>3, PlacedIsNew, DeckGridAssumption
  <2>2. show_config(b)
    BY <1>3 DEF PlaceDropped
  <2> QED  BY <2>1, <2>2 DEF show_config, ConfigOfTheGrid
<1>4. CASE deck_grid_remove_button
  BY <1>4 DEF deck_grid_remove_button, ConfigOfTheGrid
<1>5. CASE UNCHANGED config /\ InPlace
  <2>1. live' = live /\ UNCHANGED <<current, owner, shown>>
    BY <1>5, AlteredKeeps DEF InPlace, config
  <2>2. main'.pc \in {"idle", "save"} => main.pc \in {"idle", "save"}
    BY <1>5 DEF InPlace, MainStays, Between, TypeOK
  <2> QED  BY <2>1, <2>2 DEF ConfigOfTheGrid
<1>6. CASE UNCHANGED config /\ Replaces
  <2>1. ASSUME NEW k \in Keys, NEW a \in Dropped, on_grid_drag_data_received(k, a)
        PROVE  ConfigOfTheGrid'
    BY <2>1, DropFrees DEF ConfigOfTheGrid
  <2>2. CASE on_delete_clicked
    BY <2>2, DeleteFrees DEF ConfigOfTheGrid
  <2>3. ASSUME NEW f \in Loaded, deck_grid_constructed(f) PROVE ConfigOfTheGrid'
    <3>1. UNCHANGED <<current, owner, shown>> /\ current = NULL /\ owner = NULL /\ ~shown
      BY <2>3, Constructed DEF config
    <3> QED  BY <3>1 DEF ConfigOfTheGrid
  <2> QED  BY <1>3, <1>4, <1>6, <2>1, <2>2, <2>3 DEF Replaces
<1> QED  BY <1>1, <1>2, <1>3, <1>4, <1>5, <1>6, StepKinds, ConfigKinds

-----------------------------------------------------------------------------
(***************************************************************************)
(* Saving.                                                                 *)
(***************************************************************************)
LEMMA SaveKinds ==
    ASSUME Next
    PROVE  \/ UNCHANGED <<main, keys, file>>
           \/ Ended /\ (UNCHANGED file \/ g_key_file_save_to_file)
           \/ Replaces
           \/ on_window_delete_event \/ on_menu_quit
           \/ CollectKey \/ CollectPastTheGrid \/ g_key_file_save_to_file
<1>1. ASSUME NEW k \in Keys, button_pressed(k) PROVE UNCHANGED <<main, keys, file>>
  BY <1>1 DEF button_pressed
<1>2. CASE Edit
  BY <1>2 DEF Edit
<1>3. CASE ReaderNext
  BY <1>3 DEF ReaderNext, hid_read, read_key_states, ReadPastTheKeys, EndOfReport
<1>4. ASSUME NEW t \in Pool, PoolNext(t)
      PROVE  UNCHANGED <<main, keys, file>> \/ (Ended /\ UNCHANGED file)
  BY <1>4 DEF PoolNext, TakePress, process_plugin_exec
<1> QED  BY <1>1, <1>2, <1>3, <1>4 DEF Next, MainNext, Crash, Replaces

LEMMA ReplacesNotSaving ==
    ASSUME TypeOK, GridInv, ConfigOfTheGrid, SaveInv, FileInv, StoppedInv, Replaces
    PROVE  /\ UNCHANGED <<keys, file>> /\ main.pc # "save" /\ main'.pc # "save"
           /\ main'.index = 0
<1>1. ASSUME NEW k \in Keys, NEW a \in Dropped, on_grid_drag_data_received(k, a)
      PROVE  /\ UNCHANGED <<keys, file>> /\ main.pc # "save" /\ main'.pc # "save"
             /\ main'.index = 0
  <2>1. UNCHANGED <<keys, file>> /\ main.pc = "idle"
    BY <1>1 DEF on_grid_drag_data_received, At
  <2> QED  BY <1>1, <2>1, DropFrees DEF SaveInv
<1>2. ASSUME NEW b \in Buttons, PlaceDropped(b)
      PROVE  /\ UNCHANGED <<keys, file>> /\ main.pc # "save" /\ main'.pc # "save"
             /\ main'.index = 0
  BY <1>2 DEF PlaceDropped, At, Idle
<1>3. CASE on_delete_clicked
  <2>1. UNCHANGED <<keys, file>> /\ main.pc = "idle"
    BY <1>3 DEF on_delete_clicked, At
  <2> QED  BY <1>3, <2>1, DeleteFrees DEF SaveInv
<1>4. CASE deck_grid_remove_button
  BY <1>4 DEF deck_grid_remove_button, At, Idle
<1>5. ASSUME NEW f \in Loaded, deck_grid_constructed(f)
      PROVE  /\ UNCHANGED <<keys, file>> /\ main.pc # "save" /\ main'.pc # "save"
             /\ main'.index = 0
  BY <1>5, Constructed DEF Idle
<1> QED  BY <1>1, <1>2, <1>3, <1>4, <1>5 DEF Replaces

LEMMA CollectKeySteps ==
    ASSUME TypeOK, GridInv, CollectKey
    PROVE  /\ main.pc = "save" /\ main.index \in Keys /\ main.index < ScanKeys
           /\ main'.pc = "save" /\ main'.index = main.index + 1
           /\ file' = file /\ keys' \in [Keys -> Groups \cup {None}]
           /\ \A k \in Keys \ {main.index} : keys'[k] = keys[k]
           /\ actions[main.index] = NULL => keys' = keys
           /\ actions[main.index] # NULL =>
                /\ actions[main.index] \in live
                /\ keys'[main.index] = deck_plugin_save(actions[main.index])
                /\ keys'[main.index] \in Groups /\ Named(keys'[main.index])
<1> DEFINE i == main.index
<1>1. /\ main.pc = "save" /\ i \in Keys /\ i < ScanKeys /\ file' = file
      /\ main' = [main EXCEPT !.index = @ + 1]
      /\ keys' = IF actions[i] = NULL THEN keys
                 ELSE [keys EXCEPT ![i] = deck_plugin_save(actions[i])]
  BY DEF CollectKey, At
<1>2. main'.pc = "save" /\ main'.index = i + 1
  BY <1>1 DEF TypeOK
<1>3. keys \in [Keys -> Groups \cup {None}]
  BY DEF TypeOK
<1>4. CASE actions[i] = NULL
  BY <1>1, <1>2, <1>3, <1>4
<1>5. CASE actions[i] # NULL
  <2>1. actions[i] \in live
    BY <1>1, <1>5 DEF GridInv, Between
  <2>2. deck_plugin_save(actions[i]) \in Groups /\ Named(deck_plugin_save(actions[i]))
    BY <2>1, SavedIsGroup
  <2>3. keys' = [keys EXCEPT ![i] = deck_plugin_save(actions[i])]
    BY <1>1, <1>5
  <2> HIDE DEF i
  <2>4. /\ keys' \in [Keys -> Groups \cup {None}]
        /\ keys'[i] = deck_plugin_save(actions[i])
        /\ \A k \in Keys \ {i} : keys'[k] = keys[k]
    BY <1>1, <1>3, <2>2, <2>3
  <2> QED  BY <1>1, <1>2, <1>5, <2>1, <2>2, <2>4 DEF i
<1> QED  BY <1>4, <1>5

LEMMA WriteSteps ==
    ASSUME TypeOK, g_key_file_save_to_file
    PROVE  /\ main.pc = "save" /\ main.index = ScanKeys
           /\ file' \in {keys, file} /\ keys' = NoGroups
           /\ main'.index = 0
           /\ ~Ended => UNCHANGED <<running, grid, button, config, device, pool>>
           /\ \/ main' = Idle
              \/ /\ main' = [main EXCEPT !.index = 0, !.then = "exit"]
                 /\ main'.pc = "save"
<1>1. /\ main.pc = "save" /\ main.index = ScanKeys /\ file' \in {keys, file}
      /\ \/ Ended
         \/ /\ keys' = NoGroups
            /\ UNCHANGED <<running, grid, button, config, device, pool>>
            /\ main' = Idle \/ main' = [main EXCEPT !.index = 0, !.then = "exit"]
  BY DEF g_key_file_save_to_file, At
<1>2. CASE main' = [main EXCEPT !.index = 0, !.then = "exit"]
  <2>1. main'.index = 0 /\ main'.pc = "save"
    BY <1>1, <1>2 DEF TypeOK
  <2> QED  BY <1>1, <1>2, <2>1 DEF Ended
<1>3. CASE main' = Idle
  BY <1>1, <1>3 DEF Ended, Idle
<1> QED  BY <1>1, <1>2, <1>3 DEF Ended

LEMMA CollectPastSteps ==
    ASSUME TypeOK, CollectPastTheGrid
    PROVE  /\ main.pc = "save" /\ main.index \notin Keys /\ main.index < ScanKeys
           /\ file' = file
           /\ \/ Ended
              \/ /\ keys' = keys /\ main'.pc = "save" /\ main'.index = main.index + 1
                 /\ main' = [main EXCEPT !.index = @ + 1]
                 /\ UNCHANGED <<running, grid, button, config, device, pool>>
<1>1. CASE main' = [main EXCEPT !.index = @ + 1]
  <2>1. main'.pc = main.pc /\ main'.index = main.index + 1
    BY <1>1 DEF TypeOK
  <2> QED  BY <1>1, <2>1 DEF CollectPastTheGrid, At
<1> QED  BY <1>1 DEF CollectPastTheGrid, At

LEMMA SaveBegins ==
    ASSUME TypeOK, NEW then \in {"run", "quit"}, SaveAndThen(then)
    PROVE  /\ main.pc = "idle" /\ main'.pc = "save" /\ main'.index = main.index
           /\ UNCHANGED <<running, grid, button, config, keys, file, device, pool>>
<1>1. main' = [main EXCEPT !.pc = "save", !.then = then]
  BY DEF SaveAndThen
<1>2. main'.pc = "save" /\ main'.index = main.index
  BY <1>1 DEF TypeOK
<1> QED  BY <1>2 DEF SaveAndThen, At

LEMMA SaveStep ==
    ASSUME TypeOK, GridInv, ConfigOfTheGrid, SaveInv, FileInv, StoppedInv, Next
    PROVE  SaveInv' /\ FileInv'
<1>0. \A k \in Keys : k \in Int
  BY DEF Keys
<1>1. CASE UNCHANGED <<main, keys, file>>
  BY <1>1 DEF SaveInv, FileInv
<1>2. CASE Ended /\ UNCHANGED file
  BY <1>2 DEF Ended, SaveInv, FileInv, Idle, NoGroups
<1>3. CASE Replaces
  BY <1>3, ReplacesNotSaving DEF SaveInv, FileInv, NoGroups
<1>4. CASE on_window_delete_event \/ on_menu_quit
  <2>1. /\ main.pc = "idle" /\ main'.pc = "save" /\ main'.index = main.index
        /\ UNCHANGED <<keys, file>>
    BY <1>4, SaveBegins DEF on_window_delete_event, on_menu_quit
  <2> QED  BY <2>1 DEF SaveInv, FileInv
<1>5. CASE CollectKey
  <2> DEFINE i == main.index
  <2>1. /\ main'.pc = "save" /\ main'.index = i + 1 /\ file' = file
        /\ \A k \in Keys \ {i} : keys'[k] = keys[k]
        /\ actions[i] = NULL => keys' = keys
        /\ actions[i] # NULL => Named(keys'[i])
    BY <1>5, CollectKeySteps
  <2>2. i \in Int
    BY <1>5, CollectKeySteps, <1>0
  <2>3. SaveInv'
    BY <1>0, <2>1, <2>2 DEF SaveInv
  <2>4. FileInv'
    BY <2>1 DEF FileInv
  <2> QED  BY <2>3, <2>4
<1>6. CASE CollectPastTheGrid /\ ~Ended
  <2>1. /\ main'.pc = "save" /\ main'.index = main.index + 1
        /\ UNCHANGED <<keys, file>>
    BY <1>6, CollectPastSteps
  <2>2. main.index \in Int
    BY DeckGridAssumption DEF TypeOK
  <2> QED  BY <1>0, <2>1, <2>2 DEF SaveInv, FileInv
<1>7. CASE CollectPastTheGrid /\ Ended
  BY <1>2, <1>7, CollectPastSteps
<1>8. CASE g_key_file_save_to_file
  <2>1. /\ file' \in {keys, file} /\ keys' = NoGroups /\ main'.index = 0
    BY <1>8, WriteSteps
  <2> QED  BY <2>1 DEF SaveInv, FileInv, NoGroups
<1> QED  BY <1>1, <1>2, <1>3, <1>4, <1>5, <1>6, <1>7, <1>8, SaveKinds
-----------------------------------------------------------------------------
(***************************************************************************)
(* The types, one group of variables at a time.                            *)
(***************************************************************************)
GridTypes == /\ running \in BOOLEAN
             /\ actions \in [Keys -> MaybeButton] /\ cell \in [Keys -> MaybeButton]
ButtonTypes == live \subseteq Buttons /\ button \in [live -> Button]
ConfigTypes == current \in MaybeButton /\ owner \in MaybeButton /\ shown \in BOOLEAN
MainTypes ==
    main \in [pc : {"idle", "drop", "remove", "save"}, key : Keys,
              action : Actions \cup {NULL}, index : 0 .. ScanKeys,
              then : {"run", "quit", "exit"}]
KeysTypes ==
    keys \in [Keys -> Groups \cup {None}] /\ file \in [Keys -> Groups \cup {None}]
DeviceTypes ==
    /\ reader \in [pc : {"read", "scan"}, index : 0 .. ScanKeys, report : [Keys -> {0, 1}]]
    /\ key_state \in [Keys -> {0, 1}]
PoolTypes == queue \in Seq(Buttons) /\ exec \in [Pool -> MaybeButton]
CountTypes == drops \in Nat /\ edits \in Nat /\ reports \in Nat /\ starts \in Nat

LEMMA TypesTogether ==
    TypeOK <=> /\ GridTypes /\ ButtonTypes /\ ConfigTypes /\ MainTypes
               /\ KeysTypes /\ DeviceTypes /\ PoolTypes /\ CountTypes
  BY Zenon DEF TypeOK, GridTypes, ButtonTypes, ConfigTypes, MainTypes, KeysTypes, DeviceTypes,
     PoolTypes, CountTypes

LEMMA IdleTypes ==
    /\ 0 \in Keys
    /\ Idle \in [pc : {"idle", "drop", "remove", "save"}, key : Keys,
                 action : Actions \cup {NULL}, index : 0 .. ScanKeys,
                 then : {"run", "quit", "exit"}]
<1>1. 0 \in Keys /\ 0 \in 0 .. ScanKeys
  BY DeckGridAssumption DEF Keys
<1> QED  BY <1>1 DEF Idle

LEMMA ReadTypes ==
    Read \in [pc : {"read", "scan"}, index : 0 .. ScanKeys, report : [Keys -> {0, 1}]]
<1>1. 0 \in 0 .. ScanKeys /\ Released \in [Keys -> {0, 1}]
  BY DeckGridAssumption DEF Released
<1> QED  BY <1>1 DEF Read

LEMMA EndedTypes ==
    ASSUME Ended
    PROVE  /\ GridTypes' /\ ButtonTypes' /\ ConfigTypes' /\ MainTypes'
           /\ keys' \in [Keys -> Groups \cup {None}] /\ DeviceTypes' /\ PoolTypes'
<1>1. GridTypes' /\ ConfigTypes'
  BY DEF Ended, GridTypes, ConfigTypes, NoButtons, MaybeButton
<1>2. ButtonTypes'
  BY DEF Ended, ButtonTypes, live
<1>3. MainTypes'
  BY IdleTypes DEF Ended, MainTypes
<1>4. keys' \in [Keys -> Groups \cup {None}]
  BY DEF Ended, NoGroups
<1>5. DeviceTypes'
  BY ReadTypes DEF Ended, DeviceTypes, Released
<1>6. PoolTypes'
  BY DEF Ended, PoolTypes, MaybeButton
<1> QED  BY <1>1, <1>2, <1>3, <1>4, <1>5, <1>6

LEMMA GridTypeStep ==
    ASSUME TypeOK, GridInv, ConfigOfTheGrid, FileInv, StoppedInv, Next
    PROVE  GridTypes' /\ ButtonTypes'
<1>0. GridTypes /\ ButtonTypes
  BY TypesTogether
<1>1. CASE Ended
  BY <1>1, EndedTypes
<1>2. CASE InPlace
  <2>1. GridTypes'
    BY <1>0, <1>2 DEF InPlace, grid, GridTypes
  <2>2. ButtonTypes'
    BY <1>0, <1>2, AlteredKeeps DEF InPlace, ButtonTypes
  <2> QED  BY <2>1, <2>2
<1>3. ASSUME NEW b, Unref(b), UNCHANGED <<running, grid>>
      PROVE  GridTypes' /\ ButtonTypes'
  <2>1. GridTypes'
    BY <1>0, <1>3 DEF grid, GridTypes
  <2>2. ButtonTypes'
    BY <1>0, <1>3, UnrefFrees DEF ButtonTypes
  <2> QED  BY <2>1, <2>2
<1>4. ASSUME NEW k \in Keys, NEW a \in Dropped, on_grid_drag_data_received(k, a)
      PROVE  GridTypes' /\ ButtonTypes'
  BY <1>3, <1>4 DEF on_grid_drag_data_received
<1>5. ASSUME NEW b \in Buttons, PlaceDropped(b) PROVE GridTypes' /\ ButtonTypes'
  <2>1. ButtonTypes'
    BY <1>0, <1>5, PlacedIsNew DEF ButtonTypes
  <2>2. GridTypes'
    BY <1>0, <1>5 DEF GridTypes, PlaceDropped, add_plugin_button, MaybeButton
  <2> QED  BY <2>1, <2>2
<1>6. CASE on_delete_clicked
  BY <1>3, <1>6 DEF on_delete_clicked
<1>7. CASE deck_grid_remove_button
  <2>1. GridTypes'
    BY <1>0, <1>7 DEF GridTypes, deck_grid_remove_button, add_plugin_button, MaybeButton
  <2>2. ButtonTypes'
    BY <1>0, <1>7 DEF ButtonTypes, deck_grid_remove_button, live
  <2> QED  BY <2>1, <2>2
<1>8. ASSUME NEW f \in Loaded, deck_grid_constructed(f) PROVE GridTypes' /\ ButtonTypes'
  <2>1. ButtonTypes' /\ actions' = f /\ cell' = f /\ f \in [Keys -> MaybeButton]
    BY <1>8, Constructed DEF ButtonTypes
  <2> QED  BY <1>8, <2>1 DEF GridTypes, deck_grid_constructed
<1> QED  BY <1>1, <1>2, <1>4, <1>5, <1>6, <1>7, <1>8, StepKinds DEF Replaces

LEMMA ConfigTypeStep ==
    ASSUME TypeOK, Next
    PROVE  ConfigTypes'
<1>0. ConfigTypes /\ GridTypes
  BY TypesTogether
<1>1. CASE Ended
  BY <1>1, EndedTypes
<1>2. ASSUME NEW k \in Keys, button_pressed(k) PROVE ConfigTypes'
  BY <1>0, <1>2 DEF button_pressed, show_config, ConfigTypes, GridTypes
<1>3. ASSUME NEW b \in Buttons, PlaceDropped(b) PROVE ConfigTypes'
  BY <1>0, <1>3 DEF PlaceDropped, show_config, ConfigTypes, MaybeButton
<1>4. CASE deck_grid_remove_button
  BY <1>4 DEF deck_grid_remove_button, ConfigTypes, MaybeButton
<1>5. CASE UNCHANGED config
  BY <1>0, <1>5 DEF config, ConfigTypes
<1> QED  BY <1>1, <1>2, <1>3, <1>4, <1>5, ConfigKinds

LEMMA MainTypeStep ==
    ASSUME TypeOK, GridInv, ConfigOfTheGrid, FileInv, StoppedInv, Next
    PROVE  MainTypes'
<1>0. MainTypes
  BY TypesTogether
<1>1. CASE Ended
  BY <1>1, EndedTypes
<1>2. CASE UNCHANGED main
  BY <1>0, <1>2 DEF MainTypes
<1>3. ASSUME NEW k \in Keys, NEW a \in Dropped, on_grid_drag_data_received(k, a)
      PROVE  MainTypes'
  <2>1. main' = [main EXCEPT !.pc = "drop", !.key = k, !.action = a] /\ a \in Actions
    BY <1>3, DeckGridAssumption DEF on_grid_drag_data_received
  <2> QED  BY <1>0, <2>1 DEF MainTypes
<1>4. CASE main' = Idle
  BY <1>4, IdleTypes DEF MainTypes
<1>5. CASE on_delete_clicked
  <2>1. /\ main' = [main EXCEPT !.pc = "remove", !.key = button[current].key]
    BY <1>5 DEF on_delete_clicked
  <2>2. button[current].key \in Keys
    BY <1>5, DeleteFrees DEF TypeOK, Button
  <2> QED  BY <1>0, <2>1, <2>2 DEF MainTypes
<1>6. ASSUME NEW f \in Loaded, deck_grid_constructed(f) PROVE MainTypes'
  BY <1>2, <1>6 DEF deck_grid_constructed
<1>7. ASSUME NEW then \in {"run", "quit"}, SaveAndThen(then) PROVE MainTypes'
  BY <1>0, <1>7 DEF SaveAndThen, MainTypes
<1>8. ASSUME main' = [main EXCEPT !.index = @ + 1], main.index < ScanKeys PROVE MainTypes'
  <2>1. main.index + 1 \in 0 .. ScanKeys
    BY <1>0, <1>8, DeckGridAssumption DEF MainTypes
  <2> QED  BY <1>0, <1>8, <2>1 DEF MainTypes
<1>9. CASE CollectKey
  BY <1>8, <1>9 DEF CollectKey
<1>10. CASE CollectPastTheGrid
  BY <1>1, <1>8, <1>10 DEF CollectPastTheGrid
<1>11. CASE g_key_file_save_to_file
  <2>1. 0 \in 0 .. ScanKeys
    BY DeckGridAssumption
  <2>2. main' = [main EXCEPT !.index = 0, !.then = "exit"] => MainTypes'
    BY <1>0, <2>1 DEF MainTypes
  <2> QED  BY <1>4, <1>11, <2>2, WriteSteps
<1> QED  BY <1>1, <1>2, <1>3, <1>4, <1>5, <1>6, <1>7, <1>9, <1>10, <1>11, SaveKinds
         DEF Replaces, PlaceDropped, deck_grid_remove_button, on_window_delete_event,
         on_menu_quit

LEMMA KeysTypeStep ==
    ASSUME TypeOK, GridInv, ConfigOfTheGrid, SaveInv, FileInv, StoppedInv, Next
    PROVE  KeysTypes'
<1>0. KeysTypes
  BY TypesTogether
<1>1. CASE UNCHANGED <<keys, file>>
  BY <1>0, <1>1 DEF KeysTypes
<1>2. CASE Ended /\ UNCHANGED file
  BY <1>0, <1>2, EndedTypes DEF KeysTypes
<1>3. CASE Replaces
  BY <1>1, <1>3, ReplacesNotSaving
<1>4. CASE on_window_delete_event \/ on_menu_quit
  BY <1>1, <1>4, SaveBegins DEF on_window_delete_event, on_menu_quit
<1>5. CASE CollectKey
  BY <1>0, <1>5, CollectKeySteps DEF KeysTypes
<1>6. CASE CollectPastTheGrid
  BY <1>1, <1>2, <1>6, CollectPastSteps
<1>7. CASE g_key_file_save_to_file
  <2>1. file' \in {keys, file} /\ keys' = NoGroups
    BY <1>7, WriteSteps
  <2> QED  BY <1>0, <2>1 DEF KeysTypes, NoGroups
<1> QED  BY <1>1, <1>2, <1>3, <1>4, <1>5, <1>6, <1>7, SaveKinds

LEMMA DeviceKinds ==
    ASSUME Next
    PROVE  UNCHANGED device \/ Ended \/ ReaderNext
<1>1. ASSUME MainNext PROVE UNCHANGED device \/ Ended
  BY <1>1 DEF MainNext, button_pressed, on_grid_drag_data_received, PlaceDropped,
     on_delete_clicked, deck_grid_remove_button, Edit, on_window_delete_event, on_menu_quit,
     SaveAndThen, CollectKey, CollectPastTheGrid, g_key_file_save_to_file
<1>2. ASSUME NEW t \in Pool, PoolNext(t) PROVE UNCHANGED device \/ Ended
  BY <1>2 DEF PoolNext, TakePress, process_plugin_exec
<1>3. ASSUME NEW f \in Loaded, deck_grid_constructed(f) PROVE UNCHANGED device
  BY <1>3 DEF deck_grid_constructed
<1> QED  BY <1>1, <1>2, <1>3 DEF Next, Crash

LEMMA DeviceTypeStep ==
    ASSUME TypeOK, Next
    PROVE  DeviceTypes'
<1>0. DeviceTypes
  BY TypesTogether
<1>1. CASE Ended
  BY <1>1, EndedTypes
<1>2. CASE UNCHANGED device
  BY <1>0, <1>2 DEF device, DeviceTypes
<1>3. ASSUME NEW report \in Reports, hid_read(report) PROVE DeviceTypes'
  <2>1. /\ reader' = [pc |-> "scan", index |-> 0, report |-> report] /\ UNCHANGED key_state
        /\ report \in [Keys -> {0, 1}] /\ 0 \in 0 .. ScanKeys
    BY <1>3, DeckGridAssumption DEF hid_read
  <2> QED  BY <1>0, <2>1 DEF DeviceTypes
<1>4. ASSUME reader' = [reader EXCEPT !.index = @ + 1], reader.index < ScanKeys,
             UNCHANGED key_state
      PROVE  DeviceTypes'
  <2>1. reader.index + 1 \in 0 .. ScanKeys
    BY <1>0, <1>4, DeckGridAssumption DEF DeviceTypes
  <2> QED  BY <1>0, <1>4, <2>1 DEF DeviceTypes
<1>5. CASE EndOfReport
  BY <1>0, <1>5, ReadTypes DEF EndOfReport, DeviceTypes
<1>6. CASE read_key_states
  BY <1>4, <1>6 DEF read_key_states
<1>7. CASE ReadPastTheKeys
  BY <1>1, <1>4, <1>7 DEF ReadPastTheKeys
<1> QED  BY <1>1, <1>2, <1>3, <1>5, <1>6, <1>7, DeviceKinds DEF ReaderNext

LEMMA PoolTypeStep ==
    ASSUME TypeOK, Next
    PROVE  PoolTypes'
<1>0. PoolTypes
  BY TypesTogether
<1>1. CASE Ended
  BY <1>1, EndedTypes
<1>2. CASE UNCHANGED pool
  BY <1>0, <1>2 DEF pool, PoolTypes
<1>3. CASE MainNext
  BY <1>1, <1>2, <1>3 DEF MainNext, button_pressed, on_grid_drag_data_received, PlaceDropped,
     on_delete_clicked, deck_grid_remove_button, Edit, on_window_delete_event, on_menu_quit,
     SaveAndThen, CollectKey, CollectPastTheGrid, g_key_file_save_to_file
<1>4. CASE read_key_states
  <2> DEFINE b == actions[reader.index]
  <2>1. /\ queue' = queue \/ (queue' = Append(queue, b) /\ b # NULL)
        /\ exec' = exec /\ reader.index \in Keys
    BY <1>4 DEF read_key_states
  <2>2. b \in MaybeButton
    BY <2>1 DEF TypeOK
  <2>3. b # NULL => b \in Buttons
    BY <2>2 DEF MaybeButton
  <2> HIDE DEF b
  <2> QED  BY <1>0, <2>1, <2>3 DEF PoolTypes
<1>5. ASSUME NEW report \in Reports, hid_read(report) PROVE PoolTypes'
  BY <1>2, <1>5 DEF hid_read
<1>6. CASE ReadPastTheKeys \/ EndOfReport
  BY <1>1, <1>2, <1>6 DEF ReadPastTheKeys, EndOfReport
<1>7. ASSUME NEW t \in Pool, TakePress(t) PROVE PoolTypes'
  <2>1. /\ queue # <<>> /\ exec' = [exec EXCEPT ![t] = Head(queue)] /\ queue' = Tail(queue)
    BY <1>7 DEF TakePress
  <2>2. Head(queue) \in Buttons /\ Tail(queue) \in Seq(Buttons)
    BY <1>0, <2>1 DEF PoolTypes
  <2> QED  BY <1>0, <2>1, <2>2 DEF PoolTypes, MaybeButton
<1>8. ASSUME NEW t \in Pool, process_plugin_exec(t) PROVE PoolTypes'
  BY <1>0, <1>1, <1>8 DEF process_plugin_exec, PoolTypes, MaybeButton
<1>9. ASSUME NEW f \in Loaded, deck_grid_constructed(f) PROVE PoolTypes'
  BY <1>2, <1>9 DEF deck_grid_constructed
<1> QED  BY <1>1, <1>3, <1>4, <1>5, <1>6, <1>7, <1>8, <1>9 DEF Next, ReaderNext, PoolNext, Crash

LEMMA CountTypeStep ==
    ASSUME TypeOK, Next
    PROVE  CountTypes'
<1>0. CountTypes
  BY TypesTogether
<1> USE <1>0 DEF CountTypes, bounds
<1>1. CASE MainNext
  <2>1. \/ UNCHANGED bounds
        \/ drops' = drops + 1 /\ UNCHANGED <<edits, reports, starts>>
        \/ edits' = edits + 1 /\ UNCHANGED <<drops, reports, starts>>
    BY <1>1, Zenon DEF MainNext, button_pressed, on_grid_drag_data_received, PlaceDropped,
       on_delete_clicked, deck_grid_remove_button, Edit, on_window_delete_event, on_menu_quit,
       SaveAndThen, CollectKey, CollectPastTheGrid, g_key_file_save_to_file
  <2> QED  BY <2>1
<1>2. CASE ReaderNext
  BY <1>2 DEF ReaderNext, hid_read, read_key_states, ReadPastTheKeys, EndOfReport
<1>3. ASSUME NEW t \in Pool, PoolNext(t) PROVE CountTypes'
  BY <1>3 DEF PoolNext, TakePress, process_plugin_exec
<1>4. ASSUME NEW f \in Loaded, deck_grid_constructed(f) PROVE CountTypes'
  BY <1>4 DEF deck_grid_constructed
<1>5. CASE Crash
  BY <1>5 DEF Crash
<1> QED  BY <1>1, <1>2, <1>3, <1>4, <1>5 DEF Next
-----------------------------------------------------------------------------
LEMMA StoppedStep ==
    ASSUME Next
    PROVE  StoppedInv'
<1>1. CASE Ended
  BY <1>1 DEF Ended, StoppedInv, live
<1>2. ASSUME ~Ended PROVE running'
  <2>1. CASE MainNext
    BY <1>2, <2>1, Zenon DEF MainNext, button_pressed, on_grid_drag_data_received, PlaceDropped,
       on_delete_clicked, deck_grid_remove_button, Edit, on_window_delete_event, on_menu_quit,
       SaveAndThen, CollectKey, CollectPastTheGrid, g_key_file_save_to_file, At
  <2>2. CASE ReaderNext
    BY <1>2, <2>2 DEF ReaderNext, hid_read, read_key_states, ReadPastTheKeys, EndOfReport
  <2>3. ASSUME NEW t \in Pool, PoolNext(t) PROVE running'
    BY <1>2, <2>3, Zenon DEF PoolNext, TakePress, process_plugin_exec
  <2>4. ASSUME NEW f \in Loaded, deck_grid_constructed(f) PROVE running'
    BY <2>4 DEF deck_grid_constructed
  <2> QED  BY <1>2, <2>1, <2>2, <2>3, <2>4 DEF Next, Crash
<1> QED  BY <1>1, <1>2 DEF StoppedInv

LEMMA InitIInv == Init => IInv
<1> SUFFICES ASSUME Init PROVE IInv
  OBVIOUS
<1>1. /\ running = TRUE
      /\ actions = NoButtons /\ cell = NoButtons /\ button = [b \in {} |-> NULL]
      /\ current = NULL /\ owner = NULL /\ shown = FALSE
      /\ main = Idle /\ keys = NoGroups /\ file = NoGroups
      /\ reader = Read /\ key_state = Released
      /\ queue = <<>> /\ exec = [t \in Pool |-> NULL]
      /\ drops = 0 /\ edits = 0 /\ reports = 0 /\ starts = 0
  BY DEF Init
<1>2. GridTypes /\ ConfigTypes /\ CountTypes
  BY <1>1 DEF GridTypes, ConfigTypes, CountTypes, NoButtons, MaybeButton
<1>3. ButtonTypes
  BY <1>1 DEF ButtonTypes, live
<1>4. MainTypes
  BY <1>1, IdleTypes DEF MainTypes
<1>5. KeysTypes /\ PoolTypes
  BY <1>1 DEF KeysTypes, PoolTypes, NoGroups, MaybeButton
<1>6. DeviceTypes
  BY <1>1, ReadTypes DEF DeviceTypes, Released
<1>7. TypeOK
  BY <1>2, <1>3, <1>4, <1>5, <1>6, TypesTogether
<1>8. GridInv
  BY <1>1 DEF GridInv, Between, NoButtons, Idle, live
<1>9. ConfigOfTheGrid /\ StoppedInv
  BY <1>1 DEF ConfigOfTheGrid, StoppedInv
<1>10. SaveInv /\ FileInv
  BY <1>1 DEF SaveInv, FileInv, NoGroups, Idle
<1> QED  BY <1>7, <1>8, <1>9, <1>10 DEF IInv

LEMMA StepIInv == IInv /\ [Next]_vars => IInv'
<1> SUFFICES ASSUME IInv, [Next]_vars PROVE IInv'
  OBVIOUS
<1> USE DEF IInv
<1>1. CASE Next
  <2>1. TypeOK'
    <3>1. /\ GridTypes' /\ ButtonTypes' /\ ConfigTypes' /\ MainTypes' /\ KeysTypes'
          /\ DeviceTypes' /\ PoolTypes' /\ CountTypes'
      BY <1>1, GridTypeStep, ConfigTypeStep, MainTypeStep, KeysTypeStep, DeviceTypeStep,
         PoolTypeStep, CountTypeStep
    <3> QED  BY <3>1, TypesTogether, PTL
  <2> QED  BY <1>1, <2>1, GridStep, ConfigStep, SaveStep, StoppedStep
<1>2. CASE UNCHANGED vars
  BY <1>2 DEF vars, grid, config, device, pool, bounds, TypeOK, GridInv, Between, SaveInv,
     FileInv, StoppedInv, ConfigOfTheGrid, live
<1> QED  BY <1>1, <1>2

THEOREM DeckGridInvariant == Spec => []IInv
  BY InitIInv, StepIInv, PTL DEF Spec

\* Every variable keeps its type, however the main thread, the reader and the pool
\* take turns: what is loaded is a button, what is saved is a group.
THEOREM DeckGridTypes == Spec => []TypeOK
  BY DeckGridInvariant, PTL DEF IInv

\* No widget of the configuration outlives its button, and the visible ones are those
\* of the selected button.
THEOREM ConfigFollowsTheGrid == Spec => []ConfigOfTheGrid
  BY DeckGridInvariant, PTL DEF IInv

\* priv->actions, the cells and the keys that the buttons know agree whenever no button
\* is half replaced.
THEOREM ButtonsOnTheirKeys == Spec => []KeysAgree
<1>1. IInv => KeysAgree
  BY DEF IInv, GridInv, KeysAgree, Between
<1> QED  BY <1>1, DeckGridInvariant, PTL

\* deck_grid_remove_button is told the key of the button whose widgets are shown, and
\* that is the button it frees.
THEOREM TheShownIsDeleted == Spec => DeletesTheShown
<1>1. IInv /\ [Next]_vars => [main'.pc = "remove" /\ main.pc = "idle" => live \ live' = {owner}]_vars
  <2> SUFFICES ASSUME IInv, Next, main'.pc = "remove", main.pc = "idle"
               PROVE  live \ live' = {owner}
    OBVIOUS
  <2> USE DEF IInv
  <2>1. CASE on_delete_clicked
    BY <2>1, DeleteFrees, UnrefFrees
  <2>2. ~InPlace
    BY DEF InPlace, MainStays
  <2>3. ~Ended
    BY DEF Ended, Idle
  <2>4. ASSUME NEW k \in Keys, NEW a \in Dropped, on_grid_drag_data_received(k, a)
        PROVE  FALSE
    BY <2>4, DropFrees
  <2>5. ASSUME NEW b \in Buttons, PlaceDropped(b) PROVE FALSE
    BY <2>5 DEF PlaceDropped, At
  <2>6. ~deck_grid_remove_button
    BY DEF deck_grid_remove_button, At
  <2>7. ASSUME NEW f \in Loaded, deck_grid_constructed(f) PROVE FALSE
    BY <2>7 DEF deck_grid_constructed
  <2> QED  BY <2>1, <2>2, <2>3, <2>4, <2>5, <2>6, <2>7, StepKinds DEF Replaces
<1> QED  BY <1>1, DeckGridInvariant, PTL DEF Spec, DeletesTheShown
-----------------------------------------------------------------------------
(***************************************************************************)
(* DeckGrid implements SavedGrid, if a save goes through every key: the    *)
(* literal 15 of the code must not be less than the number of keys.        *)
(***************************************************************************)
Shows == [k \in Keys |-> Held(k)]
Draft == [k \in Keys |-> IF main.pc = "save" /\ k < main.index THEN keys[k] ELSE Unread]

HeldTypes == \A k \in Keys : Held(k) \in Groups \cup {None}

LEMMA HeldType == TypeOK => HeldTypes
  BY SavedIsGroup DEF Held, HeldTypes

LEMMA OneKeyChanges ==
    ASSUME TypeOK', running, running', UNCHANGED <<Draft, file>>, NEW k \in Keys,
           \A l \in Keys \ {k} : Held(l)' = Held(l)
    PROVE  Kept!Change(k)
<1>1. Held(k)' \in Groups \cup {None}
  <2>1. HeldTypes'
    BY HeldType, PTL
  <2> QED  BY <2>1 DEF HeldTypes
<1>2. Shows' = [Shows EXCEPT ![k] = Held(k)']
  BY DEF Shows
<1>3. running' = running
  OBVIOUS
<1> QED  BY <1>1, <1>2, <1>3 DEF Kept!Change, Shows, Draft

LEMMA AlteredChanges ==
    ASSUME IInv, IInv', Altered, running, running', UNCHANGED <<actions, Draft, file>>
    PROVE  UNCHANGED Shows \/ \E k \in Keys : Kept!Change(k)
<1> USE DEF IInv
<1>1. CASE UNCHANGED button
  BY <1>1 DEF Shows, Held, live, deck_plugin_save
<1>2. ASSUME NEW b \in live, NEW new \in Button, Becomes(b, new)
      PROVE  \E k \in Keys : Kept!Change(k)
  <2> DEFINE k == button[b].key
  <2>1. button' = [button EXCEPT ![b] = new] /\ k \in Keys /\ live' = live
    BY <1>2, AlteredKeeps DEF Becomes, TypeOK, Button
  <2>2. ASSUME NEW l \in Keys, l # k PROVE Held(l)' = Held(l)
    <3>1. actions[l] # b
      BY <2>2, DeckGridAssumption DEF GridInv, TypeOK
    <3>2. actions[l] \in live => button'[actions[l]] = button[actions[l]]
      BY <2>1, <3>1 DEF TypeOK
    <3> QED  BY <2>1, <3>2 DEF Held, deck_plugin_save
  <2> HIDE DEF k
  <2> QED  BY <2>1, <2>2, OneKeyChanges
<1> QED  BY <1>1, <1>2 DEF Altered

LEMMA UnrefChanges ==
    ASSUME IInv, IInv', ~Between, NEW k \in Keys, Unref(actions[k]), running, running',
           UNCHANGED <<actions, Draft, file>>
    PROVE  Kept!Change(k)
<1> USE DEF IInv
<1>1. live' = live \ {actions[k]} /\ \A c \in live' : button'[c] = button[c]
  BY UnrefFrees
<1>2. ASSUME NEW l \in Keys, l # k PROVE Held(l)' = Held(l)
  <2>1. actions[l] \in live => actions[l] # actions[k]
    BY <1>2, DeckGridAssumption DEF GridInv, TypeOK
  <2> QED  BY <1>1, <2>1 DEF Held, deck_plugin_save
<1> QED  BY <1>2, OneKeyChanges

LEMMA PlacedChanges ==
    ASSUME IInv, IInv', NEW b \in Buttons, PlaceDropped(b), running, running',
           UNCHANGED <<Draft, file>>
    PROVE  \E k \in Keys : Kept!Change(k)
<1> USE DEF IInv
<1>0. PICK k \in Keys : k = main.key
  BY DEF TypeOK
<1>1. /\ b \notin live /\ live' = live \cup {b} /\ \A c \in live : button'[c] = button[c]
      /\ actions' = [actions EXCEPT ![k] = b] /\ main.pc = "drop"
  BY <1>0, PlacedIsNew DEF PlaceDropped, At
<1>2. actions \in [Keys -> MaybeButton] /\ NULL \notin live' /\ b # NULL
  BY DeckGridAssumption DEF TypeOK
<1>3. ASSUME NEW l \in Keys, l # k PROVE Held(l)' = Held(l)
  <2>1. actions'[l] = actions[l]
    BY <1>1, <1>2, <1>3
  <2>2. actions[l] # b
    BY <1>0, <1>1, <1>2, <1>3 DEF GridInv
  <2> QED  BY <1>1, <2>1, <2>2 DEF Held, deck_plugin_save
<1> QED  BY <1>3, OneKeyChanges

LEMMA RemovedStutters ==
    ASSUME IInv, deck_grid_remove_button
    PROVE  UNCHANGED Shows
<1> USE DEF IInv
<1>1. /\ actions' = [actions EXCEPT ![main.key] = NULL] /\ UNCHANGED button
      /\ main.pc = "remove" /\ main.key \in Keys
  BY DEF deck_grid_remove_button, At, TypeOK
<1>2. actions[main.key] \notin live /\ NULL \notin live /\ live' = live
  BY <1>1, DeckGridAssumption DEF GridInv, Between, TypeOK, live
<1>3. actions \in [Keys -> MaybeButton]
  BY DEF TypeOK
<1>4. ASSUME NEW l \in Keys PROVE Held(l)' = Held(l)
  BY <1>1, <1>2, <1>3 DEF Held, deck_plugin_save
<1> QED  BY <1>4 DEF Shows

\* What deck_plugin_save writes of a button that has just been loaded.
LEMMA LoadThenSave ==
    ASSUME NEW group \in Groups, Named(group), NEW k, NEW b, b = deck_plugin_load(group, k)
    PROVE  [name |-> b.action[1], code |-> Codes[b.action[1]][b.action[2]],
            settings |-> b.settings, custom |-> b.custom] = group
<1>1. PICK i \in DOMAIN Codes[group.name] : Codes[group.name][i] = group.code
  BY DEF Named
<1>2. ActionOf(group) = <<group.name, i>>
  BY <1>1, ActionFound DEF Groups
<1>3. /\ b.action[1] = group.name /\ b.action[2] = i
      /\ b.settings = group.settings /\ b.custom = group.custom
  BY <1>2 DEF deck_plugin_load
<1> QED  BY <1>1, <1>3 DEF Groups

LEMMA ConstructedStarts ==
    ASSUME IInv, NEW f \in Loaded, deck_grid_constructed(f)
    PROVE  Kept!Start
<1> USE DEF IInv
<1>1. /\ actions' = f /\ UNCHANGED <<main, keys, file>>
      /\ live' \subseteq Buttons
      /\ \A k \in Keys : f[k] = NULL <=> file[k] = None
      /\ \A k \in Keys : f[k] # NULL =>
            f[k] \in live' /\ button'[f[k]] = deck_plugin_load(file[k], k)
  BY Constructed
<1>2. ASSUME NEW k \in Keys PROVE Held(k)' = file[k]
  <2>1. CASE f[k] = NULL
    <3>1. actions'[k] = NULL /\ NULL \notin live'
      BY <1>1, <2>1, DeckGridAssumption
    <3>2. file[k] = None
      BY <1>1, <2>1
    <3> QED  BY <3>1, <3>2 DEF Held
  <2>2. CASE f[k] # NULL
    <3>1. file[k] \in Groups /\ Named(file[k])
      BY <1>1, <2>2 DEF TypeOK, FileInv
    <3>2. actions'[k] \in live' /\ button'[actions'[k]] = deck_plugin_load(file[k], k)
      BY <1>1, <2>2
    <3>3. deck_plugin_save(actions[k])' = file[k]
      BY <3>1, <3>2, LoadThenSave DEF deck_plugin_save
    <3> QED  BY <3>2, <3>3 DEF Held
  <2> QED  BY <2>1, <2>2
<1>3. Shows' = file
  BY <1>2 DEF Shows, TypeOK
<1>4. Draft' = Draft
  BY <1>1 DEF Draft
<1>5. ~running /\ running' /\ file' = file
  BY <1>1 DEF deck_grid_constructed
<1> QED  BY <1>3, <1>4, <1>5 DEF Kept!Start, Shows, Draft
LEMMA EndedCrashes ==
    ASSUME IInv, running, Ended, UNCHANGED file
    PROVE  Kept!Crash
<1>1. Shows' = NoGroups
  BY DEF Ended, Shows, Held, NoGroups, live
<1>2. Draft' = [k \in Keys |-> Unread]
  BY DEF Ended, Draft, Idle
<1> QED  BY <1>1, <1>2 DEF Kept!Crash, Kept!Empty, Kept!NoDraft, Shows, Draft, NoGroups, Ended

LEMMA CollectKeyCollects ==
    ASSUME IInv, CollectKey
    PROVE  \E k \in Keys : Kept!Collect(k)
<1> USE DEF IInv
<1>0. PICK i \in Keys : i = main.index
  BY CollectKeySteps
<1>1. /\ main.pc = "save" /\ i \in Keys /\ main'.pc = "save" /\ main'.index = i + 1
      /\ file' = file /\ \A k \in Keys \ {i} : keys'[k] = keys[k]
      /\ actions[i] = NULL => keys' = keys
      /\ actions[i] # NULL => actions[i] \in live /\ keys'[i] = deck_plugin_save(actions[i])
  BY <1>0, CollectKeySteps
<1>2. \A k \in Keys : k \in Int
  BY DEF Keys
<1>3. keys'[i] = Held(i)
  <2>1. CASE actions[i] = NULL
    <3>1. keys[i] = None
      BY <1>0, <1>1, <1>2 DEF SaveInv
    <3>2. NULL \notin live
      BY DeckGridAssumption DEF TypeOK
    <3> QED  BY <1>1, <2>1, <3>1, <3>2 DEF Held
  <2>2. CASE actions[i] # NULL
    BY <1>1, <2>2 DEF Held
  <2> QED  BY <2>1, <2>2
<1>4. Draft[i] = Unread
  BY <1>0, <1>1, <1>2 DEF Draft
<1>5. Draft' = [Draft EXCEPT ![i] = Held(i)]
  <2>1. ASSUME NEW k \in Keys
        PROVE  (IF main'.pc = "save" /\ k < main'.index THEN keys'[k] ELSE Unread)
                   = IF k = i THEN Held(i) ELSE Draft[k]
    <3>1. k < main'.index <=> k < i \/ k = i
      BY <1>1, <1>2
    <3> QED  BY <1>0, <1>1, <1>2, <1>3, <3>1 DEF Draft
  <2> QED  BY <2>1 DEF Draft
<1>6. UNCHANGED Shows /\ running /\ running'
  BY DEF CollectKey, At, grid, Shows, Held, live, deck_plugin_save
<1>7. Shows[i] = Held(i)
  BY <1>1 DEF Shows
<1> QED  BY <1>1, <1>4, <1>5, <1>6, <1>7 DEF Kept!Collect, Shows, Draft

LEMMA WriteCommits ==
    ASSUME IInv, NumKeys <= ScanKeys, g_key_file_save_to_file
    PROVE  Kept!Commit
<1> USE DEF IInv
<1>1. /\ main.pc = "save" /\ main.index = ScanKeys /\ file' \in {keys, file}
      /\ main'.index = 0
      /\ ~Ended => UNCHANGED <<running, grid, button>>
      /\ running
  BY WriteSteps DEF g_key_file_save_to_file, At
<1>2. \A k \in Keys : k < ScanKeys /\ ~(k < 0)
  BY DeckGridAssumption DEF Keys
<1>3. Draft = keys
  BY <1>1, <1>2 DEF Draft, TypeOK
<1>4. \A k \in Keys : Draft[k] # Unread
  BY <1>3, DeckGridAssumption DEF TypeOK
<1>5. Draft' = [k \in Keys |-> Unread]
  BY <1>1, <1>2 DEF Draft
<1>6. running' \in BOOLEAN /\ Shows' = IF running' THEN Shows ELSE NoGroups
  <2>1. CASE Ended
    BY <2>1 DEF Ended, Shows, Held, NoGroups, live
  <2>2. CASE ~Ended
    BY <1>1, <2>2 DEF grid, Shows, Held, live, deck_plugin_save
  <2> QED  BY <2>1, <2>2
<1> QED  BY <1>1, <1>3, <1>4, <1>5, <1>6
         DEF Kept!Commit, Kept!Empty, Kept!NoDraft, Shows, Draft, NoGroups

\* Outside a save nothing has been collected.
LEMMA NoDraftYet ==
    ASSUME IInv, IInv', main.pc # "save" \/ main.index = 0, main'.pc # "save" \/ main'.index = 0
    PROVE  UNCHANGED Draft
<1>1. \A k \in Keys : ~(k < 0)
  BY DEF Keys
<1> QED  BY <1>1 DEF Draft

LEMMA KeptStep ==
    ASSUME IInv, IInv', NumKeys <= ScanKeys, Next
    PROVE  [Kept!Next]_(Kept!vars)
<1> USE DEF IInv
<1> DEFINE Stutter == UNCHANGED <<Shows, Draft, file, running>>
<1>0. Stutter => UNCHANGED Kept!vars
  BY DEF Kept!vars, Shows, Draft
<1>1. (\E k \in Keys : Kept!Change(k) \/ Kept!Collect(k)) => Kept!Next
  BY DEF Kept!Next
<1>2. CASE UNCHANGED <<main, keys, file>> /\ InPlace
  <2>1. UNCHANGED <<actions, file, Draft, running>> /\ Altered
    BY <1>2 DEF InPlace, grid, Draft
  <2>2. CASE running
    <3>1. UNCHANGED Shows \/ \E k \in Keys : Kept!Change(k)
      BY <2>1, <2>2, AlteredChanges
    <3> QED  BY <1>0, <1>1, <2>1, <3>1
  <2>3. CASE ~running
    <3>1. UNCHANGED button
      BY <2>1, <2>3 DEF Altered, StoppedInv
    <3>2. UNCHANGED Shows
      BY <2>1, <3>1 DEF Shows, Held, live, deck_plugin_save
    <3> QED  BY <1>0, <2>1, <3>2
  <2> QED  BY <2>2, <2>3
<1>3. CASE Ended /\ UNCHANGED file
  <2>1. CASE running
    BY <1>3, <2>1, EndedCrashes DEF Kept!Next
  <2>2. CASE ~running
    <3>1. running' = running
      BY <1>3, <2>2 DEF Ended, TypeOK
    <3>2. UNCHANGED Shows
      BY <1>3, <2>2 DEF Ended, StoppedInv, Shows, Held, live
    <3>3. UNCHANGED Draft
      BY <1>3, <2>2 DEF Ended, StoppedInv, Draft, Idle
    <3> QED  BY <1>0, <1>3, <3>1, <3>2, <3>3
  <2> QED  BY <2>1, <2>2
<1>4. CASE Replaces
  <2>1. UNCHANGED <<keys, file, Draft>>
    BY <1>4, ReplacesNotSaving, NoDraftYet
  <2>2. ASSUME NEW k \in Keys, NEW a \in Dropped, on_grid_drag_data_received(k, a)
        PROVE  Kept!Next
    <3>1. running /\ running' /\ UNCHANGED actions
      BY <2>2 DEF on_grid_drag_data_received, At, grid
    <3> QED  BY <1>1, <2>1, <2>2, <3>1, DropFrees, UnrefChanges
  <2>3. ASSUME NEW b \in Buttons, PlaceDropped(b) PROVE Kept!Next
    <3>1. running /\ running'
      BY <2>3 DEF PlaceDropped, At
    <3> QED  BY <1>1, <2>1, <2>3, <3>1, PlacedChanges
  <2>4. CASE on_delete_clicked
    <3>1. running /\ running' /\ UNCHANGED actions
      BY <2>4 DEF on_delete_clicked, At, grid
    <3> QED  BY <1>1, <2>1, <2>4, <3>1, DeleteFrees, UnrefChanges
  <2>5. CASE deck_grid_remove_button
    BY <1>0, <2>1, <2>5, RemovedStutters DEF deck_grid_remove_button
  <2>6. ASSUME NEW f \in Loaded, deck_grid_constructed(f) PROVE Kept!Next
    BY <2>6, ConstructedStarts DEF Kept!Next
  <2> QED  BY <1>4, <2>2, <2>3, <2>4, <2>5, <2>6 DEF Replaces
<1>5. CASE on_window_delete_event \/ on_menu_quit
  <2>1. /\ main.pc = "idle" /\ main'.pc = "save" /\ main'.index = main.index
        /\ UNCHANGED <<running, grid, button, file>>
    BY <1>5, SaveBegins DEF on_window_delete_event, on_menu_quit
  <2>2. main'.index = 0
    BY <2>1 DEF SaveInv
  <2>3. UNCHANGED Draft
    BY <2>1, <2>2, NoDraftYet
  <2>4. UNCHANGED Shows
    BY <2>1 DEF grid, Shows, Held, live, deck_plugin_save
  <2> QED  BY <1>0, <2>1, <2>3, <2>4
<1>6. CASE CollectKey
  BY <1>1, <1>6, CollectKeyCollects
<1>7. CASE CollectPastTheGrid /\ ~Ended
  <2>1. /\ main.pc = "save" /\ main.index \notin Keys /\ main'.pc = "save"
        /\ main'.index = main.index + 1
        /\ UNCHANGED <<running, grid, button, keys, file>>
    BY <1>7, CollectPastSteps
  <2>2. main.index \in Nat
    BY DeckGridAssumption DEF TypeOK
  <2>3. \A k \in Keys : k < main.index <=> k < main'.index
    BY <2>1, <2>2, DeckGridAssumption DEF Keys
  <2>4. UNCHANGED Draft
    BY <2>1, <2>3 DEF Draft
  <2>5. UNCHANGED Shows
    BY <2>1 DEF grid, Shows, Held, live, deck_plugin_save
  <2> QED  BY <1>0, <2>1, <2>4, <2>5
<1>8. CASE g_key_file_save_to_file
  BY <1>8, WriteCommits DEF Kept!Next
<1>9. UNCHANGED <<main, keys, file>> => InPlace \/ Ended \/ Replaces
  BY StepKinds
<1>10. CollectPastTheGrid => UNCHANGED file
  BY CollectPastSteps
<1> QED  BY <1>2, <1>3, <1>4, <1>5, <1>6, <1>7, <1>8, <1>9, <1>10, SaveKinds

\* The file keeps the grid, on a device whose keys a save goes through: what a program
\* that starts puts on each key is what the last save that succeeded had collected of
\* it, for every grid, every interleaving with the reader and the pool, and every end
\* of the process.
THEOREM TheFileKeepsTheGrid == NumKeys <= ScanKeys => (Spec => KeepsTheGrid)
<1> SUFFICES ASSUME NumKeys <= ScanKeys PROVE Spec => Kept!Spec
  BY DEF KeepsTheGrid
<1>1. Init => Kept!Init
  <2> SUFFICES ASSUME Init PROVE Kept!Init
    OBVIOUS
  <2>1. Shows = NoGroups
    BY DEF Init, Shows, Held, NoGroups, live
  <2>2. Draft = [k \in Keys |-> Unread]
    BY DEF Init, Draft, Idle
  <2> QED  BY <2>1, <2>2 DEF Init, Kept!Init, Kept!Empty, Kept!NoDraft, Shows, Draft, NoGroups
<1>2. IInv /\ IInv' /\ [Next]_vars => [Kept!Next]_(Kept!vars)
  <2>1. ASSUME UNCHANGED vars PROVE UNCHANGED Kept!vars
    <3>1. UNCHANGED Shows
      BY <2>1 DEF vars, grid, Shows, Held, live, deck_plugin_save
    <3>2. UNCHANGED Draft
      BY <2>1 DEF vars, Draft
    <3> QED  BY <2>1, <3>1, <3>2 DEF vars, Kept!vars, Shows, Draft
  <2> QED  BY <2>1, KeptStep
<1> QED  BY <1>1, <1>2, DeckGridInvariant, PTL DEF Spec, Kept!Spec

=============================================================================
