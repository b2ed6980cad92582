----------------------------- MODULE ObsActions -----------------------------
(***************************************************************************)
(* One button that controls OBS, and what it knows of OBS: the actions of  *)
(* plugins/obs_plugin/actions.  A press runs on a thread of the pool and   *)
(* only reads what the button knows; the answers and events of OBS, and    *)
(* the widgets of the configuration, run on the main loop and change it.   *)
(*                                                                         *)
(* What this module takes from the client is what ObsWs is checked for: an *)
(* answer runs the callback of its own request, and messages are handled   *)
(* in the order OBS sent them.  A connection may be lost with what is on   *)
(* its way.  OBS, GTK and GLib are external.                               *)
(***************************************************************************)
EXTENDS Integers, Sequences

CONSTANTS
    Kinds,          \* which actions there are, of AllKinds
    Scenes, Sources, AudioInputs,
    ItemId,         \* ItemId[s][x]: the id of source x in scene s; another
                    \* scene uses the same ids for other sources
    Texts,          \* chapter names and paths
    NULL,
    Threads,        \* of the pool
    MaxPresses, MaxEdits, MaxOpens, MaxChanges, MaxLosses, MaxStarts,
    MaxInputs       \* bounds, of each and of all together

AllKinds == {"change_scene", "mute_source", "toggle_recording",
             "toggle_source_visibility", "chapter_marker", "screenshot"}
Unknown  == -1                     \* of scene_item_id
ItemsOf(s) == DOMAIN ItemId[s]
Ids == UNION {{ItemId[s][x] : x \in ItemsOf(s)} : s \in Scenes}

ASSUME ObsActionsAssumption ==
    /\ Kinds \subseteq AllKinds
    /\ NULL \notin Scenes \cup Sources \cup Texts
    /\ AudioInputs \subseteq Sources
    /\ \A s \in Scenes :
         /\ ItemsOf(s) \subseteq Sources
         /\ \A x, y \in ItemsOf(s) : /\ ItemId[s][x] \in Nat
                                     /\ ItemId[s][x] = ItemId[s][y] => x = y

VARIABLES
    kind,       \* the button's vtable
    data,       \* its action_data
    state,      \* "NORMAL" or "SELECTED", of the base class
    conf,       \* the widgets of its configuration
    pool,       \* pool[t]: where thread t is in the button's exec
    obs,        \* OBS: the program scene, what is muted, recorded, enabled
    connected,  \* whether the session is identified
    requests,   \* on their way to OBS
    inbox,      \* on their way to the main loop
    chosen,     \* history: what the user has configured
    crossed,    \* history: an answer was handled that had been asked for
                \* before the user's last choice
    told,       \* history: since that choice and since the connection, OBS has
                \* said how what the button is about stands
    left        \* bounds: how often the user and OBS may still act

obsVars == <<kind, data, state, conf, pool, obs, connected, requests, inbox,
             chosen, crossed, told, left>>
history == <<chosen, crossed, told>>

(***************************************************************************)
(* Messages.  A request carries its callback and what the callback was     *)
(* given; the answer carries them back.                                    *)
(***************************************************************************)
ItemStates == (UNION {[ItemsOf(s) -> BOOLEAN] : s \in Scenes}) \cup {NULL}
RequestTypes ==
    {"GetSceneList", "GetInputList", "GetSceneItemList", "SetCurrentProgramScene",
     "ToggleInputMute", "ToggleRecord", "SetSceneItemEnabled", "SetRecordChapterMarker",
     "SaveSourceScreenshot"}
EventTypes ==
    {"CurrentProgramSceneChanged", "InputMuteStateChanged", "SceneItemEnableStateChanged",
     "OBS_WEBSOCKET_OUTPUT_STARTING", "OBS_WEBSOCKET_OUTPUT_STARTED",
     "OBS_WEBSOCKET_OUTPUT_STOPPING", "OBS_WEBSOCKET_OUTPUT_STOPPED"}
Callbacks ==
    {"none", "event", "on_scene_list", "on_input_list", "on_source_list",
     "on_scene_item_lookup", "on_scene_item_list_for_state"}
Message == [type : RequestTypes \cup EventTypes, to : Callbacks, scene : Scenes \cup {NULL},
            source : Sources \cup {NULL}, id : Ids \cup {Unknown}, value : BOOLEAN,
            selected : Scenes \cup Sources \cup {NULL},
            enabled : ItemStates,    \* of the items of the scene
            gone : BOOLEAN,      \* the widgets it was asked for have been destroyed
            stale : BOOLEAN,     \* the user has chosen otherwise since it was asked for
            late : BOOLEAN]      \* its session has ended

Plain(type, to) ==
    [type |-> type, to |-> to, scene |-> NULL, source |-> NULL, id |-> Unknown,
     value |-> FALSE, selected |-> NULL, enabled |-> NULL, gone |-> FALSE,
     stale |-> FALSE, late |-> FALSE]

\* Without a session the request functions return and nobody is told.
Sent(q, r) == IF connected THEN Append(q, r) ELSE q
Send(r) == requests' = Sent(requests, r)

obs_ws_get_scenes(selected) ==
    [Plain("GetSceneList", "on_scene_list") EXCEPT !.selected = selected]
obs_ws_get_input_list(selected) ==
    [Plain("GetInputList", "on_input_list") EXCEPT !.selected = selected]
\* Variant: the arguments are mixed up.
SceneItemListMixedUp(scene, callback, selected) ==
    [Plain("GetSceneItemList", callback) EXCEPT !.scene = callback, !.selected = selected]
obs_ws_get_scene_item_list(scene, callback, selected) ==
    [Plain("GetSceneItemList", callback) EXCEPT !.scene = scene, !.selected = selected]
obs_ws_set_current_scene(scene) ==
    [Plain("SetCurrentProgramScene", "none") EXCEPT !.scene = scene]
obs_ws_toggle_input_mute(source) ==
    [Plain("ToggleInputMute", "none") EXCEPT !.source = source]
obs_ws_toggle_record == Plain("ToggleRecord", "none")
obs_ws_set_scene_item_enabled(scene, id, enabled) ==
    [Plain("SetSceneItemEnabled", "none") EXCEPT
        !.scene = scene, !.id = id, !.value = enabled]
\* What these two write reaches no button.
obs_ws_set_record_chapter_marker == Plain("SetRecordChapterMarker", "none")
obs_ws_save_source_screenshot == Plain("SaveSourceScreenshot", "none")

(***************************************************************************)
(* The button                                                              *)
(***************************************************************************)
\* The fields an action does not have keep their first value.
NoData == [scene |-> NULL, source |-> NULL, scene_item_id |-> Unknown,
           is_visible |-> FALSE, text |-> NULL]

\* The widgets: the rows of the first combo box (scenes or inputs) and the
\* active one, the scene whose items are the rows of the second, and its row.
NoWidgets == [open |-> FALSE, listed |-> FALSE, row |-> NULL,
              itemsOf |-> NULL, item |-> NULL]

StateOf(on) == IF on THEN "SELECTED" ELSE "NORMAL"

\* What an action may have been configured to; only a scene and a source go
\* together.
Configurations ==
    CASE kind = "change_scene" -> {[NoData EXCEPT !.scene = s] : s \in Scenes}
      [] kind = "mute_source" -> {[NoData EXCEPT !.source = x] : x \in AudioInputs}
      [] kind = "toggle_source_visibility" ->
           UNION {{[NoData EXCEPT !.scene = s, !.source = x] : x \in ItemsOf(s)} : s \in Scenes}
      [] OTHER -> {}

\* A button that has been dropped on the grid, or loaded before there was a
\* connection.
init == kind \in Kinds /\ data \in {NoData} \cup Configurations /\ state = "NORMAL"

Init ==
    /\ init
    /\ conf = NoWidgets
    /\ pool = [t \in Threads |-> "idle"]
    /\ obs \in [program : Scenes, muted : [AudioInputs -> {FALSE}], recording : BOOLEAN,
                enabled : {[s \in Scenes |-> [x \in ItemsOf(s) |-> TRUE]]}]
    /\ kind # "change_scene" => obs.program = CHOOSE s \in Scenes : TRUE
    /\ kind # "toggle_recording" => ~obs.recording
    /\ connected = FALSE
    /\ requests = <<>> /\ inbox = <<>>
    /\ chosen = [scene |-> data.scene, source |-> data.source, text |-> data.text]
    /\ crossed = FALSE /\ told = FALSE
    /\ left = [presses |-> MaxPresses, edits |-> MaxEdits, opens |-> MaxOpens,
               changes |-> MaxChanges, losses |-> MaxLosses, starts |-> MaxStarts,
               all |-> MaxInputs]

Spend(what) == /\ left[what] > 0 /\ left.all > 0
               /\ left' = [left EXCEPT ![what] = @ - 1, !.all = @ - 1]

(***************************************************************************)
(* A press, on a thread of the pool.  A visibility button looks at what it *)
(* knows and sends what it then finds, which the main loop may have        *)
(* changed in between.                                                     *)
(***************************************************************************)
Pressed(t) ==
    /\ pool[t] = "idle" /\ Spend("presses")
    /\ UNCHANGED <<kind, data, state, conf, obs, connected, inbox, history>>
\* Presses that send one request, if the button is about something.
Requests(t, about, r) ==
    /\ Pressed(t) /\ UNCHANGED pool
    /\ IF about # NULL THEN Send(r) ELSE UNCHANGED requests

change_scene_exec(t) ==
    /\ kind = "change_scene" /\ Requests(t, data.scene, obs_ws_set_current_scene(data.scene))
mute_source_exec(t) ==
    /\ kind = "mute_source" /\ Requests(t, data.source, obs_ws_toggle_input_mute(data.source))
toggle_recording_exec(t) ==
    /\ kind = "toggle_recording" /\ Requests(t, kind, obs_ws_toggle_record)
chapter_marker_exec(t) ==
    /\ kind = "chapter_marker" /\ Requests(t, kind, obs_ws_set_record_chapter_marker)
screenshot_exec(t) ==
    /\ kind = "screenshot" /\ Requests(t, kind, obs_ws_save_source_screenshot)
toggle_source_visibility_exec(t) ==
    /\ kind = "toggle_source_visibility" /\ Pressed(t)
    /\ pool' = [pool EXCEPT ![t] =
          IF data.scene = NULL \/ data.source = NULL THEN "idle"
          ELSE IF data.scene_item_id = Unknown THEN "lookup" ELSE "toggle"]
    /\ UNCHANGED requests

obs_plugin_exec(t) ==
    \/ change_scene_exec(t) \/ mute_source_exec(t) \/ toggle_recording_exec(t)
    \/ chapter_marker_exec(t) \/ screenshot_exec(t) \/ toggle_source_visibility_exec(t)

\* The visibility button sends what it has found to be the thing to send.
SendFound(t) ==
    /\ pool[t] \in {"lookup", "toggle"}
    /\ Send(IF pool[t] = "lookup"
            THEN obs_ws_get_scene_item_list(data.scene, "on_scene_item_lookup", NULL)
            ELSE obs_ws_set_scene_item_enabled(data.scene, data.scene_item_id,
                                               ~data.is_visible))
    /\ pool' = [pool EXCEPT ![t] = "idle"]
    /\ UNCHANGED <<kind, data, state, conf, obs, connected, inbox, history, left>>

(***************************************************************************)
(* The configuration.  Setting the active row of a combo box, by the user  *)
(* or by the code, emits "changed" if it was another row.                  *)
(***************************************************************************)
ToWidgets == {"on_scene_list", "on_input_list", "on_source_list"}
Stale(q) == [i \in DOMAIN q |-> [q[i] EXCEPT !.stale = @ \/ q[i].to \notin {"none", "event"}]]
Gone(q)  == [i \in DOMAIN q |-> [q[i] EXCEPT !.gone = @ \/ q[i].to \in ToWidgets]]

\* "changed" of the first combo box: what becomes of the data, and which
\* requests follow.
\* Variant: what the code selects is taken for a choice of the user.
SceneChangedClears(s) ==
    [data |-> [data EXCEPT !.scene = s, !.source = NULL, !.scene_item_id = Unknown],
     asks |-> <<obs_ws_get_scene_item_list(s, "on_source_list", NULL)>>]
scene_changed_for_sources(s) ==
    [data |-> IF data.scene = s THEN data
              ELSE [data EXCEPT !.scene = s, !.source = NULL, !.scene_item_id = Unknown],
     asks |-> <<obs_ws_get_scene_item_list(s, "on_source_list",
                    IF data.scene = s THEN data.source ELSE NULL)>>]
scene_changed(row) == [data |-> [data EXCEPT !.scene = row], asks |-> <<>>]
input_changed(row) == [data |-> [data EXCEPT !.source = row], asks |-> <<>>]
FirstChanged(row) ==
    CASE kind = "change_scene" -> scene_changed(row)
      [] kind = "mute_source"  -> input_changed(row)
      [] kind = "toggle_source_visibility" -> scene_changed_for_sources(row)

\* Variant: the item of the source before is kept.
SourceChangedKeepsItem(x) == [data EXCEPT !.source = x]
source_visibility_changed(x) == [data EXCEPT !.source = x, !.scene_item_id = Unknown]

FirstRows == IF kind = "mute_source" THEN AudioInputs ELSE Scenes
Configured == [scene |-> data'.scene, source |-> data'.source, text |-> data'.text]

\* A click on the button in the window: its widgets are made (anew), and ask
\* for what is to be in them.
change_scene_config == <<obs_ws_get_scenes(data.scene)>>
mute_source_config  == <<obs_ws_get_input_list(data.source)>>
toggle_source_visibility_config ==
    <<obs_ws_get_scenes(data.scene)>> \o
    (IF data.scene = NULL THEN <<>>
     ELSE <<obs_ws_get_scene_item_list(data.scene, "on_source_list", data.source)>>)
Asked ==
    CASE kind = "change_scene" -> change_scene_config
      [] kind = "mute_source"  -> mute_source_config
      [] kind = "toggle_source_visibility" -> toggle_source_visibility_config
      [] OTHER -> <<>>
obs_plugin_config ==
    /\ Spend("opens")
    /\ conf' = [NoWidgets EXCEPT !.open = TRUE]
    /\ inbox' = Gone(inbox)
    /\ requests' = IF connected THEN Gone(requests) \o Asked ELSE requests
    /\ UNCHANGED <<kind, data, state, pool, obs, connected, history>>

\* Another button is selected.
Deselect ==
    /\ conf.open /\ conf' = NoWidgets
    /\ requests' = Gone(requests) /\ inbox' = Gone(inbox)
    /\ UNCHANGED <<kind, data, state, pool, obs, connected, history, left>>

\* The user chooses a scene or an input.
ChooseFirst ==
    \E row \in FirstRows \ {conf.row} :
      /\ conf.open /\ conf.listed /\ Spend("edits")
      /\ data' = FirstChanged(row).data
      /\ conf' = [conf EXCEPT !.row = row, !.itemsOf = NULL, !.item = NULL]
      /\ requests' = IF connected THEN Stale(requests) \o FirstChanged(row).asks
                                  ELSE requests
      /\ inbox' = Stale(inbox)
      /\ chosen' = Configured /\ told' = FALSE
      /\ UNCHANGED <<kind, state, pool, obs, connected, crossed>>

\* The user chooses a source of the scene.
ChooseSource ==
    /\ conf.open /\ conf.itemsOf # NULL
    /\ \E x \in ItemsOf(conf.itemsOf) \ {conf.item} :
         /\ Spend("edits")
         /\ data' = source_visibility_changed(x)
         /\ conf' = [conf EXCEPT !.item = x]
    /\ requests' = Stale(requests) /\ inbox' = Stale(inbox)
    /\ chosen' = Configured /\ told' = FALSE
    /\ UNCHANGED <<kind, state, pool, obs, connected, crossed>>

\* The name of a chapter, and the folder of a screenshot.
EnterText ==
    /\ conf.open
    /\ \E text \in Texts \ {data.text} : data' = [data EXCEPT !.text = text]
    /\ Spend("edits") /\ chosen' = Configured
    /\ UNCHANGED <<kind, state, conf, pool, obs, connected, requests, inbox, crossed, told>>
chapter_name_changed == kind = "chapter_marker" /\ EnterText
on_file_set          == kind = "screenshot" /\ EnterText

(***************************************************************************)
(* The main loop handles the answers and the events.                       *)
(***************************************************************************)
\* Widgets that have been destroyed are recognised, or, their memory being in
\* use again, taken for the ones that are there now.
ReachesWidgets == conf.open
Ignored == UNCHANGED <<data, state, conf, requests, crossed, told>>
Crossing(m) == crossed' = (crossed \/ m.stale)

\* on_scene_list and on_input_list fill the first combo box and select what
\* the button had when they were asked for.
on_first_list(m) ==
    LET selects == m.selected \in FirstRows \ {conf.row} IN
    /\ conf' = IF selects THEN [conf EXCEPT !.listed = TRUE, !.row = m.selected,
                                            !.itemsOf = NULL, !.item = NULL]
                          ELSE [conf EXCEPT !.listed = TRUE]
    /\ IF selects
       THEN /\ data' = FirstChanged(m.selected).data
            /\ requests' = IF connected THEN requests \o FirstChanged(m.selected).asks
                                        ELSE requests
       ELSE UNCHANGED <<data, requests>>
    /\ Crossing(m)
    /\ UNCHANGED <<state, told>>

\* The rows of the second combo box; its row before is gone with the old ones.
\* Variant: a list without the selected row is asked for again.
SourceListAsksAgain(m) ==
    LET selects == m.selected \in ItemsOf(m.scene) IN
    /\ conf' = [conf EXCEPT !.itemsOf = m.scene, !.item = IF selects THEN m.selected ELSE NULL]
    /\ IF selects THEN data' = source_visibility_changed(m.selected) /\ UNCHANGED requests
                  ELSE UNCHANGED data /\ Send(obs_ws_get_scene_item_list(m.scene, m.to, m.selected))
    /\ Crossing(m)
    /\ UNCHANGED <<state, told>>
on_source_list(m) ==
    LET selects == m.selected \in ItemsOf(m.scene) IN
    /\ conf' = [conf EXCEPT !.itemsOf = m.scene,
                            !.item = IF selects THEN m.selected ELSE NULL]
    /\ data' = IF selects THEN source_visibility_changed(m.selected) ELSE data
    /\ Crossing(m)
    /\ UNCHANGED <<state, requests, told>>

\* What the answer says of the source the button has by now.
Matches(m) == data.scene # NULL /\ data.source # NULL /\ data.source \in ItemsOf(m.scene)
Found(m) == [data EXCEPT !.scene_item_id = ItemId[m.scene][data.source],
                         !.is_visible = m.enabled[data.source]]

on_scene_item_lookup(m) ==
    IF ~Matches(m) THEN Ignored
    ELSE /\ data' = Found(m)
         /\ Send(obs_ws_set_scene_item_enabled(data.scene, Found(m).scene_item_id,
                                               ~Found(m).is_visible))
         /\ Crossing(m)
         /\ told' = (connected /\ ~m.late)
         /\ UNCHANGED <<state, conf>>

on_scene_item_list_for_state(m) ==
    IF ~Matches(m) THEN Ignored
    ELSE /\ data' = Found(m)
         /\ state' = StateOf(Found(m).is_visible)
         /\ Crossing(m)
         /\ told' = ~m.late
         /\ UNCHANGED <<conf, requests>>

\* The button shows what an event says.
Shows(on, m) ==
    /\ state' = StateOf(on) /\ told' = ~m.late
    /\ UNCHANGED <<conf, requests, crossed>>

on_scene_changed(m) == Shows(m.scene = data.scene, m) /\ UNCHANGED data
on_input_mute_changed(m) ==
    IF m.source = data.source THEN Shows(m.value, m) /\ UNCHANGED data ELSE Ignored
on_record_state_changed(m) ==
    IF m.type = "OBS_WEBSOCKET_OUTPUT_STARTED" THEN Shows(TRUE, m) /\ UNCHANGED data
    ELSE IF m.type = "OBS_WEBSOCKET_OUTPUT_STOPPED" THEN Shows(FALSE, m) /\ UNCHANGED data
    ELSE Ignored
\* Variant: the scene is not looked at.
IsForOurId(m) == m.id = data.scene_item_id
IsForUs(m) == m.scene = data.scene /\ m.id = data.scene_item_id
on_scene_item_enable_changed(m) ==
    IF IsForUs(m)
    THEN Shows(m.value, m) /\ data' = [data EXCEPT !.is_visible = m.value]
    ELSE Ignored

on_event(m) ==
    \/ kind = "change_scene" /\ on_scene_changed(m)
    \/ kind = "mute_source" /\ on_input_mute_changed(m)
    \/ kind = "toggle_recording" /\ on_record_state_changed(m)
    \/ kind = "toggle_source_visibility" /\ on_scene_item_enable_changed(m)

invoke_callback_idle ==
    /\ inbox # <<>>
    /\ inbox' = Tail(inbox)
    /\ LET m == Head(inbox) IN
       \/ m.to = "event" /\ on_event(m)
       \/ m.to \in {"on_scene_list", "on_input_list"} /\ ReachesWidgets /\ on_first_list(m)
       \/ m.to = "on_source_list" /\ ReachesWidgets /\ on_source_list(m)
       \/ /\ m.to \in ToWidgets
          /\ m.gone \/ ~conf.open
          /\ Ignored
       \/ m.to = "on_scene_item_lookup" /\ on_scene_item_lookup(m)
       \/ m.to = "on_scene_item_list_for_state" /\ on_scene_item_list_for_state(m)
    /\ UNCHANGED <<kind, pool, obs, connected, chosen, left>>

(***************************************************************************)
(* OBS.  An outcome is what OBS becomes and the events it sends; setting   *)
(* what is already so has no event.                                        *)
(***************************************************************************)
SetScene(s) ==
    [obs |-> [obs EXCEPT !.program = s],
     events |-> IF s = obs.program THEN <<>>
                ELSE <<[Plain("CurrentProgramSceneChanged", "event") EXCEPT !.scene = s]>>]
ToggleMute(x) ==
    [obs |-> [obs EXCEPT !.muted[x] = ~@],
     events |-> <<[Plain("InputMuteStateChanged", "event") EXCEPT
                     !.source = x, !.value = ~obs.muted[x]]>>]
ToggleRecord ==
    [obs |-> [obs EXCEPT !.recording = ~@],
     events |-> IF obs.recording
                THEN <<Plain("OBS_WEBSOCKET_OUTPUT_STOPPING", "event"),
                       Plain("OBS_WEBSOCKET_OUTPUT_STOPPED", "event")>>
                ELSE <<Plain("OBS_WEBSOCKET_OUTPUT_STARTING", "event"),
                       Plain("OBS_WEBSOCKET_OUTPUT_STARTED", "event")>>]
NoChange == [obs |-> obs, events |-> <<>>]
SetEnabled(s, id, on) ==
    LET items == {x \in ItemsOf(s) : ItemId[s][x] = id /\ obs.enabled[s][x] # on} IN
    IF items = {} THEN NoChange
    ELSE [obs |-> [obs EXCEPT !.enabled[s] = [x \in ItemsOf(s) |->
                                                IF x \in items THEN on ELSE @[x]]],
          events |-> <<[Plain("SceneItemEnableStateChanged", "event") EXCEPT
                          !.scene = s, !.id = id, !.value = on]>>]

Answers(r) ==
    CASE r.to = "none" -> <<>>
      [] r.type = "GetSceneItemList" -> <<[r EXCEPT !.enabled = obs.enabled[r.scene]]>>
      [] OTHER -> <<r>>
Outcome(r) ==
    CASE r.type = "SetCurrentProgramScene" -> SetScene(r.scene)
      [] r.type = "ToggleInputMute" /\ r.source \in AudioInputs -> ToggleMute(r.source)
      [] r.type = "ToggleRecord" -> ToggleRecord
      [] r.type = "SetSceneItemEnabled" -> SetEnabled(r.scene, r.id, r.value)
      [] OTHER -> NoChange

\* OBS handles requests in order and answers each at once.
PeerReads ==
    /\ connected /\ requests # <<>>
    /\ requests' = Tail(requests)
    /\ LET r == Head(requests) IN
         /\ obs' = Outcome(r).obs
         /\ inbox' = inbox \o Outcome(r).events \o Answers(r)
    /\ UNCHANGED <<kind, data, state, conf, pool, connected, history, left>>

\* Somebody changes in OBS what the action is about.  Without a session, no
\* event reaches the button.
Happens(change) ==
    /\ obs' = change.obs
    /\ inbox' = IF connected THEN inbox \o change.events ELSE inbox
PeerChanges ==
    /\ Spend("changes")
    /\ \/ kind = "change_scene" /\ \E s \in Scenes \ {obs.program} : Happens(SetScene(s))
       \/ kind = "mute_source" /\ \E x \in AudioInputs : Happens(ToggleMute(x))
       \/ kind = "toggle_recording" /\ Happens(ToggleRecord)
       \/ /\ kind = "toggle_source_visibility"
          /\ \E s \in Scenes : \E x \in ItemsOf(s) :
               Happens(SetEnabled(s, ItemId[s][x], ~obs.enabled[s][x]))
    /\ UNCHANGED <<kind, data, state, conf, pool, connected, requests, history>>

\* The connection ends: requests are lost, and all messages but those that
\* have arrived.
Disconnect ==
    /\ connected /\ Spend("losses")
    /\ connected' = FALSE /\ requests' = <<>> /\ told' = FALSE
    /\ \E n \in 0 .. Len(inbox) :
         inbox' = [i \in 1 .. n |-> [inbox[i] EXCEPT !.late = TRUE]]
    /\ UNCHANGED <<kind, data, state, conf, pool, obs, chosen, crossed>>

\* The next session is identified.  Nothing is asked for but the program
\* scene, whose answer has no callback (on_ws_connected).
on_ws_connected ==
    /\ ~connected /\ connected' = TRUE
    /\ UNCHANGED <<kind, data, state, conf, pool, obs, requests, inbox, history, left>>

\* The window is closed, which saves the button, and the program started
\* again: a new button is loaded, before OBS is connected or after.
Saved == [NoData EXCEPT !.scene = data.scene, !.source = data.source, !.text = data.text]
load ==
    /\ Spend("starts")
    /\ data' = Saved /\ state' = "NORMAL"
    /\ conf' = NoWidgets /\ pool' = [t \in Threads |-> "idle"]
    /\ inbox' = <<>> /\ told' = FALSE
    /\ connected' \in BOOLEAN
    /\ requests' =
         IF connected' /\ kind = "toggle_source_visibility"
              /\ data'.scene # NULL /\ data'.source # NULL
         THEN <<obs_ws_get_scene_item_list(data'.scene, "on_scene_item_list_for_state", NULL)>>
         ELSE <<>>
    /\ UNCHANGED <<kind, obs, chosen, crossed>>

Next ==
    \/ \E t \in Threads : obs_plugin_exec(t) \/ SendFound(t)
    \/ obs_plugin_config \/ Deselect \/ ChooseFirst \/ ChooseSource
    \/ chapter_name_changed \/ on_file_set
    \/ invoke_callback_idle
    \/ PeerReads \/ PeerChanges \/ Disconnect \/ on_ws_connected
    \/ load

Spec == Init /\ [][Next]_obsVars

\* The pool and the main loop run and OBS reads what it is sent.
Fairness ==
    /\ \A t \in Threads : WF_obsVars(SendFound(t))
    /\ WF_obsVars(invoke_callback_idle) /\ WF_obsVars(PeerReads)

-----------------------------------------------------------------------------
Data == [scene : Scenes \cup {NULL}, source : Sources \cup {NULL},
         scene_item_id : Ids \cup {Unknown}, is_visible : BOOLEAN,
         text : Texts \cup {NULL}]

(***************************************************************************)
(* Type invariant.  The lists are given by their lengths and members.      *)
(***************************************************************************)
TypeOK ==
    /\ kind \in Kinds /\ data \in Data /\ state \in {"NORMAL", "SELECTED"}
    /\ conf \in [open : BOOLEAN, listed : BOOLEAN, row : Scenes \cup Sources \cup {NULL},
                 itemsOf : Scenes \cup {NULL}, item : Sources \cup {NULL}]
    /\ pool \in [Threads -> {"idle", "lookup", "toggle"}]
    /\ obs.program \in Scenes /\ obs.recording \in BOOLEAN
    /\ obs.muted \in [AudioInputs -> BOOLEAN]
    /\ \A s \in Scenes : obs.enabled[s] \in [ItemsOf(s) -> BOOLEAN]
    /\ connected \in BOOLEAN
    /\ requests \in Seq(Message) /\ inbox \in Seq(Message)
    /\ chosen \in [scene : Scenes \cup {NULL}, source : Sources \cup {NULL},
                   text : Texts \cup {NULL}]
    /\ crossed \in BOOLEAN /\ told \in BOOLEAN

Quiet == requests = <<>> /\ inbox = <<>> /\ \A t \in Threads : pool[t] = "idle"

(***************************************************************************)
(* Unless an answer overtakes a choice of the user, the button keeps what  *)
(* he configured: no list that arrives for the widgets, no press, no lost  *)
(* connection and no restart changes it.                                   *)
(***************************************************************************)
ChoiceIsKept == ~crossed =>
    chosen = [scene |-> data.scene, source |-> data.source, text |-> data.text]

(***************************************************************************)
(* A scene item the button knows is that of its source in some scene, and  *)
(* unless an answer overtakes a choice, in its own scene: its presses and  *)
(* the events it listens to are about what the user chose, although ids    *)
(* mean other sources in other scenes.                                     *)
(***************************************************************************)
KnownItem == data.scene_item_id # Unknown
OwnItem == /\ data.source \in ItemsOf(data.scene)
           /\ data.scene_item_id = ItemId[data.scene][data.source]
ItemIsOfSource == KnownItem =>
    /\ \E s \in Scenes : /\ data.source \in ItemsOf(s)
                         /\ data.scene_item_id = ItemId[s][data.source]
    /\ crossed \/ OwnItem

(***************************************************************************)
(* When nothing is on its way, a button shows what OBS is, once OBS has    *)
(* told it since the user's last choice and since the connection was made, *)
(* whatever was pressed, looked up or changed in OBS meanwhile.  Only a    *)
(* visibility button that has lost its item may not: opening its           *)
(* configuration makes on_source_list select its row again, which clears   *)
(* scene_item_id, and until a press has looked the item up it knows no     *)
(* event for its own (OurEventIsTaken).                                    *)
(***************************************************************************)
HasItem == kind = "toggle_source_visibility" => KnownItem
IsOn ==
    \/ kind = "change_scene" /\ obs.program = data.scene
    \/ kind = "mute_source" /\ obs.muted[data.source]
    \/ kind = "toggle_recording" /\ obs.recording
    \/ kind = "toggle_source_visibility" /\ obs.enabled[data.scene][data.source]
FollowsObs == Quiet /\ told /\ ~crossed /\ HasItem =>
    /\ state = StateOf(IsOn)
    /\ kind = "toggle_source_visibility" => data.is_visible = IsOn

(***************************************************************************)
(* Lists that select a row, which asks for lists, come to an end, and so   *)
(* do presses that are looked up.                                          *)
(***************************************************************************)
Settles == []<>Quiet

(***************************************************************************)
(* obs_toggle_source_visibility.c:43: "Check if this event is for our      *)
(* scene and scene item".  An event that passes the check is about the     *)
(* source of the button.                                                   *)
(***************************************************************************)
EventIsOurs ==
    inbox # <<>> /\ Head(inbox).type = "SceneItemEnableStateChanged" /\ IsForUs(Head(inbox))
        => OwnItem

(***************************************************************************)
(* The other half of that comment: an event about the item of the button,  *)
(* in its scene, passes the check, once OBS has told the button since the  *)
(* user's last choice and since the connection was made, and unless an     *)
(* answer overtook that choice.                                            *)
(***************************************************************************)
IsOfOurItem(m) == /\ m.type = "SceneItemEnableStateChanged" /\ m.scene = data.scene
                  /\ m.id = ItemId[data.scene][data.source]
OurEventIsTaken ==
    told /\ ~crossed /\ inbox # <<>> /\ IsOfOurItem(Head(inbox)) => IsForUs(Head(inbox))

=============================================================================
