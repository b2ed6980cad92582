-------------------------- MODULE ObsActionsProofs --------------------------
(***************************************************************************)
(* Theorems about the buttons that control OBS, for every set of scenes,   *)
(* sources, ids and threads, any number of presses, choices, changes in    *)
(* OBS, lost connections and restarts.                                     *)
(***************************************************************************)
EXTENDS ObsActions, SequenceTheorems, TLAPS

(***************************************************************************)
(* What is on its way.  A button of one kind asks for, orders and is told  *)
(* certain things only, so that a handler never meets another's message.   *)
(***************************************************************************)
Listing   == {"change_scene", "mute_source", "toggle_source_visibility"}
Visibility == kind = "toggle_source_visibility"
Lookups   == {"on_scene_item_lookup", "on_scene_item_list_for_state"}
ItemLists == Lookups \cup {"on_source_list"}

Asks(m) ==
    \/ /\ m.to = "on_scene_list" /\ m.type = "GetSceneList"
       /\ kind \in {"change_scene", "toggle_source_visibility"}
    \/ m.to = "on_input_list" /\ m.type = "GetInputList" /\ kind = "mute_source"
    \/ m.to \in ItemLists /\ m.type = "GetSceneItemList" /\ m.scene \in Scenes /\ Visibility

Orders(m) ==
    /\ m.to = "none"
    /\ \/ kind = "change_scene" /\ m.type = "SetCurrentProgramScene" /\ m.scene \in Scenes
       \/ kind = "mute_source" /\ m.type = "ToggleInputMute"
       \/ kind = "toggle_recording" /\ m.type = "ToggleRecord"
       \/ Visibility /\ m.type = "SetSceneItemEnabled" /\ m.scene \in Scenes
       \/ m.type \in {"SetRecordChapterMarker", "SaveSourceScreenshot"}

Events(m) ==
    /\ m.to = "event"
    /\ \/ kind = "change_scene" /\ m.type = "CurrentProgramSceneChanged"
       \/ kind = "mute_source" /\ m.type = "InputMuteStateChanged" /\ m.source \in AudioInputs
       \/ kind = "toggle_recording"
            /\ m.type \in {"OBS_WEBSOCKET_OUTPUT_STARTING", "OBS_WEBSOCKET_OUTPUT_STARTED",
                           "OBS_WEBSOCKET_OUTPUT_STOPPING", "OBS_WEBSOCKET_OUTPUT_STOPPED"}
       \/ /\ Visibility /\ m.type = "SceneItemEnableStateChanged"
          /\ m.scene \in Scenes /\ m.id \in Ids

Outgoing == {m \in Message : (Asks(m) \/ Orders(m)) /\ ~m.late}
Listed(m) == m.to \in ItemLists => m.enabled \in [ItemsOf(m.scene) -> BOOLEAN]
Incoming == {m \in Message : (Asks(m) /\ Listed(m)) \/ Events(m)}
News == {m \in Incoming : Events(m) /\ m.late = FALSE}

(***************************************************************************)
(* The types, with what each kind of button has to do with.                *)
(***************************************************************************)
EnabledItems == {e \in [Scenes -> UNION {[ItemsOf(s) -> BOOLEAN] : s \in Scenes}] :
                    \A s \in Scenes : e[s] \in [ItemsOf(s) -> BOOLEAN]}
ObsStates == [program : Scenes, muted : [AudioInputs -> BOOLEAN], recording : BOOLEAN,
              enabled : EnabledItems]
Widgets == [open : BOOLEAN, listed : BOOLEAN, row : Scenes \cup Sources \cup {NULL},
            itemsOf : Scenes \cup {NULL}, item : Sources \cup {NULL}]
Choices == [scene : Scenes \cup {NULL}, source : Sources \cup {NULL}, text : Texts \cup {NULL}]

ButtonTypes ==
    /\ kind \in Kinds /\ data \in Data /\ state \in {"NORMAL", "SELECTED"}
    /\ ~Visibility => data.scene_item_id = Unknown
    /\ kind = "mute_source" => data.source \in AudioInputs \cup {NULL}
ConfTypes ==
    /\ conf \in Widgets
    /\ conf.listed => kind \in Listing
    /\ conf.itemsOf # NULL => Visibility
PoolTypes ==
    /\ pool \in [Threads -> {"idle", "lookup", "toggle"}]
    /\ \A t \in Threads : pool[t] # "idle" => Visibility /\ data.scene \in Scenes
ObsTypes == obs \in ObsStates /\ connected \in BOOLEAN
QueueTypes == requests \in Seq(Outgoing) /\ inbox \in Seq(Incoming)
HistoryTypes == chosen \in Choices /\ crossed \in BOOLEAN /\ told \in BOOLEAN

TypeInv == ButtonTypes /\ ConfTypes /\ PoolTypes /\ ObsTypes /\ QueueTypes /\ HistoryTypes

LEMMA TypeInvImpliesTypeOK == TypeInv => TypeOK
<1> SUFFICES ASSUME TypeInv PROVE TypeOK
  OBVIOUS
<1>1. /\ kind \in Kinds /\ data \in Data /\ state \in {"NORMAL", "SELECTED"}
      /\ pool \in [Threads -> {"idle", "lookup", "toggle"}] /\ connected \in BOOLEAN
      /\ crossed \in BOOLEAN /\ told \in BOOLEAN
  BY DEF TypeInv, ButtonTypes, PoolTypes, ObsTypes, HistoryTypes
<1>2. conf \in Widgets /\ chosen \in Choices
  BY DEF TypeInv, ConfTypes, HistoryTypes
<1>3. /\ obs.program \in Scenes /\ obs.recording \in BOOLEAN
      /\ obs.muted \in [AudioInputs -> BOOLEAN]
      /\ \A s \in Scenes : obs.enabled[s] \in [ItemsOf(s) -> BOOLEAN]
  BY DEF TypeInv, ObsTypes, ObsStates, EnabledItems
<1>4. requests \in Seq(Message) /\ inbox \in Seq(Message)
  <2>1. Outgoing \subseteq Message /\ Incoming \subseteq Message
    BY DEF Outgoing, Incoming
  <2> QED  BY <2>1, SeqMonotonic DEF TypeInv, QueueTypes
<1> QED  BY <1>1, <1>2, <1>3, <1>4 DEF TypeOK, Widgets, Choices

-----------------------------------------------------------------------------
(***************************************************************************)
(* Messages.                                                               *)
(***************************************************************************)
LEMMA NoItemStates == NULL \in ItemStates
  BY DEF ItemStates

LEMMA PlainMessage ==
    ASSUME NEW type \in RequestTypes \cup EventTypes, NEW to \in Callbacks
    PROVE  /\ Plain(type, to) \in Message
           /\ Plain(type, to).type = type /\ Plain(type, to).to = to
           /\ Plain(type, to).late = FALSE /\ Plain(type, to).stale = FALSE
  BY NoItemStates DEF Plain, Message

LEMMA ChangedMessage ==
    ASSUME NEW m \in Message, NEW s \in Scenes \cup {NULL}, NEW x \in Sources \cup {NULL},
           NEW i \in Ids \cup {Unknown}, NEW v \in BOOLEAN,
           NEW l \in Scenes \cup Sources \cup {NULL}
    PROVE  /\ [m EXCEPT !.scene = s] \in Message
           /\ [m EXCEPT !.source = x] \in Message
           /\ [m EXCEPT !.selected = l] \in Message
           /\ [m EXCEPT !.scene = s, !.selected = l] \in Message
           /\ [m EXCEPT !.source = x, !.value = v] \in Message
           /\ [m EXCEPT !.scene = s, !.id = i, !.value = v] \in Message
<1>1. [m EXCEPT !.scene = s] \in Message /\ [m EXCEPT !.source = x] \in Message
  BY DEF Message
<1>2. [m EXCEPT !.selected = l] \in Message
  BY DEF Message
<1>3. [m EXCEPT !.scene = s, !.selected = l] \in Message
  BY DEF Message
<1>4. [m EXCEPT !.source = x, !.value = v] \in Message
  BY DEF Message
<1>5. [m EXCEPT !.scene = s, !.id = i, !.value = v] \in Message
  BY DEF Message
<1> QED  BY <1>1, <1>2, <1>3, <1>4, <1>5

LEMMA Words ==
    /\ RequestTypes \subseteq RequestTypes \cup EventTypes
    /\ EventTypes \subseteq RequestTypes \cup EventTypes
    /\ {"none", "event", "on_scene_list", "on_input_list"} \cup ItemLists \subseteq Callbacks
    /\ {"GetSceneList", "GetInputList", "GetSceneItemList", "SetCurrentProgramScene",
        "ToggleInputMute", "ToggleRecord", "SetSceneItemEnabled", "SetRecordChapterMarker",
        "SaveSourceScreenshot"} \subseteq RequestTypes
  BY DEF RequestTypes, Callbacks, ItemLists, Lookups

LEMMA RequestMessages ==
    /\ \A l \in Scenes \cup {NULL} : kind \in {"change_scene", "toggle_source_visibility"} =>
         obs_ws_get_scenes(l) \in Outgoing
    /\ \A l \in Sources \cup {NULL} : kind = "mute_source" =>
         obs_ws_get_input_list(l) \in Outgoing
    /\ \A s \in Scenes, to \in ItemLists, l \in Sources \cup {NULL} : Visibility =>
         obs_ws_get_scene_item_list(s, to, l) \in Outgoing
    /\ \A s \in Scenes : kind = "change_scene" => obs_ws_set_current_scene(s) \in Outgoing
    /\ \A x \in Sources : kind = "mute_source" => obs_ws_toggle_input_mute(x) \in Outgoing
    /\ kind = "toggle_recording" => obs_ws_toggle_record \in Outgoing
    /\ \A s \in Scenes, i \in Ids \cup {Unknown}, v \in BOOLEAN : Visibility =>
         obs_ws_set_scene_item_enabled(s, i, v) \in Outgoing
    /\ obs_ws_set_record_chapter_marker \in Outgoing
    /\ obs_ws_save_source_screenshot \in Outgoing
<1>1. ASSUME NEW l \in Scenes \cup {NULL}, kind \in {"change_scene", "toggle_source_visibility"}
      PROVE  obs_ws_get_scenes(l) \in Outgoing
  <2> DEFINE r == obs_ws_get_scenes(l)
  <2> DEFINE p == Plain("GetSceneList", "on_scene_list")
  <2>0. "GetSceneList" \in RequestTypes \cup EventTypes /\ "on_scene_list" \in Callbacks
    BY Words
  <2>1. p \in Message /\ p.type = "GetSceneList" /\ p.to = "on_scene_list" /\ p.late = FALSE
    BY <2>0, PlainMessage
  <2>2. r \in Message
    BY <2>1, ChangedMessage DEF obs_ws_get_scenes
  <2>3. r.type = "GetSceneList" /\ r.to = "on_scene_list" /\ r.late = FALSE
    BY <2>1, <2>2 DEF obs_ws_get_scenes, Message
  <2> QED  BY <1>1, <2>2, <2>3 DEF Outgoing, Asks, Orders
<1>2. ASSUME NEW l \in Sources \cup {NULL}, kind = "mute_source"
      PROVE  obs_ws_get_input_list(l) \in Outgoing
  <2> DEFINE r == obs_ws_get_input_list(l)
  <2> DEFINE p == Plain("GetInputList", "on_input_list")
  <2>0. "GetInputList" \in RequestTypes \cup EventTypes /\ "on_input_list" \in Callbacks
    BY Words
  <2>1. p \in Message /\ p.type = "GetInputList" /\ p.to = "on_input_list" /\ p.late = FALSE
    BY <2>0, PlainMessage
  <2>2. r \in Message
    BY <2>1, ChangedMessage DEF obs_ws_get_input_list
  <2>3. r.type = "GetInputList" /\ r.to = "on_input_list" /\ r.late = FALSE
    BY <2>1, <2>2 DEF obs_ws_get_input_list, Message
  <2> QED  BY <1>2, <2>2, <2>3 DEF Outgoing, Asks, Orders
<1>3. ASSUME NEW s \in Scenes, NEW to \in ItemLists, NEW l \in Sources \cup {NULL}, Visibility
      PROVE  obs_ws_get_scene_item_list(s, to, l) \in Outgoing
  <2> DEFINE r == obs_ws_get_scene_item_list(s, to, l)
  <2> DEFINE p == Plain("GetSceneItemList", to)
  <2>0. "GetSceneItemList" \in RequestTypes \cup EventTypes /\ to \in Callbacks
    BY Words
  <2>1. p \in Message /\ p.type = "GetSceneItemList" /\ p.to = to /\ p.late = FALSE
    BY <2>0, PlainMessage
  <2>2. r \in Message
    BY <2>1, ChangedMessage DEF obs_ws_get_scene_item_list
  <2>3. r.type = "GetSceneItemList" /\ r.to = to /\ r.late = FALSE /\ r.scene = s
    BY <2>1, <2>2 DEF obs_ws_get_scene_item_list, Message
  <2> QED  BY <1>3, <2>2, <2>3 DEF Outgoing, Asks, Orders, ItemLists, Lookups
<1>4. ASSUME NEW s \in Scenes, kind = "change_scene"
      PROVE  obs_ws_set_current_scene(s) \in Outgoing
  <2> DEFINE r == obs_ws_set_current_scene(s)
  <2> DEFINE p == Plain("SetCurrentProgramScene", "none")
  <2>0. "SetCurrentProgramScene" \in RequestTypes \cup EventTypes /\ "none" \in Callbacks
    BY Words
  <2>1. p \in Message /\ p.type = "SetCurrentProgramScene" /\ p.to = "none" /\ p.late = FALSE
    BY <2>0, PlainMessage
  <2>2. r \in Message
    BY <2>1, ChangedMessage DEF obs_ws_set_current_scene
  <2>3. r.type = "SetCurrentProgramScene" /\ r.to = "none" /\ r.late = FALSE /\ r.scene = s
    BY <2>1, <2>2 DEF obs_ws_set_current_scene, Message
  <2> QED  BY <1>4, <2>2, <2>3 DEF Outgoing, Asks, Orders
<1>5. ASSUME NEW x \in Sources, kind = "mute_source"
      PROVE  obs_ws_toggle_input_mute(x) \in Outgoing
  <2> DEFINE r == obs_ws_toggle_input_mute(x)
  <2> DEFINE p == Plain("ToggleInputMute", "none")
  <2>0. "ToggleInputMute" \in RequestTypes \cup EventTypes /\ "none" \in Callbacks
    BY Words
  <2>1. p \in Message /\ p.type = "ToggleInputMute" /\ p.to = "none" /\ p.late = FALSE
    BY <2>0, PlainMessage
  <2>2. r \in Message
    BY <2>1, ChangedMessage DEF obs_ws_toggle_input_mute
  <2>3. r.type = "ToggleInputMute" /\ r.to = "none" /\ r.late = FALSE
    BY <2>1, <2>2 DEF obs_ws_toggle_input_mute, Message
  <2> QED  BY <1>5, <2>2, <2>3 DEF Outgoing, Asks, Orders
<1>6. ASSUME kind = "toggle_recording"
      PROVE  obs_ws_toggle_record \in Outgoing
  <2> DEFINE r == obs_ws_toggle_record
  <2> DEFINE p == Plain("ToggleRecord", "none")
  <2>0. "ToggleRecord" \in RequestTypes \cup EventTypes /\ "none" \in Callbacks
    BY Words
  <2>1. p \in Message /\ p.type = "ToggleRecord" /\ p.to = "none" /\ p.late = FALSE
    BY <2>0, PlainMessage
  <2>2. r \in Message
    BY <2>1, ChangedMessage DEF obs_ws_toggle_record
  <2>3. r.type = "ToggleRecord" /\ r.to = "none" /\ r.late = FALSE
    BY <2>1, <2>2 DEF obs_ws_toggle_record, Message
  <2> QED  BY <1>6, <2>2, <2>3 DEF Outgoing, Asks, Orders
<1>7. ASSUME NEW s \in Scenes, NEW i \in Ids \cup {Unknown}, NEW v \in BOOLEAN, Visibility
      PROVE  obs_ws_set_scene_item_enabled(s, i, v) \in Outgoing
  <2> DEFINE r == obs_ws_set_scene_item_enabled(s, i, v)
  <2> DEFINE p == Plain("SetSceneItemEnabled", "none")
  <2>0. "SetSceneItemEnabled" \in RequestTypes \cup EventTypes /\ "none" \in Callbacks
    BY Words
  <2>1. p \in Message /\ p.type = "SetSceneItemEnabled" /\ p.to = "none" /\ p.late = FALSE
    BY <2>0, PlainMessage
  <2>2. r \in Message
    BY <2>1, ChangedMessage DEF obs_ws_set_scene_item_enabled
  <2>3. r.type = "SetSceneItemEnabled" /\ r.to = "none" /\ r.late = FALSE /\ r.scene = s
    BY <2>1, <2>2 DEF obs_ws_set_scene_item_enabled, Message
  <2> QED  BY <1>7, <2>2, <2>3 DEF Outgoing, Asks, Orders, Visibility
<1>8. obs_ws_set_record_chapter_marker \in Outgoing
  <2> DEFINE r == obs_ws_set_record_chapter_marker
  <2> DEFINE p == Plain("SetRecordChapterMarker", "none")
  <2>0. "SetRecordChapterMarker" \in RequestTypes \cup EventTypes /\ "none" \in Callbacks
    BY Words
  <2>1. p \in Message /\ p.type = "SetRecordChapterMarker" /\ p.to = "none" /\ p.late = FALSE
    BY <2>0, PlainMessage
  <2>2. r \in Message
    BY <2>1, ChangedMessage DEF obs_ws_set_record_chapter_marker
  <2>3. r.type = "SetRecordChapterMarker" /\ r.to = "none" /\ r.late = FALSE
    BY <2>1, <2>2 DEF obs_ws_set_record_chapter_marker, Message
  <2> QED  BY <2>2, <2>3 DEF Outgoing, Asks, Orders
<1>9. obs_ws_save_source_screenshot \in Outgoing
  <2> DEFINE r == obs_ws_save_source_screenshot
  <2> DEFINE p == Plain("SaveSourceScreenshot", "none")
  <2>0. "SaveSourceScreenshot" \in RequestTypes \cup EventTypes /\ "none" \in Callbacks
    BY Words
  <2>1. p \in Message /\ p.type = "SaveSourceScreenshot" /\ p.to = "none" /\ p.late = FALSE
    BY <2>0, PlainMessage
  <2>2. r \in Message
    BY <2>1, ChangedMessage DEF obs_ws_save_source_screenshot
  <2>3. r.type = "SaveSourceScreenshot" /\ r.to = "none" /\ r.late = FALSE
    BY <2>1, <2>2 DEF obs_ws_save_source_screenshot, Message
  <2> QED  BY <2>2, <2>3 DEF Outgoing, Asks, Orders
<1> QED  BY <1>1, <1>2, <1>3, <1>4, <1>5, <1>6, <1>7, <1>8, <1>9
-----------------------------------------------------------------------------
(***************************************************************************)
(* Lists of messages.                                                      *)
(***************************************************************************)
LEMMA Lists ==
    ASSUME NEW S
    PROVE  /\ <<>> \in Seq(S)
           /\ \A m \in S : <<m>> \in Seq(S)
           /\ \A q, r \in Seq(S) : q \o r \in Seq(S)
           /\ \A q \in Seq(S), m \in S : Append(q, m) \in Seq(S)
           /\ \A q \in Seq(S) : q # <<>> => Head(q) \in S /\ Tail(q) \in Seq(S)
<1>1. \A q, r \in Seq(S) : q \o r \in Seq(S)
  BY ConcatProperties
<1>2. \A q \in Seq(S) : q # <<>> => Head(q) \in S /\ Tail(q) \in Seq(S)
  BY HeadTailProperties
<1> QED  BY <1>1, <1>2

\* A list is given by its length and its members.
LEMMA ListOf ==
    ASSUME NEW S, NEW n \in Nat, NEW f \in [1 .. n -> S]
    PROVE  f \in Seq(S) /\ Len(f) = n /\ DOMAIN f = 1 .. n
  BY SeqDef

\* A set of messages that can grow stale and lose their widgets.
Ages(S) ==
    /\ S \subseteq Message
    /\ \A m \in S, b \in BOOLEAN : /\ [m EXCEPT !.gone = b] \in S
                                   /\ (m.stale => b) => [m EXCEPT !.stale = b] \in S

LEMMA AgedLists ==
    ASSUME NEW S, Ages(S), NEW q \in Seq(S)
    PROVE  /\ Stale(q) \in Seq(S) /\ Len(Stale(q)) = Len(q)
           /\ Gone(q) \in Seq(S) /\ Len(Gone(q)) = Len(q)
<1>1. Len(q) \in Nat /\ DOMAIN q = 1 .. Len(q) /\ \A i \in 1 .. Len(q) : q[i] \in S
  OBVIOUS
<1>2. Stale(q) \in [1 .. Len(q) -> S]
  <2> SUFFICES ASSUME NEW i \in 1 .. Len(q)
               PROVE  [q[i] EXCEPT !.stale = @ \/ q[i].to \notin {"none", "event"}] \in S
    BY <1>1 DEF Stale
  <2> DEFINE m == q[i]
             b == m.stale \/ m.to \notin {"none", "event"}
  <2>1. m \in S /\ b \in BOOLEAN /\ (m.stale => b)
    BY <1>1 DEF Ages, Message
  <2>2. [m EXCEPT !.stale = b] \in S
    BY <2>1 DEF Ages
  <2> QED  BY <2>2
<1>3. Gone(q) \in [1 .. Len(q) -> S]
  <2> SUFFICES ASSUME NEW i \in 1 .. Len(q)
               PROVE  [q[i] EXCEPT !.gone = @ \/ q[i].to \in ToWidgets] \in S
    BY <1>1 DEF Gone
  <2> DEFINE m == q[i]
             b == m.gone \/ m.to \in ToWidgets
  <2>1. m \in S /\ b \in BOOLEAN
    BY <1>1 DEF Ages, Message
  <2>2. [m EXCEPT !.gone = b] \in S
    BY <2>1 DEF Ages
  <2> QED  BY <2>2
<1> QED  BY <1>1, <1>2, <1>3, ListOf

LEMMA QueuesAge == Ages(Outgoing) /\ Ages(Incoming)
<1> SUFFICES ASSUME NEW m \in Message, NEW b \in BOOLEAN,
                    NEW g, g \in {[m EXCEPT !.gone = b], [m EXCEPT !.stale = b]}
             PROVE  /\ m \in Outgoing => g \in Outgoing
                    /\ m \in Incoming => g \in Incoming
  BY DEF Ages, Outgoing, Incoming
<1>1. g \in Message
  BY DEF Message
<1>2. /\ g.type = m.type /\ g.to = m.to /\ g.scene = m.scene /\ g.enabled = m.enabled
      /\ g.late = m.late /\ g.source = m.source /\ g.id = m.id
  BY DEF Message
<1>3. /\ Asks(m) => Asks(g)
      /\ Orders(m) => Orders(g)
      /\ Events(m) => Events(g)
      /\ Listed(m) => Listed(g)
  BY <1>2 DEF Asks, Orders, Events, Listed
<1> QED  BY <1>1, <1>2, <1>3 DEF Outgoing, Incoming
-----------------------------------------------------------------------------
(***************************************************************************)
(* The types, one action at a time.  Each action shows the groups that it  *)
(* disturbs.                                                               *)
(***************************************************************************)
LEMMA GroupsKept ==
    ASSUME TypeInv, UNCHANGED kind
    PROVE  /\ Outgoing' = Outgoing /\ Incoming' = Incoming /\ (Visibility' <=> Visibility)
           /\ UNCHANGED <<data, state>> => ButtonTypes'
           /\ UNCHANGED conf => ConfTypes'
           /\ UNCHANGED <<data, pool>> => PoolTypes'
           /\ UNCHANGED <<obs, connected>> => ObsTypes'
           /\ UNCHANGED requests => requests' \in Seq(Outgoing')
           /\ UNCHANGED inbox => inbox' \in Seq(Incoming')
           /\ UNCHANGED <<chosen, crossed, told>> => HistoryTypes'
<1>1. Outgoing' = Outgoing
  BY DEF Outgoing, Asks, Orders, Visibility
<1>2. Incoming' = Incoming
  BY DEF Incoming, Asks, Listed, Events, Visibility
<1>3. Visibility' <=> Visibility
  BY DEF Visibility
<1>4. UNCHANGED <<data, state>> => ButtonTypes'
  BY DEF TypeInv, ButtonTypes, Visibility
<1>5. UNCHANGED conf => ConfTypes'
  BY DEF TypeInv, ConfTypes, Visibility
<1>6. UNCHANGED <<data, pool>> => PoolTypes'
  BY DEF TypeInv, PoolTypes, Visibility
<1>7. UNCHANGED <<obs, connected>> => ObsTypes'
  BY DEF TypeInv, ObsTypes
<1>8. /\ UNCHANGED requests => requests' \in Seq(Outgoing')
      /\ UNCHANGED inbox => inbox' \in Seq(Incoming')
  BY <1>1, <1>2 DEF TypeInv, QueueTypes
<1>9. UNCHANGED <<chosen, crossed, told>> => HistoryTypes'
  BY DEF TypeInv, HistoryTypes
<1> QED  BY <1>1, <1>2, <1>3, <1>4, <1>5, <1>6, <1>7, <1>8, <1>9

LEMMA SentKept ==
    ASSUME TypeInv, NEW r \in Outgoing
    PROVE  Sent(requests, r) \in Seq(Outgoing)
  BY Lists DEF TypeInv, QueueTypes, Sent

LEMMA InitTypes == Init => TypeInv
<1> SUFFICES ASSUME Init PROVE TypeInv
  OBVIOUS
<1> USE ObsActionsAssumption
<1>1. /\ kind \in Kinds /\ state = "NORMAL" /\ data \in {NoData} \cup Configurations
      /\ conf = NoWidgets /\ pool = [t \in Threads |-> "idle"] /\ connected = FALSE
      /\ requests = <<>> /\ inbox = <<>> /\ crossed = FALSE /\ told = FALSE
      /\ chosen = [scene |-> data.scene, source |-> data.source, text |-> data.text]
      /\ obs \in [program : Scenes, muted : [AudioInputs -> {FALSE}], recording : BOOLEAN,
                  enabled : {[s \in Scenes |-> [x \in ItemsOf(s) |-> TRUE]]}]
  BY DEF Init, init
<1>2. /\ data \in Data /\ data.scene_item_id = Unknown
      /\ kind = "mute_source" => data.source \in AudioInputs \cup {NULL}
  <2>1. CASE data = NoData
    BY <2>1 DEF NoData, Data
  <2>2. CASE kind = "change_scene" /\ data \in {[NoData EXCEPT !.scene = s] : s \in Scenes}
    BY <2>2 DEF NoData, Data
  <2>3. CASE kind = "mute_source" /\ data \in {[NoData EXCEPT !.source = x] : x \in AudioInputs}
    BY <2>3 DEF NoData, Data
  <2>4. CASE /\ kind = "toggle_source_visibility"
             /\ data \in UNION {{[NoData EXCEPT !.scene = s, !.source = x] :
                                   x \in ItemsOf(s)} : s \in Scenes}
    <3> DEFINE of(s) == {[NoData EXCEPT !.scene = s, !.source = x] : x \in ItemsOf(s)}
    <3>0. data \in UNION {of(s) : s \in Scenes}
      BY <2>4
    <3>1. PICK s \in Scenes : data \in of(s)
      <4> HIDE DEF of
      <4> QED  BY <3>0
    <3>2. PICK x \in ItemsOf(s) : data = [NoData EXCEPT !.scene = s, !.source = x]
      BY <3>1
    <3>3. x \in Sources
      BY <3>2
    <3> QED  BY <3>2, <3>3, <2>4 DEF NoData, Data
  <2> QED  BY <1>1, <2>1, <2>2, <2>3, <2>4 DEF Configurations
<1>3. ButtonTypes
  BY <1>1, <1>2 DEF ButtonTypes
<1>4. ConfTypes
  BY <1>1 DEF ConfTypes, NoWidgets, Widgets
<1>5. PoolTypes
  BY <1>1 DEF PoolTypes
<1>6. ObsTypes
  <2> DEFINE e == [s \in Scenes |-> [x \in ItemsOf(s) |-> TRUE]]
  <2>1. \A s \in Scenes : e[s] \in [ItemsOf(s) -> BOOLEAN]
    OBVIOUS
  <2>2. e \in EnabledItems
    <3> DEFINE U == UNION {[ItemsOf(s) -> BOOLEAN] : s \in Scenes}
    <3>1. \A s \in Scenes : [ItemsOf(s) -> BOOLEAN] \subseteq U
      BY Zenon
    <3> HIDE DEF U
    <3>2. e \in [Scenes -> U]
      BY <2>1, <3>1
    <3> HIDE DEF e
    <3> QED  BY <2>1, <3>2 DEF EnabledItems, U
  <2>3. obs.program \in Scenes /\ obs.recording \in BOOLEAN /\ obs.enabled = e
    BY <1>1
  <2>4. obs.muted \in [AudioInputs -> BOOLEAN]
    BY <1>1
  <2>5. obs = [program |-> obs.program, muted |-> obs.muted, recording |-> obs.recording,
               enabled |-> obs.enabled]
    BY <1>1
  <2> HIDE DEF e
  <2>6. obs \in ObsStates
    BY <2>2, <2>3, <2>4, <2>5 DEF ObsStates
  <2> QED  BY <2>6, <1>1 DEF ObsTypes
<1>7. QueueTypes
  BY <1>1, Lists DEF QueueTypes
<1>8. HistoryTypes
  BY <1>1, <1>2 DEF HistoryTypes, Choices, Data
<1> QED  BY <1>3, <1>4, <1>5, <1>6, <1>7, <1>8 DEF TypeInv

LEMMA PressTypes ==
    ASSUME TypeInv, NEW t \in Threads, obs_plugin_exec(t)
    PROVE  TypeInv'
<1> USE ObsActionsAssumption
<1>0. /\ kind \in Kinds /\ data \in Data
      /\ kind = "mute_source" => data.source \in AudioInputs \cup {NULL}
      /\ requests \in Seq(Outgoing)
  BY DEF TypeInv, ButtonTypes, QueueTypes
<1>1. UNCHANGED <<kind, data, state, conf, obs, connected, inbox, chosen, crossed, told>>
  BY DEF obs_plugin_exec, change_scene_exec, mute_source_exec, toggle_recording_exec,
         chapter_marker_exec, screenshot_exec, toggle_source_visibility_exec, Requests,
         Pressed, history
<1>2. requests' \in Seq(Outgoing)
  <2>1. CASE change_scene_exec(t)
    <3>1. CASE data.scene # NULL
      <4>1. obs_ws_set_current_scene(data.scene) \in Outgoing
        BY <1>0, <2>1, <3>1, RequestMessages DEF change_scene_exec, Data
      <4> QED  BY <4>1, <2>1, <3>1, SentKept DEF change_scene_exec, Requests, Send
    <3> QED  BY <1>0, <2>1, <3>1 DEF change_scene_exec, Requests
  <2>2. CASE mute_source_exec(t)
    <3>1. CASE data.source # NULL
      <4>1. obs_ws_toggle_input_mute(data.source) \in Outgoing
        BY <1>0, <2>2, <3>1, RequestMessages DEF mute_source_exec, Data
      <4> QED  BY <4>1, <2>2, <3>1, SentKept DEF mute_source_exec, Requests, Send
    <3> QED  BY <1>0, <2>2, <3>1 DEF mute_source_exec, Requests
  <2>3. CASE toggle_recording_exec(t)
    <3>1. obs_ws_toggle_record \in Outgoing
      BY <2>3, RequestMessages DEF toggle_recording_exec
    <3> QED  BY <1>0, <3>1, <2>3, SentKept DEF toggle_recording_exec, Requests, Send
  <2>4. CASE chapter_marker_exec(t)
    BY <1>0, <2>4, RequestMessages, SentKept DEF chapter_marker_exec, Requests, Send
  <2>5. CASE screenshot_exec(t)
    BY <1>0, <2>5, RequestMessages, SentKept DEF screenshot_exec, Requests, Send
  <2>6. CASE toggle_source_visibility_exec(t)
    BY <1>0, <2>6 DEF toggle_source_visibility_exec
  <2> QED  BY <2>1, <2>2, <2>3, <2>4, <2>5, <2>6 DEF obs_plugin_exec
<1>3. PoolTypes'
  <2>1. CASE UNCHANGED pool
    BY <1>1, <2>1, GroupsKept
  <2>2. CASE toggle_source_visibility_exec(t)
    <3> DEFINE new == IF data.scene = NULL \/ data.source = NULL THEN "idle"
                      ELSE IF data.scene_item_id = Unknown THEN "lookup" ELSE "toggle"
    <3>1. /\ pool \in [Threads -> {"idle", "lookup", "toggle"}] /\ pool' = [pool EXCEPT ![t] = new]
          /\ \A u \in Threads : pool[u] # "idle" => Visibility /\ data.scene \in Scenes
          /\ kind = "toggle_source_visibility"
      BY <2>2 DEF toggle_source_visibility_exec, TypeInv, PoolTypes
    <3>2. new \in {"idle", "lookup", "toggle"} /\ (new # "idle" => data.scene \in Scenes)
      BY <1>0 DEF Data
    <3> HIDE DEF new
    <3>3. pool' \in [Threads -> {"idle", "lookup", "toggle"}]
      BY <3>1, <3>2
    <3>4. ASSUME NEW u \in Threads, pool'[u] # "idle" PROVE Visibility' /\ data'.scene \in Scenes
      BY <3>1, <3>2, <3>4, <1>1 DEF Visibility
    <3> QED  BY <3>3, <3>4 DEF PoolTypes
  <2> QED  BY <2>1, <2>2 DEF obs_plugin_exec, change_scene_exec, mute_source_exec,
                 toggle_recording_exec, chapter_marker_exec, screenshot_exec, Requests
<1> QED  BY <1>1, <1>2, <1>3, GroupsKept DEF TypeInv, QueueTypes

LEMMA SendFoundTypes ==
    ASSUME TypeInv, NEW t \in Threads, SendFound(t)
    PROVE  TypeInv'
<1>1. /\ UNCHANGED <<kind, data, state, conf, obs, connected, inbox, chosen, crossed, told>>
      /\ pool[t] \in {"lookup", "toggle"} /\ pool' = [pool EXCEPT ![t] = "idle"]
      /\ data \in Data /\ pool \in [Threads -> {"idle", "lookup", "toggle"}]
      /\ \A u \in Threads : pool[u] # "idle" => Visibility /\ data.scene \in Scenes
  BY DEF SendFound, history, TypeInv, PoolTypes, ButtonTypes
<1>2. PoolTypes'
  <2>1. pool' \in [Threads -> {"idle", "lookup", "toggle"}]
    BY <1>1
  <2>2. ASSUME NEW u \in Threads, pool'[u] # "idle" PROVE Visibility' /\ data'.scene \in Scenes
    BY <1>1, <2>2 DEF Visibility
  <2> QED  BY <2>1, <2>2 DEF PoolTypes
<1>3. /\ Visibility /\ data.scene \in Scenes /\ data.scene_item_id \in Ids \cup {Unknown}
      /\ (~data.is_visible) \in BOOLEAN
  BY <1>1 DEF Data
<1>4. /\ obs_ws_get_scene_item_list(data.scene, "on_scene_item_lookup", NULL) \in Outgoing
      /\ obs_ws_set_scene_item_enabled(data.scene, data.scene_item_id, ~data.is_visible) \in Outgoing
  BY <1>3, RequestMessages DEF ItemLists, Lookups
<1>5. requests' \in Seq(Outgoing)
  BY <1>4, SentKept DEF SendFound, Send
<1> QED  BY <1>1, <1>2, <1>5, GroupsKept DEF TypeInv, QueueTypes

LEMMA AskedTypes ==
    ASSUME TypeInv
    PROVE  Asked \in Seq(Outgoing)
<1>0. /\ data \in Data
      /\ kind = "mute_source" => data.source \in Sources \cup {NULL}
  BY ObsActionsAssumption DEF TypeInv, ButtonTypes
<1>1. CASE kind = "change_scene"
  <2>1. obs_ws_get_scenes(data.scene) \in Outgoing
    BY <1>0, <1>1, RequestMessages DEF Data
  <2> QED  BY <2>1, <1>1, Lists DEF Asked, change_scene_config
<1>2. CASE kind = "mute_source"
  <2>1. obs_ws_get_input_list(data.source) \in Outgoing
    BY <1>0, <1>2, RequestMessages
  <2> QED  BY <2>1, <1>2, Lists DEF Asked, mute_source_config
<1>3. CASE Visibility
  <2> DEFINE a == obs_ws_get_scenes(data.scene)
             b == obs_ws_get_scene_item_list(data.scene, "on_source_list", data.source)
             c == IF data.scene = NULL THEN <<>> ELSE <<b>>
  <2>1. a \in Outgoing
    BY <1>0, <1>3, RequestMessages DEF Data, Visibility
  <2>2. data.scene # NULL => b \in Outgoing
    BY <1>0, <1>3, RequestMessages DEF Data, ItemLists
  <2> HIDE DEF a, b
  <2>3. c \in Seq(Outgoing)
    BY <2>2, Lists
  <2>4. <<a>> \in Seq(Outgoing)
    BY <2>1, Lists
  <2>5. Asked = <<a>> \o c
    BY <1>3 DEF Asked, toggle_source_visibility_config, a, b, Visibility
  <2> HIDE DEF c
  <2> QED  BY <2>3, <2>4, <2>5, Lists
<1>4. CASE kind \notin {"change_scene", "mute_source"} /\ ~Visibility
  BY <1>4, Lists DEF Asked, Visibility
<1> QED  BY <1>1, <1>2, <1>3, <1>4

LEMMA ConfigTypes ==
    ASSUME TypeInv, obs_plugin_config
    PROVE  TypeInv'
<1>1. /\ UNCHANGED <<kind, data, state, pool, obs, connected, chosen, crossed, told>>
      /\ conf' = [NoWidgets EXCEPT !.open = TRUE] /\ inbox' = Gone(inbox)
      /\ requests' = IF connected THEN Gone(requests) \o Asked ELSE requests
      /\ requests \in Seq(Outgoing) /\ inbox \in Seq(Incoming) /\ data \in Data
      /\ kind = "mute_source" => data.source \in Sources \cup {NULL}
  BY ObsActionsAssumption DEF obs_plugin_config, history, TypeInv, QueueTypes, ButtonTypes
<1>2. ConfTypes'
  BY <1>1 DEF ConfTypes, NoWidgets, Widgets
<1>3. inbox' \in Seq(Incoming)
  BY <1>1, AgedLists, QueuesAge
<1>4. Asked \in Seq(Outgoing)
  BY AskedTypes
<1>5. requests' \in Seq(Outgoing)
  <2>1. Gone(requests) \in Seq(Outgoing)
    BY <1>1, AgedLists, QueuesAge
  <2> QED  BY <2>1, <1>1, <1>4, Lists
<1> QED  BY <1>1, <1>2, <1>3, <1>5, GroupsKept DEF TypeInv, QueueTypes

LEMMA DeselectTypes ==
    ASSUME TypeInv, Deselect
    PROVE  TypeInv'
<1>1. /\ UNCHANGED <<kind, data, state, pool, obs, connected, chosen, crossed, told>>
      /\ conf' = NoWidgets /\ inbox' = Gone(inbox) /\ requests' = Gone(requests)
      /\ requests \in Seq(Outgoing) /\ inbox \in Seq(Incoming)
  BY DEF Deselect, history, TypeInv, QueueTypes
<1>2. ConfTypes'
  BY <1>1 DEF ConfTypes, NoWidgets, Widgets
<1>3. inbox' \in Seq(Incoming) /\ requests' \in Seq(Outgoing)
  BY <1>1, AgedLists, QueuesAge
<1> QED  BY <1>1, <1>2, <1>3, GroupsKept DEF TypeInv, QueueTypes

(***************************************************************************)
(* What the first combo box changes when a row is selected.                *)
(***************************************************************************)
LEMMA FirstChangedTypes ==
    ASSUME TypeInv, kind \in Listing, NEW row \in FirstRows
    PROVE  /\ FirstChanged(row).asks \in Seq(Outgoing)
           /\ FirstChanged(row).data \in Data
           /\ FirstChanged(row).data.text = data.text
           /\ ~Visibility => FirstChanged(row).data.scene_item_id = Unknown
           /\ kind = "mute_source" => FirstChanged(row).data.source \in AudioInputs \cup {NULL}
           /\ Visibility => FirstChanged(row).data.scene \in Scenes
           /\ Visibility => \/ FirstChanged(row).data = data
                            \/ FirstChanged(row).data.scene_item_id = Unknown
<1> USE ObsActionsAssumption
<1>0. /\ data \in Data /\ (~Visibility => data.scene_item_id = Unknown)
      /\ kind = "mute_source" => data.source \in AudioInputs \cup {NULL}
      /\ <<>> \in Seq(Outgoing)
  BY Lists DEF TypeInv, ButtonTypes
<1>1. CASE kind = "change_scene"
  <2>1. row \in Scenes /\ FirstChanged(row) = [data |-> [data EXCEPT !.scene = row], asks |-> <<>>]
    BY <1>1 DEF FirstRows, FirstChanged, scene_changed
  <2> QED  BY <2>1, <1>0, <1>1 DEF Data, Visibility
<1>2. CASE kind = "mute_source"
  <2>1. /\ row \in AudioInputs /\ row \in Sources
        /\ FirstChanged(row) = [data |-> [data EXCEPT !.source = row], asks |-> <<>>]
    BY <1>2 DEF FirstRows, FirstChanged, input_changed
  <2> QED  BY <2>1, <1>0, <1>2 DEF Data, Visibility
<1>3. CASE Visibility
  <2> DEFINE new == IF data.scene = row THEN data
                    ELSE [data EXCEPT !.scene = row, !.source = NULL, !.scene_item_id = Unknown]
             l == IF data.scene = row THEN data.source ELSE NULL
             a == obs_ws_get_scene_item_list(row, "on_source_list", l)
  <2>1. row \in Scenes /\ FirstChanged(row) = [data |-> new, asks |-> <<a>>]
    BY <1>3 DEF FirstRows, FirstChanged, scene_changed_for_sources, Visibility
  <2>2. l \in Sources \cup {NULL}
    BY <1>0 DEF Data
  <2>3. a \in Outgoing
    <3> HIDE DEF l
    <3> QED  BY <1>3, <2>1, <2>2, RequestMessages DEF ItemLists
  <2>4. /\ new \in Data /\ new.text = data.text /\ new.scene = row
        /\ new = data \/ new.scene_item_id = Unknown
    BY <1>0, <2>1 DEF Data
  <2> HIDE DEF new, a
  <2>5. <<a>> \in Seq(Outgoing)
    BY <2>3, Lists
  <2>6. FirstChanged(row).data = new /\ FirstChanged(row).asks = <<a>>
    BY <2>1
  <2> QED  BY <2>1, <2>4, <2>5, <2>6, <1>3 DEF Visibility
<1> QED  BY <1>1, <1>2, <1>3 DEF Listing, Visibility

LEMMA ChooseFirstTypes ==
    ASSUME TypeInv, ChooseFirst
    PROVE  TypeInv'
<1>1. PICK row \in FirstRows :
        /\ conf.listed /\ data' = FirstChanged(row).data
        /\ conf' = [conf EXCEPT !.row = row, !.itemsOf = NULL, !.item = NULL]
        /\ requests' = IF connected THEN Stale(requests) \o FirstChanged(row).asks ELSE requests
        /\ inbox' = Stale(inbox) /\ chosen' = Configured /\ told' = FALSE
        /\ UNCHANGED <<kind, state, pool, obs, connected, crossed>>
  BY DEF ChooseFirst
<1>2. /\ kind \in Kinds /\ state \in {"NORMAL", "SELECTED"} /\ conf \in Widgets
      /\ kind \in Listing /\ requests \in Seq(Outgoing) /\ inbox \in Seq(Incoming)
      /\ crossed \in BOOLEAN
      /\ pool \in [Threads -> {"idle", "lookup", "toggle"}]
      /\ \A t \in Threads : pool[t] # "idle" => Visibility
  BY <1>1 DEF TypeInv, ButtonTypes, ConfTypes, QueueTypes, PoolTypes, HistoryTypes
<1> DEFINE new == FirstChanged(row)
<1>3. /\ new.asks \in Seq(Outgoing) /\ new.data \in Data
      /\ ~Visibility => new.data.scene_item_id = Unknown
      /\ kind = "mute_source" => new.data.source \in AudioInputs \cup {NULL}
      /\ Visibility => new.data.scene \in Scenes
  BY <1>2, FirstChangedTypes
<1> HIDE DEF new
<1>4. ButtonTypes'
  BY <1>1, <1>2, <1>3 DEF ButtonTypes, Visibility, new
<1>5. ConfTypes'
  <2>1. row \in Scenes \cup Sources
    BY ObsActionsAssumption, <1>1 DEF FirstRows
  <2> QED  BY <2>1, <1>1, <1>2 DEF ConfTypes, Widgets
<1>6. PoolTypes'
  BY <1>1, <1>2, <1>3 DEF PoolTypes, Visibility, new
<1>7. requests' \in Seq(Outgoing) /\ inbox' \in Seq(Incoming)
  <2>1. Stale(requests) \in Seq(Outgoing) /\ Stale(inbox) \in Seq(Incoming)
    BY <1>2, AgedLists, QueuesAge
  <2> QED  BY <2>1, <1>1, <1>2, <1>3, Lists DEF new
<1>8. HistoryTypes'
  BY <1>1, <1>2, <1>3 DEF HistoryTypes, Configured, Choices, Data, new
<1> QED  BY <1>1, <1>4, <1>5, <1>6, <1>7, <1>8, GroupsKept DEF TypeInv, QueueTypes

LEMMA ChooseSourceTypes ==
    ASSUME TypeInv, ChooseSource
    PROVE  TypeInv'
<1>1. PICK x \in ItemsOf(conf.itemsOf) :
        /\ conf.itemsOf # NULL /\ data' = source_visibility_changed(x)
        /\ conf' = [conf EXCEPT !.item = x]
        /\ requests' = Stale(requests) /\ inbox' = Stale(inbox)
        /\ chosen' = Configured /\ told' = FALSE
        /\ UNCHANGED <<kind, state, pool, obs, connected, crossed>>
  BY DEF ChooseSource
<1>2. /\ kind \in Kinds /\ state \in {"NORMAL", "SELECTED"} /\ conf \in Widgets /\ data \in Data
      /\ Visibility /\ requests \in Seq(Outgoing) /\ inbox \in Seq(Incoming)
      /\ conf.listed => kind \in Listing
      /\ crossed \in BOOLEAN
      /\ pool \in [Threads -> {"idle", "lookup", "toggle"}]
      /\ \A t \in Threads : pool[t] # "idle" => data.scene \in Scenes
  BY <1>1 DEF TypeInv, ButtonTypes, ConfTypes, QueueTypes, PoolTypes, HistoryTypes
<1>3. x \in Sources
  BY ObsActionsAssumption, <1>1, <1>2 DEF Widgets
<1>4. data' \in Data /\ data'.scene = data.scene
  BY <1>1, <1>2, <1>3 DEF source_visibility_changed, Data
<1>5. ButtonTypes'
  BY <1>1, <1>2, <1>4 DEF ButtonTypes, Visibility
<1>6. ConfTypes'
  BY <1>1, <1>2, <1>3 DEF ConfTypes, Widgets, Visibility
<1>7. PoolTypes'
  BY <1>1, <1>2, <1>4 DEF PoolTypes, Visibility
<1>8. requests' \in Seq(Outgoing) /\ inbox' \in Seq(Incoming)
  BY <1>1, <1>2, AgedLists, QueuesAge
<1>9. HistoryTypes'
  BY <1>1, <1>2, <1>4 DEF HistoryTypes, Configured, Choices, Data
<1> QED  BY <1>1, <1>5, <1>6, <1>7, <1>8, <1>9, GroupsKept DEF TypeInv, QueueTypes

LEMMA EnterTextTypes ==
    ASSUME TypeInv, EnterText
    PROVE  TypeInv'
<1>1. PICK text \in Texts :
        /\ data' = [data EXCEPT !.text = text] /\ chosen' = Configured
        /\ UNCHANGED <<kind, state, conf, pool, obs, connected, requests, inbox, crossed, told>>
  BY DEF EnterText
<1>2. /\ data' \in Data /\ data'.scene = data.scene /\ data'.source = data.source
      /\ data'.scene_item_id = data.scene_item_id
  BY <1>1 DEF TypeInv, ButtonTypes, Data
<1>3. ButtonTypes' /\ PoolTypes'
  BY <1>1, <1>2 DEF TypeInv, ButtonTypes, PoolTypes, Visibility
<1>4. HistoryTypes'
  BY <1>1, <1>2 DEF TypeInv, HistoryTypes, Configured, Choices, Data
<1> QED  BY <1>1, <1>3, <1>4, GroupsKept DEF TypeInv, QueueTypes

(***************************************************************************)
(* What the main loop does with the message m.                             *)
(***************************************************************************)
Handles(m) ==
    \/ m.to = "event" /\ on_event(m)
    \/ m.to \in {"on_scene_list", "on_input_list"} /\ ReachesWidgets /\ on_first_list(m)
    \/ m.to = "on_source_list" /\ ReachesWidgets /\ on_source_list(m)
    \/ m.to \in ToWidgets /\ (m.gone \/ ~conf.open) /\ Ignored
    \/ m.to = "on_scene_item_lookup" /\ on_scene_item_lookup(m)
    \/ m.to = "on_scene_item_list_for_state" /\ on_scene_item_list_for_state(m)

\* The messages of a kind reach handlers of that kind.
LEMMA IncomingTypes ==
    ASSUME TypeInv, NEW m \in Incoming
    PROVE  /\ m \in Message
           /\ m.to = "event" => Events(m)
           /\ m.to \in {"on_scene_list", "on_input_list"} =>
                kind \in Listing /\ (Visibility <=> m.to = "on_scene_list" /\ kind # "change_scene")
           /\ m.to \in ItemLists =>
                /\ Visibility /\ m.scene \in Scenes /\ m.enabled \in [ItemsOf(m.scene) -> BOOLEAN]
           /\ m.to # "none"
  BY DEF Incoming, Asks, Events, Listed, Listing, ItemLists, Lookups, Visibility

LEMMA StateOfTypes == \A on : StateOf(on) \in {"NORMAL", "SELECTED"}
  BY DEF StateOf

LEMMA EventTypesKept ==
    ASSUME TypeInv, UNCHANGED kind, NEW m \in Incoming, m.to = "event", on_event(m)
    PROVE  /\ ButtonTypes' /\ crossed' = crossed /\ told' \in BOOLEAN
           /\ UNCHANGED <<conf, requests>> /\ UNCHANGED <<data.scene, data.source, data.text>>
<1>1. m \in Message
  BY DEF Incoming
<1>2. UNCHANGED <<conf, requests, crossed>>
  BY DEF on_event, on_scene_changed, on_input_mute_changed, on_record_state_changed,
         on_scene_item_enable_changed, Shows, Ignored
<1>3. told' \in BOOLEAN /\ state' \in {"NORMAL", "SELECTED"}
  BY <1>1, StateOfTypes DEF on_event, on_scene_changed, on_input_mute_changed,
         on_record_state_changed, on_scene_item_enable_changed, Shows, Ignored,
         TypeInv, ButtonTypes, HistoryTypes, Message
<1>4. data' = data \/ (Visibility /\ data' = [data EXCEPT !.is_visible = m.value])
  BY DEF on_event, on_scene_changed, on_input_mute_changed, on_record_state_changed,
         on_scene_item_enable_changed, Shows, Ignored, Visibility
<1>5. /\ data' \in Data /\ data'.scene = data.scene /\ data'.source = data.source
      /\ data'.text = data.text /\ data'.scene_item_id = data.scene_item_id
  <2>1. data \in Data /\ m.value \in BOOLEAN
    BY <1>1 DEF TypeInv, ButtonTypes, Message
  <2> QED  BY <1>4, <2>1 DEF Data
<1> QED  BY <1>2, <1>3, <1>5 DEF TypeInv, ButtonTypes, Visibility

LEMMA FirstListTypes ==
    ASSUME TypeInv, UNCHANGED <<kind, pool>>, NEW m \in Incoming,
           m.to \in {"on_scene_list", "on_input_list"}, on_first_list(m)
    PROVE  /\ ButtonTypes' /\ ConfTypes' /\ PoolTypes' /\ requests' \in Seq(Outgoing)
           /\ crossed' \in BOOLEAN /\ told' \in BOOLEAN
<1> USE ObsActionsAssumption
<1>1. m \in Message /\ kind \in Listing
  BY IncomingTypes
<1>2. /\ kind \in Kinds /\ state \in {"NORMAL", "SELECTED"} /\ conf \in Widgets
      /\ requests \in Seq(Outgoing) /\ told \in BOOLEAN /\ crossed \in BOOLEAN
      /\ pool \in [Threads -> {"idle", "lookup", "toggle"}]
      /\ \A t \in Threads : pool[t] # "idle" => Visibility
      /\ conf.itemsOf # NULL => Visibility
  BY DEF TypeInv, ButtonTypes, ConfTypes, QueueTypes, PoolTypes, HistoryTypes
<1>3. UNCHANGED <<state, told>> /\ crossed' = (crossed \/ m.stale)
  BY DEF on_first_list, Crossing
<1>4. CASE m.selected \in FirstRows \ {conf.row}
  <2> DEFINE new == FirstChanged(m.selected)
  <2>1. /\ new.asks \in Seq(Outgoing) /\ new.data \in Data
        /\ ~Visibility => new.data.scene_item_id = Unknown
        /\ kind = "mute_source" => new.data.source \in AudioInputs \cup {NULL}
        /\ Visibility => new.data.scene \in Scenes
    BY <1>1, <1>4, FirstChangedTypes
  <2>2. /\ conf' = [conf EXCEPT !.listed = TRUE, !.row = m.selected, !.itemsOf = NULL,
                                !.item = NULL]
        /\ data' = new.data
        /\ requests' = IF connected THEN requests \o new.asks ELSE requests
    BY <1>4 DEF on_first_list
  <2> HIDE DEF new
  <2>3. ButtonTypes'
    BY <1>2, <1>3, <2>1, <2>2 DEF ButtonTypes, Visibility
  <2>4. ConfTypes'
    <3>1. m.selected \in Scenes \cup Sources
      BY <1>4 DEF FirstRows
    <3> QED  BY <1>1, <1>2, <2>2, <3>1 DEF ConfTypes, Widgets
  <2>5. PoolTypes'
    BY <1>2, <2>1, <2>2 DEF PoolTypes, Visibility
  <2>6. requests' \in Seq(Outgoing)
    BY <1>2, <2>1, <2>2, Lists
  <2> QED  BY <1>1, <1>2, <1>3, <2>2, <2>3, <2>4, <2>5, <2>6 DEF Message
<1>5. CASE m.selected \notin FirstRows \ {conf.row}
  <2>1. conf' = [conf EXCEPT !.listed = TRUE] /\ UNCHANGED <<data, requests>>
    BY <1>5 DEF on_first_list
  <2>2. ConfTypes'
    BY <1>1, <1>2, <2>1 DEF ConfTypes, Widgets, Visibility
  <2> QED  BY <1>1, <1>2, <1>3, <2>1, <2>2, GroupsKept DEF Message
<1> QED  BY <1>4, <1>5

LEMMA SourceListTypes ==
    ASSUME TypeInv, UNCHANGED <<kind, pool>>, NEW m \in Incoming,
           m.to = "on_source_list", on_source_list(m)
    PROVE  /\ ButtonTypes' /\ ConfTypes' /\ PoolTypes' /\ requests' \in Seq(Outgoing)
           /\ crossed' \in BOOLEAN /\ told' \in BOOLEAN
<1> USE ObsActionsAssumption
<1>1. m \in Message /\ Visibility /\ m.scene \in Scenes
  BY IncomingTypes DEF ItemLists
<1>2. /\ kind \in Kinds /\ state \in {"NORMAL", "SELECTED"} /\ conf \in Widgets /\ data \in Data
      /\ requests \in Seq(Outgoing) /\ told \in BOOLEAN /\ crossed \in BOOLEAN
      /\ pool \in [Threads -> {"idle", "lookup", "toggle"}]
      /\ \A t \in Threads : pool[t] # "idle" => data.scene \in Scenes
      /\ conf.listed => kind \in Listing
  BY DEF TypeInv, ButtonTypes, ConfTypes, QueueTypes, PoolTypes, HistoryTypes
<1>3. UNCHANGED <<state, requests, told>> /\ crossed' = (crossed \/ m.stale)
  BY DEF on_source_list, Crossing
<1>4. data' \in Data /\ data'.scene = data.scene
  <2>1. CASE m.selected \in ItemsOf(m.scene)
    <3>1. data' = [data EXCEPT !.source = m.selected, !.scene_item_id = Unknown]
      BY <2>1 DEF on_source_list, source_visibility_changed
    <3>2. m.selected \in Sources
      BY <1>1, <2>1
    <3> QED  BY <1>2, <3>1, <3>2 DEF Data
  <2>2. CASE m.selected \notin ItemsOf(m.scene)
    BY <1>2, <2>2 DEF on_source_list
  <2> QED  BY <2>1, <2>2
<1>5. ConfTypes'
  <2> DEFINE i == IF m.selected \in ItemsOf(m.scene) THEN m.selected ELSE NULL
  <2>1. i \in Sources \cup {NULL}
    BY <1>1
  <2>2. conf' = [conf EXCEPT !.itemsOf = m.scene, !.item = i]
    BY DEF on_source_list
  <2> HIDE DEF i
  <2> QED  BY <1>1, <1>2, <2>1, <2>2 DEF ConfTypes, Widgets, Visibility
<1>6. ButtonTypes' /\ PoolTypes'
  BY <1>1, <1>2, <1>3, <1>4 DEF ButtonTypes, PoolTypes, Visibility
<1> QED  BY <1>1, <1>2, <1>3, <1>4, <1>5, <1>6 DEF Message

\* What the answer to a lookup says of the item of the button.
LEMMA FoundTypes ==
    ASSUME TypeInv, NEW m \in Incoming, m.to \in Lookups, Matches(m)
    PROVE  /\ Found(m) \in Data
           /\ Found(m).scene = data.scene /\ Found(m).source = data.source
           /\ Found(m).text = data.text
           /\ Found(m).scene_item_id = ItemId[m.scene][data.source]
           /\ Found(m).scene_item_id \in Ids
           /\ Found(m).is_visible = m.enabled[data.source] /\ Found(m).is_visible \in BOOLEAN
           /\ data.scene \in Scenes /\ data.source \in ItemsOf(m.scene) /\ m.scene \in Scenes
<1>1. data \in Data /\ m.scene \in Scenes /\ m.enabled \in [ItemsOf(m.scene) -> BOOLEAN]
  BY IncomingTypes DEF TypeInv, ButtonTypes, ItemLists
<1>2. data.scene # NULL /\ data.source \in ItemsOf(m.scene)
  BY DEF Matches
<1>3. ItemId[m.scene][data.source] \in Ids
  <2> DEFINE ids(s) == {ItemId[s][x] : x \in ItemsOf(s)}
  <2>1. ItemId[m.scene][data.source] \in ids(m.scene)
    BY <1>2
  <2>2. Ids = UNION {ids(s) : s \in Scenes}
    BY DEF Ids
  <2> HIDE DEF ids
  <2> QED  BY <1>1, <2>1, <2>2
<1> QED  BY <1>1, <1>2, <1>3 DEF Found, Data

LEMMA LookupTypes ==
    ASSUME TypeInv, UNCHANGED <<kind, pool>>, NEW m \in Incoming, m.to \in Lookups,
           Matches(m), data' = Found(m), told' \in BOOLEAN, state' \in {"NORMAL", "SELECTED"},
           \/ UNCHANGED requests
           \/ Send(obs_ws_set_scene_item_enabled(data.scene, Found(m).scene_item_id,
                                                 ~Found(m).is_visible))
    PROVE  ButtonTypes' /\ PoolTypes' /\ requests' \in Seq(Outgoing)
<1>1. Visibility
  BY IncomingTypes DEF ItemLists
<1>2. ButtonTypes'
  BY <1>1, FoundTypes DEF TypeInv, ButtonTypes, Visibility
<1>3. PoolTypes'
  BY <1>1, FoundTypes DEF TypeInv, PoolTypes, Visibility
<1>4. requests' \in Seq(Outgoing)
  <2> DEFINE r == obs_ws_set_scene_item_enabled(data.scene, Found(m).scene_item_id,
                                                ~Found(m).is_visible)
  <2>1. data.scene \in Scenes /\ Found(m).scene_item_id \in Ids \cup {Unknown}
        /\ (~Found(m).is_visible) \in BOOLEAN
    BY FoundTypes
  <2>2. r \in Outgoing
    BY <1>1, <2>1, RequestMessages
  <2> QED  BY <2>2, SentKept DEF Send, TypeInv, QueueTypes
<1> QED  BY <1>2, <1>3, <1>4

LEMMA HandlesTypes ==
    ASSUME TypeInv, UNCHANGED <<kind, pool>>, NEW m \in Incoming, Handles(m)
    PROVE  /\ ButtonTypes' /\ ConfTypes' /\ PoolTypes' /\ requests' \in Seq(Outgoing)
           /\ crossed' \in BOOLEAN /\ told' \in BOOLEAN
<1>0. /\ crossed \in BOOLEAN /\ told \in BOOLEAN /\ m \in Message
      /\ state \in {"NORMAL", "SELECTED"} /\ connected \in BOOLEAN
      /\ m.late \in BOOLEAN /\ m.stale \in BOOLEAN
  BY DEF TypeInv, HistoryTypes, Incoming, ButtonTypes, ObsTypes, Message
<1>1. CASE Ignored
  BY <1>0, <1>1, GroupsKept DEF Ignored
<1>2. CASE m.to = "event" /\ on_event(m)
  <2>1. /\ ButtonTypes' /\ crossed' = crossed /\ told' \in BOOLEAN
        /\ UNCHANGED <<conf, requests>> /\ UNCHANGED <<data.scene, data.source, data.text>>
    BY <1>2, EventTypesKept
  <2>2. PoolTypes'
    BY <2>1 DEF TypeInv, PoolTypes, Visibility
  <2> QED  BY <1>0, <2>1, <2>2, GroupsKept
<1>3. CASE m.to \in {"on_scene_list", "on_input_list"} /\ on_first_list(m)
  BY <1>3, FirstListTypes
<1>4. CASE m.to = "on_source_list" /\ on_source_list(m)
  BY <1>4, SourceListTypes
<1>5. CASE m.to = "on_scene_item_lookup" /\ on_scene_item_lookup(m) /\ Matches(m)
  <2>1. /\ data' = Found(m) /\ UNCHANGED <<state, conf>>
        /\ Send(obs_ws_set_scene_item_enabled(data.scene, Found(m).scene_item_id,
                                              ~Found(m).is_visible))
        /\ crossed' = (crossed \/ m.stale) /\ told' = (connected /\ ~m.late)
    BY <1>5 DEF on_scene_item_lookup, Crossing
  <2>2. m.to \in Lookups /\ told' \in BOOLEAN /\ crossed' \in BOOLEAN
        /\ state' \in {"NORMAL", "SELECTED"}
    BY <1>0, <1>5, <2>1 DEF Lookups
  <2> QED  BY <1>5, <2>1, <2>2, LookupTypes, GroupsKept
<1>6. CASE m.to = "on_scene_item_list_for_state" /\ on_scene_item_list_for_state(m) /\ Matches(m)
  <2>1. /\ data' = Found(m) /\ UNCHANGED <<requests, conf>>
        /\ state' = StateOf(Found(m).is_visible)
        /\ crossed' = (crossed \/ m.stale) /\ told' = ~m.late
    BY <1>6 DEF on_scene_item_list_for_state, Crossing
  <2>2. m.to \in Lookups /\ told' \in BOOLEAN /\ crossed' \in BOOLEAN
        /\ state' \in {"NORMAL", "SELECTED"}
    BY <1>0, <1>6, <2>1, StateOfTypes DEF Lookups
  <2> QED  BY <1>6, <2>1, <2>2, LookupTypes, GroupsKept
<1> QED  BY <1>1, <1>2, <1>3, <1>4, <1>5, <1>6
            DEF Handles, on_scene_item_lookup, on_scene_item_list_for_state

LEMMA Invoked ==
    ASSUME invoke_callback_idle
    PROVE  /\ inbox # <<>> /\ inbox' = Tail(inbox) /\ Handles(Head(inbox))
           /\ UNCHANGED <<kind, pool, obs, connected, chosen>>
  BY DEF invoke_callback_idle, Handles

LEMMA InvokeTypes ==
    ASSUME TypeInv, invoke_callback_idle
    PROVE  TypeInv'
<1>1. inbox' \in Seq(Incoming) /\ Head(inbox) \in Incoming
  BY Invoked, Lists DEF TypeInv, QueueTypes
<1>2. /\ ButtonTypes' /\ ConfTypes' /\ PoolTypes' /\ requests' \in Seq(Outgoing)
      /\ crossed' \in BOOLEAN /\ told' \in BOOLEAN
  BY <1>1, Invoked, HandlesTypes
<1>3. HistoryTypes'
  BY <1>2, Invoked DEF TypeInv, HistoryTypes
<1> QED  BY <1>1, <1>2, <1>3, Invoked, GroupsKept DEF TypeInv, QueueTypes

(***************************************************************************)
(* What OBS becomes, and what it sends.                                    *)
(***************************************************************************)
LEMMA ChangedObs ==
    ASSUME NEW o \in ObsStates, NEW s \in Scenes, NEW f \in [ItemsOf(s) -> BOOLEAN]
    PROVE  [o EXCEPT !.enabled[s] = f] \in ObsStates
<1> DEFINE e == [o.enabled EXCEPT ![s] = f]
           U == UNION {[ItemsOf(r) -> BOOLEAN] : r \in Scenes}
<1>1. f \in U
  BY Zenon
<1>2. o.enabled \in [Scenes -> U] /\ \A r \in Scenes : o.enabled[r] \in [ItemsOf(r) -> BOOLEAN]
  BY DEF ObsStates, EnabledItems
<1> HIDE DEF U
<1>3. e \in [Scenes -> U] /\ \A r \in Scenes : e[r] \in [ItemsOf(r) -> BOOLEAN]
  BY <1>1, <1>2
<1> HIDE DEF e
<1>4. e \in EnabledItems
  BY <1>3 DEF EnabledItems, U
<1>5. [o EXCEPT !.enabled = e] \in ObsStates
  BY <1>4 DEF ObsStates
<1>6. [o EXCEPT !.enabled[s] = f] = [o EXCEPT !.enabled = e]
  BY DEF e
<1> QED  BY <1>5, <1>6

LEMMA SetSceneTypes ==
    ASSUME TypeInv, kind = "change_scene", NEW s \in Scenes
    PROVE  /\ SetScene(s).obs \in ObsStates /\ SetScene(s).events \in Seq(Incoming)
           /\ SetScene(s).obs.program = s
           /\ \E e \in News : /\ e.type = "CurrentProgramSceneChanged" /\ e.scene = s
                              /\ SetScene(s).events = IF s = obs.program THEN <<>> ELSE <<e>>
<1>1. SetScene(s).obs \in ObsStates /\ SetScene(s).obs.program = s
  BY DEF TypeInv, ObsTypes, SetScene, ObsStates
<1> DEFINE p == Plain("CurrentProgramSceneChanged", "event")
           e == [p EXCEPT !.scene = s]
<1>2. p \in Message /\ p.type = "CurrentProgramSceneChanged" /\ p.to = "event" /\ p.late = FALSE
  <2>1. "CurrentProgramSceneChanged" \in RequestTypes \cup EventTypes /\ "event" \in Callbacks
    BY Words DEF EventTypes
  <2> QED  BY <2>1, PlainMessage
<1> HIDE DEF p
<1>3. /\ e \in Message /\ e.type = "CurrentProgramSceneChanged" /\ e.to = "event"
      /\ e.scene = s /\ e.late = FALSE
  <2>1. e \in Message
    BY <1>2, ChangedMessage
  <2> QED  BY <1>2, <2>1 DEF Message
<1>4. SetScene(s).events = IF s = obs.program THEN <<>> ELSE <<e>>
  BY DEF SetScene, p
<1> HIDE DEF e
<1>5. e \in News
  BY <1>3 DEF News, Incoming, Events
<1>6. <<e>> \in Seq(Incoming)
  BY <1>5 DEF News
<1> QED  BY <1>1, <1>3, <1>4, <1>5, <1>6, Lists

LEMMA ToggleMuteTypes ==
    ASSUME TypeInv, kind = "mute_source", NEW x \in AudioInputs
    PROVE  /\ ToggleMute(x).obs \in ObsStates /\ ToggleMute(x).events \in Seq(Incoming)
           /\ \A y \in AudioInputs : ToggleMute(x).obs.muted[y] =
                                       IF y = x THEN ~obs.muted[x] ELSE obs.muted[y]
           /\ \E e \in News : /\ e.type = "InputMuteStateChanged" /\ e.source = x
                              /\ e.value = ~obs.muted[x] /\ ToggleMute(x).events = <<e>>
<1>1. /\ ToggleMute(x).obs \in ObsStates /\ obs.muted[x] \in BOOLEAN
      /\ \A y \in AudioInputs : ToggleMute(x).obs.muted[y] =
                                  IF y = x THEN ~obs.muted[x] ELSE obs.muted[y]
  BY DEF TypeInv, ObsTypes, ToggleMute, ObsStates
<1> DEFINE p == Plain("InputMuteStateChanged", "event")
           v == ~obs.muted[x]
           e == [p EXCEPT !.source = x, !.value = v]
<1>2. p \in Message /\ p.type = "InputMuteStateChanged" /\ p.to = "event" /\ p.late = FALSE
  <2>1. "InputMuteStateChanged" \in RequestTypes \cup EventTypes /\ "event" \in Callbacks
    BY Words DEF EventTypes
  <2> QED  BY <2>1, PlainMessage
<1>3. ToggleMute(x).events = <<e>>
  BY DEF ToggleMute
<1>4. v \in BOOLEAN /\ x \in Sources
  BY <1>1, ObsActionsAssumption
<1> HIDE DEF p, v
<1>5. /\ e \in Message /\ e.type = "InputMuteStateChanged" /\ e.to = "event"
      /\ e.source = x /\ e.value = v /\ e.late = FALSE
  <2>1. e \in Message
    BY <1>2, <1>4, ChangedMessage
  <2> QED  BY <1>2, <2>1 DEF Message
<1> HIDE DEF e
<1>6. e \in News
  BY <1>5 DEF News, Incoming, Events
<1>7. <<e>> \in Seq(Incoming)
  BY <1>6 DEF News
<1> QED  BY <1>1, <1>3, <1>5, <1>6, <1>7 DEF v

LEMMA ToggleRecordTypes ==
    ASSUME TypeInv, kind = "toggle_recording"
    PROVE  /\ ToggleRecord.obs \in ObsStates /\ ToggleRecord.events \in Seq(Incoming)
           /\ ToggleRecord.obs.recording = ~obs.recording
           /\ \E d, e \in News :
                /\ d.type \in {"OBS_WEBSOCKET_OUTPUT_STARTING", "OBS_WEBSOCKET_OUTPUT_STOPPING"}
                /\ e.type = IF obs.recording THEN "OBS_WEBSOCKET_OUTPUT_STOPPED"
                                             ELSE "OBS_WEBSOCKET_OUTPUT_STARTED"
                /\ ToggleRecord.events = <<d, e>>
<1>1. ToggleRecord.obs \in ObsStates /\ ToggleRecord.obs.recording = ~obs.recording
  BY DEF TypeInv, ObsTypes, ToggleRecord, ObsStates
<1>2. \A type \in {"OBS_WEBSOCKET_OUTPUT_STARTING", "OBS_WEBSOCKET_OUTPUT_STARTED",
                   "OBS_WEBSOCKET_OUTPUT_STOPPING", "OBS_WEBSOCKET_OUTPUT_STOPPED"} :
        Plain(type, "event") \in News /\ Plain(type, "event").type = type
  <2> TAKE type \in {"OBS_WEBSOCKET_OUTPUT_STARTING", "OBS_WEBSOCKET_OUTPUT_STARTED",
                     "OBS_WEBSOCKET_OUTPUT_STOPPING", "OBS_WEBSOCKET_OUTPUT_STOPPED"}
  <2>1. type \in RequestTypes \cup EventTypes /\ "event" \in Callbacks
    BY Words DEF EventTypes
  <2>2. Plain(type, "event") \in Message /\ Plain(type, "event").type = type
        /\ Plain(type, "event").to = "event" /\ Plain(type, "event").late = FALSE
    BY <2>1, PlainMessage
  <2> QED  BY <2>2 DEF News, Incoming, Events
<1>3. \A d, e \in News : <<d, e>> \in Seq(Incoming)
  BY DEF News
<1>4. \E d, e \in News :
        /\ d.type \in {"OBS_WEBSOCKET_OUTPUT_STARTING", "OBS_WEBSOCKET_OUTPUT_STOPPING"}
        /\ e.type = IF obs.recording THEN "OBS_WEBSOCKET_OUTPUT_STOPPED"
                                     ELSE "OBS_WEBSOCKET_OUTPUT_STARTED"
        /\ ToggleRecord.events = <<d, e>>
  <2>1. CASE obs.recording
    <3>1. ToggleRecord.events = <<Plain("OBS_WEBSOCKET_OUTPUT_STOPPING", "event"),
                                  Plain("OBS_WEBSOCKET_OUTPUT_STOPPED", "event")>>
      BY <2>1 DEF ToggleRecord
    <3> QED  BY <1>2, <2>1, <3>1
  <2>2. CASE ~obs.recording
    <3>1. ToggleRecord.events = <<Plain("OBS_WEBSOCKET_OUTPUT_STARTING", "event"),
                                  Plain("OBS_WEBSOCKET_OUTPUT_STARTED", "event")>>
      BY <2>2 DEF ToggleRecord
    <3> QED  BY <1>2, <2>2, <3>1
  <2> QED  BY <2>1, <2>2
<1> QED  BY <1>1, <1>3, <1>4

LEMMA ItemIds ==
    ASSUME NEW s \in Scenes, NEW x \in ItemsOf(s)
    PROVE  ItemId[s][x] \in Ids /\ ItemId[s][x] # Unknown
<1> DEFINE ids(r) == {ItemId[r][y] : y \in ItemsOf(r)}
<1>1. ItemId[s][x] \in ids(s)
  OBVIOUS
<1>2. Ids = UNION {ids(r) : r \in Scenes}
  BY DEF Ids
<1>3. ItemId[s][x] # Unknown
  BY ObsActionsAssumption DEF Unknown
<1> HIDE DEF ids
<1> QED  BY <1>1, <1>2, <1>3

LEMMA IdsKnown == Unknown \notin Ids
<1> DEFINE ids(r) == {ItemId[r][y] : y \in ItemsOf(r)}
<1>1. Ids = UNION {ids(r) : r \in Scenes}
  BY DEF Ids
<1>2. ASSUME NEW r \in Scenes PROVE Unknown \notin ids(r)
  BY ItemIds
<1> HIDE DEF ids
<1> QED  BY <1>1, <1>2

LEMMA SetEnabledTypes ==
    ASSUME TypeInv, Visibility, NEW s \in Scenes, NEW id \in Ids \cup {Unknown}, NEW on \in BOOLEAN
    PROVE  /\ SetEnabled(s, id, on).obs \in ObsStates
           /\ SetEnabled(s, id, on).events \in Seq(Incoming)
           /\ \A r \in Scenes : \A x \in ItemsOf(r) :
                SetEnabled(s, id, on).obs.enabled[r][x] =
                  IF r = s /\ ItemId[r][x] = id THEN on ELSE obs.enabled[r][x]
           /\ \/ /\ SetEnabled(s, id, on).events = <<>>
                 /\ \A x \in ItemsOf(s) : ItemId[s][x] = id => obs.enabled[s][x] = on
              \/ \E e \in News : /\ e.type = "SceneItemEnableStateChanged" /\ e.scene = s
                                 /\ e.id = id /\ e.value = on
                                 /\ SetEnabled(s, id, on).events = <<e>>
<1> DEFINE items == {x \in ItemsOf(s) : ItemId[s][x] = id /\ obs.enabled[s][x] # on}
           f == [x \in ItemsOf(s) |-> IF x \in items THEN on ELSE obs.enabled[s][x]]
           p == Plain("SceneItemEnableStateChanged", "event")
           e == [p EXCEPT !.scene = s, !.id = id, !.value = on]
<1>0. obs \in ObsStates /\ \A r \in Scenes : obs.enabled[r] \in [ItemsOf(r) -> BOOLEAN]
  BY DEF TypeInv, ObsTypes, ObsStates, EnabledItems
<1>1. CASE items = {}
  <2>1. SetEnabled(s, id, on) = NoChange
    BY <1>1 DEF SetEnabled
  <2>2. NoChange.obs = obs /\ NoChange.events = <<>>
    BY DEF NoChange
  <2>3. \A x \in ItemsOf(s) : ItemId[s][x] = id => obs.enabled[s][x] = on
    BY <1>1
  <2> QED  BY <1>0, <2>1, <2>2, <2>3, Lists
<1>2. CASE items # {}
  <2>1. SetEnabled(s, id, on) = [obs |-> [obs EXCEPT !.enabled[s] = f], events |-> <<e>>]
    BY <1>0, <1>2 DEF SetEnabled, ObsStates, EnabledItems
  <2>2. f \in [ItemsOf(s) -> BOOLEAN]
    BY <1>0
  <2>3. \A x \in ItemsOf(s) : f[x] = IF ItemId[s][x] = id THEN on ELSE obs.enabled[s][x]
    BY <1>0
  <2>4. p \in Message /\ p.type = "SceneItemEnableStateChanged" /\ p.to = "event"
        /\ p.late = FALSE
    <3>1. "SceneItemEnableStateChanged" \in RequestTypes \cup EventTypes /\ "event" \in Callbacks
      BY Words DEF EventTypes
    <3> QED  BY <3>1, PlainMessage
  <2> HIDE DEF p, f
  <2>5. /\ e \in Message /\ e.type = "SceneItemEnableStateChanged" /\ e.to = "event"
        /\ e.late = FALSE /\ e.scene = s /\ e.id = id /\ e.value = on
    <3>1. e \in Message
      BY <2>4, ChangedMessage
    <3> QED  BY <2>4, <3>1 DEF Message
  <2> HIDE DEF e
  <2>6. id \in Ids
    <3>1. PICK x \in ItemsOf(s) : ItemId[s][x] = id
      BY <1>2
    <3> QED  BY <3>1, ItemIds
  <2>7. e \in News
    BY <2>5, <2>6 DEF News, Incoming, Events
  <2> DEFINE new == [obs EXCEPT !.enabled[s] = f]
  <2>8. new \in ObsStates
    BY <1>0, <2>2, ChangedObs
  <2>9. \A r \in Scenes : new.enabled[r] = IF r = s THEN f ELSE obs.enabled[r]
    BY <1>0 DEF ObsStates, EnabledItems
  <2>10. <<e>> \in Seq(Incoming)
    BY <2>7 DEF News
  <2> HIDE DEF new, items
  <2>11. \A r \in Scenes : \A x \in ItemsOf(r) :
            new.enabled[r][x] = IF r = s /\ ItemId[r][x] = id THEN on ELSE obs.enabled[r][x]
    BY <2>3, <2>9
  <2>12. SetEnabled(s, id, on).obs = new /\ SetEnabled(s, id, on).events = <<e>>
    BY <2>1 DEF new
  <2> QED  BY <2>5, <2>7, <2>8, <2>10, <2>11, <2>12
<1> QED  BY <1>1, <1>2

LEMMA AnswersTypes ==
    ASSUME TypeInv, NEW r \in Outgoing
    PROVE  /\ Answers(r) \in Seq(Incoming)
           /\ r.to # "none" => \E a \in Incoming :
                /\ Answers(r) = <<a>>
                /\ a.to = r.to /\ a.scene = r.scene /\ a.source = r.source
                /\ a.selected = r.selected /\ a.stale = r.stale /\ a.late = FALSE
                /\ r.to \in ItemLists => a.enabled = obs.enabled[r.scene]
<1>0. r \in Message /\ r.late = FALSE /\ (Asks(r) \/ Orders(r))
  BY DEF Outgoing, Message
<1>1. CASE r.to = "none"
  <2>1. r.type # "GetSceneItemList"
    BY <1>0, <1>1 DEF Asks, Orders, ItemLists, Lookups
  <2>2. Answers(r) = <<>>
    BY <1>1, <2>1 DEF Answers
  <2> QED  BY <1>1, <2>2, Lists
<1>2. CASE r.to # "none" /\ r.type = "GetSceneItemList"
  <2> DEFINE f == obs.enabled[r.scene]
             a == [r EXCEPT !.enabled = f]
  <2>1. Asks(r) /\ r.to \in ItemLists /\ r.scene \in Scenes
    BY <1>0, <1>2 DEF Asks, Orders
  <2>2. f \in [ItemsOf(r.scene) -> BOOLEAN]
    BY <2>1 DEF TypeInv, ObsTypes, ObsStates, EnabledItems
  <2>3. Answers(r) = <<a>>
    BY <1>2 DEF Answers
  <2>4. f \in ItemStates
    <3> HIDE DEF f
    <3> QED  BY <2>1, <2>2, Zenon DEF ItemStates
  <2> HIDE DEF f
  <2>5. /\ a \in Message /\ a.to = r.to /\ a.type = r.type /\ a.scene = r.scene
        /\ a.source = r.source /\ a.selected = r.selected /\ a.stale = r.stale
        /\ a.late = FALSE /\ a.enabled = f
    BY <1>0, <2>4 DEF Message
  <2> HIDE DEF a
  <2>6. a \in Incoming
    BY <2>1, <2>2, <2>5 DEF Incoming, Asks, Listed
  <2>7. <<a>> \in Seq(Incoming)
    BY <2>6
  <2> QED  BY <2>3, <2>5, <2>6, <2>7 DEF f
<1>3. CASE r.to # "none" /\ r.type # "GetSceneItemList"
  <2>1. Asks(r) /\ r.to \notin ItemLists
    BY <1>0, <1>3 DEF Asks, Orders, ItemLists, Lookups
  <2>2. Answers(r) = <<r>> /\ r \in Incoming
    BY <1>0, <1>3, <2>1 DEF Answers, Incoming, Listed
  <2>3. <<r>> \in Seq(Incoming)
    BY <2>2
  <2> QED  BY <1>0, <2>1, <2>2, <2>3
<1> QED  BY <1>1, <1>2, <1>3

LEMMA OutcomeIs ==
    ASSUME TypeInv, NEW r \in Outgoing
    PROVE  \/ /\ kind = "change_scene" /\ r.scene \in Scenes /\ r.to = "none"
              /\ Outcome(r) = SetScene(r.scene)
           \/ /\ kind = "mute_source" /\ r.source \in AudioInputs /\ r.to = "none"
              /\ Outcome(r) = ToggleMute(r.source)
           \/ /\ kind = "toggle_recording" /\ r.to = "none"
              /\ Outcome(r) = ToggleRecord
           \/ /\ Visibility /\ r.scene \in Scenes /\ r.id \in Ids \cup {Unknown}
              /\ r.value \in BOOLEAN /\ r.to = "none" /\ r.type = "SetSceneItemEnabled"
              /\ Outcome(r) = SetEnabled(r.scene, r.id, r.value)
           \/ r.type # "SetSceneItemEnabled" /\ Outcome(r) = NoChange
<1>0. r \in Message /\ (Asks(r) \/ Orders(r))
  BY DEF Outgoing
<1>1. CASE Asks(r)
  <2>1. r.type \in {"GetSceneList", "GetInputList", "GetSceneItemList"}
    BY <1>1 DEF Asks
  <2>2. Outcome(r) = NoChange
    BY <2>1 DEF Outcome
  <2> QED  BY <2>1, <2>2
<1>2. CASE kind = "change_scene" /\ r.to = "none" /\ r.type = "SetCurrentProgramScene" /\ r.scene \in Scenes
  BY <1>2 DEF Outcome
<1>3. CASE kind = "mute_source" /\ r.to = "none" /\ r.type = "ToggleInputMute"
  BY <1>3 DEF Outcome
<1>4. CASE kind = "toggle_recording" /\ r.to = "none" /\ r.type = "ToggleRecord"
  BY <1>4 DEF Outcome
<1>5. CASE Visibility /\ r.to = "none" /\ r.type = "SetSceneItemEnabled" /\ r.scene \in Scenes
  <2>1. r.id \in Ids \cup {Unknown} /\ r.value \in BOOLEAN
    BY <1>0 DEF Message
  <2> QED  BY <1>5, <2>1 DEF Outcome
<1>6. CASE r.type \in {"SetRecordChapterMarker", "SaveSourceScreenshot"}
  BY <1>6 DEF Outcome
<1> QED  BY <1>0, <1>1, <1>2, <1>3, <1>4, <1>5, <1>6 DEF Orders

LEMMA OutcomeTypes ==
    ASSUME TypeInv, NEW r \in Outgoing
    PROVE  Outcome(r).obs \in ObsStates /\ Outcome(r).events \in Seq(Incoming)
<1>1. NoChange.obs \in ObsStates /\ NoChange.events \in Seq(Incoming)
  BY Lists DEF NoChange, TypeInv, ObsTypes
<1> QED  BY <1>1, OutcomeIs, SetSceneTypes, ToggleMuteTypes, ToggleRecordTypes, SetEnabledTypes

LEMMA PeerReadsTypes ==
    ASSUME TypeInv, PeerReads
    PROVE  TypeInv'
<1>1. /\ UNCHANGED <<kind, data, state, conf, pool, connected, chosen, crossed, told>>
      /\ requests # <<>> /\ requests' = Tail(requests)
      /\ obs' = Outcome(Head(requests)).obs
      /\ inbox' = inbox \o Outcome(Head(requests)).events \o Answers(Head(requests))
  BY DEF PeerReads, history
<1>2. requests' \in Seq(Outgoing) /\ Head(requests) \in Outgoing
  BY <1>1, Lists DEF TypeInv, QueueTypes
<1>3. inbox' \in Seq(Incoming)
  <2> DEFINE e == Outcome(Head(requests)).events
             a == Answers(Head(requests))
  <2>1. inbox \in Seq(Incoming) /\ e \in Seq(Incoming) /\ a \in Seq(Incoming)
    BY <1>2, OutcomeTypes, AnswersTypes DEF TypeInv, QueueTypes
  <2>2. inbox' = (inbox \o e) \o a
    BY <1>1
  <2> HIDE DEF e, a
  <2> QED  BY <2>1, <2>2, Lists
<1>4. ObsTypes'
  BY <1>1, <1>2, OutcomeTypes, GroupsKept DEF TypeInv, ObsTypes, ObsStates, EnabledItems
<1> QED  BY <1>1, <1>2, <1>3, <1>4, GroupsKept DEF TypeInv, QueueTypes

\* A change is what OBS becomes and the events it sends.
LEMMA ChangeIs ==
    ASSUME TypeInv, PeerChanges
    PROVE  /\ UNCHANGED <<kind, data, state, conf, pool, connected, requests, chosen, crossed, told>>
           /\ \E change :
                /\ \/ kind = "change_scene" /\ \E s \in Scenes : change = SetScene(s)
                   \/ kind = "mute_source" /\ \E x \in AudioInputs : change = ToggleMute(x)
                   \/ kind = "toggle_recording" /\ change = ToggleRecord
                   \/ Visibility /\ \E s \in Scenes, id \in Ids, on \in BOOLEAN :
                                       change = SetEnabled(s, id, on)
                /\ obs' = change.obs
                /\ inbox' = IF connected THEN inbox \o change.events ELSE inbox
<1>1. UNCHANGED <<kind, data, state, conf, pool, connected, requests, chosen, crossed, told>>
  BY DEF PeerChanges, history
<1>2. ASSUME kind = "change_scene", NEW s \in Scenes, Happens(SetScene(s))
      PROVE  \E change : /\ \E r \in Scenes : change = SetScene(r)
                         /\ obs' = change.obs
                         /\ inbox' = IF connected THEN inbox \o change.events ELSE inbox
  BY <1>2 DEF Happens
<1>3. ASSUME kind = "mute_source", NEW x \in AudioInputs, Happens(ToggleMute(x))
      PROVE  \E change : /\ \E y \in AudioInputs : change = ToggleMute(y)
                         /\ obs' = change.obs
                         /\ inbox' = IF connected THEN inbox \o change.events ELSE inbox
  BY <1>3 DEF Happens
<1>4. ASSUME Visibility, NEW s \in Scenes, NEW x \in ItemsOf(s),
             Happens(SetEnabled(s, ItemId[s][x], ~obs.enabled[s][x]))
      PROVE  \E change : /\ \E r \in Scenes, id \in Ids, on \in BOOLEAN :
                               change = SetEnabled(r, id, on)
                         /\ obs' = change.obs
                         /\ inbox' = IF connected THEN inbox \o change.events ELSE inbox
  <2>1. ItemId[s][x] \in Ids
    BY ItemIds
  <2>2. (~obs.enabled[s][x]) \in BOOLEAN
    OBVIOUS
  <2> DEFINE id == ItemId[s][x]
             on == ~obs.enabled[s][x]
  <2>3. Happens(SetEnabled(s, id, on)) /\ id \in Ids /\ on \in BOOLEAN
    BY <1>4, <2>1, <2>2
  <2> HIDE DEF id, on
  <2> QED  BY <2>3 DEF Happens
<1>5. ASSUME Happens(ToggleRecord)
      PROVE  \E change : /\ change = ToggleRecord
                         /\ obs' = change.obs
                         /\ inbox' = IF connected THEN inbox \o change.events ELSE inbox
  BY <1>5 DEF Happens
<1> QED  BY <1>1, <1>2, <1>3, <1>4, <1>5 DEF PeerChanges, Visibility

LEMMA PeerChangesTypes ==
    ASSUME TypeInv, PeerChanges
    PROVE  TypeInv'
<1>1. UNCHANGED <<kind, data, state, conf, pool, connected, requests, chosen, crossed, told>>
  BY ChangeIs
<1>2. PICK change :
        /\ \/ kind = "change_scene" /\ \E s \in Scenes : change = SetScene(s)
           \/ kind = "mute_source" /\ \E x \in AudioInputs : change = ToggleMute(x)
           \/ kind = "toggle_recording" /\ change = ToggleRecord
           \/ Visibility /\ \E s \in Scenes, id \in Ids, on \in BOOLEAN :
                               change = SetEnabled(s, id, on)
        /\ obs' = change.obs
        /\ inbox' = IF connected THEN inbox \o change.events ELSE inbox
  BY ChangeIs
<1>3. change.obs \in ObsStates /\ change.events \in Seq(Incoming)
  BY <1>2, SetSceneTypes, ToggleMuteTypes, ToggleRecordTypes, SetEnabledTypes
<1>4. inbox' \in Seq(Incoming)
  BY <1>2, <1>3, Lists DEF TypeInv, QueueTypes
<1>5. ObsTypes'
  BY <1>1, <1>2, <1>3 DEF TypeInv, ObsTypes, ObsStates, EnabledItems
<1> QED  BY <1>1, <1>4, <1>5, GroupsKept DEF TypeInv, QueueTypes

LEMMA DisconnectTypes ==
    ASSUME TypeInv, Disconnect
    PROVE  TypeInv'
<1>1. /\ UNCHANGED <<kind, data, state, conf, pool, obs, chosen, crossed>>
      /\ connected' = FALSE /\ requests' = <<>> /\ told' = FALSE
  BY DEF Disconnect
<1>2. PICK n \in 0 .. Len(inbox) : inbox' = [i \in 1 .. n |-> [inbox[i] EXCEPT !.late = TRUE]]
  BY DEF Disconnect
<1>3. inbox' \in Seq(Incoming)
  <2>1. inbox \in Seq(Incoming) /\ Len(inbox) \in Nat
    BY DEF TypeInv, QueueTypes
  <2>2. ASSUME NEW i \in 1 .. n PROVE [inbox[i] EXCEPT !.late = TRUE] \in Incoming
    <3> DEFINE m == inbox[i]
               l == [m EXCEPT !.late = TRUE]
    <3>1. m \in Incoming
      BY <2>1
    <3>2. /\ l \in Message /\ l.type = m.type /\ l.to = m.to /\ l.scene = m.scene
          /\ l.enabled = m.enabled /\ l.source = m.source /\ l.id = m.id
      BY <3>1 DEF Incoming, Message
    <3> HIDE DEF l
    <3>3. l \in Incoming
      BY <3>1, <3>2 DEF Incoming, Asks, Events, Listed
    <3> QED  BY <3>3 DEF l
  <2>3. inbox' \in [1 .. n -> Incoming] /\ n \in Nat
    BY <1>2, <2>1, <2>2
  <2> QED  BY <2>3, ListOf
<1>4. ObsTypes' /\ HistoryTypes'
  BY <1>1 DEF TypeInv, ObsTypes, HistoryTypes, ObsStates, EnabledItems
<1> QED  BY <1>1, <1>3, <1>4, Lists, GroupsKept DEF TypeInv, QueueTypes

LEMMA ConnectedTypes ==
    ASSUME TypeInv, on_ws_connected
    PROVE  TypeInv'
<1>1. /\ UNCHANGED <<kind, data, state, conf, pool, obs, requests, inbox, chosen, crossed, told>>
      /\ connected' = TRUE
  BY DEF on_ws_connected, history
<1>2. ObsTypes'
  BY <1>1 DEF TypeInv, ObsTypes, ObsStates, EnabledItems
<1> QED  BY <1>1, <1>2, GroupsKept DEF TypeInv, QueueTypes

LEMMA LoadTypes ==
    ASSUME TypeInv, load
    PROVE  TypeInv'
<1> DEFINE r == obs_ws_get_scene_item_list(data'.scene, "on_scene_item_list_for_state", NULL)
<1>1. /\ UNCHANGED <<kind, obs, chosen, crossed>>
      /\ data' = Saved /\ state' = "NORMAL" /\ conf' = NoWidgets
      /\ pool' = [t \in Threads |-> "idle"] /\ inbox' = <<>> /\ told' = FALSE
      /\ connected' \in BOOLEAN
      /\ requests' = <<>> \/ (requests' = <<r>> /\ kind = "toggle_source_visibility"
                              /\ connected' /\ data'.scene # NULL)
  BY DEF load
<1>2. /\ data' \in Data /\ data'.scene_item_id = Unknown /\ data'.source = data.source
      /\ data'.scene \in Scenes \cup {NULL}
  BY <1>1 DEF TypeInv, ButtonTypes, Data, Saved, NoData
<1>3. ButtonTypes'
  BY <1>1, <1>2 DEF TypeInv, ButtonTypes, Visibility
<1>4. ConfTypes' /\ PoolTypes'
  BY <1>1 DEF ConfTypes, PoolTypes, NoWidgets, Widgets
<1>5. requests' \in Seq(Outgoing)
  <2>1. CASE requests' = <<>>
    BY <2>1, Lists
  <2>2. CASE requests' = <<r>> /\ Visibility /\ data'.scene \in Scenes
    <3>1. r \in Outgoing
      BY <2>2, RequestMessages DEF ItemLists, Lookups
    <3> QED  BY <2>2, <3>1, Lists
  <2> QED  BY <1>1, <1>2, <2>1, <2>2 DEF Visibility
<1>6. ObsTypes' /\ HistoryTypes'
  BY <1>1 DEF TypeInv, ObsTypes, HistoryTypes, ObsStates, EnabledItems
<1>7. inbox' \in Seq(Incoming)
  BY <1>1, Lists
<1> QED  BY <1>1, <1>3, <1>4, <1>5, <1>6, <1>7, GroupsKept DEF TypeInv, QueueTypes

LEMMA NextTypes == TypeInv /\ [Next]_obsVars => TypeInv'
<1> SUFFICES ASSUME TypeInv, [Next]_obsVars PROVE TypeInv'
  OBVIOUS
<1>1. CASE UNCHANGED obsVars
  BY <1>1, GroupsKept DEF obsVars, TypeInv, QueueTypes
<1> QED  BY <1>1, PressTypes, SendFoundTypes, ConfigTypes, DeselectTypes, ChooseFirstTypes,
            ChooseSourceTypes, EnterTextTypes, InvokeTypes, PeerReadsTypes, PeerChangesTypes,
            DisconnectTypes, ConnectedTypes, LoadTypes
         DEF Next, chapter_name_changed, on_file_set
-----------------------------------------------------------------------------
(***************************************************************************)
(* What the user chose.  A message that was asked for with what the button *)
(* has by now changes nothing of it, and one that was not has been made    *)
(* stale by the choice that came in between: Fresh.  That no request is on *)
(* its way without a session is part of it, because a choice without one   *)
(* leaves the requests as they are.                                        *)
(***************************************************************************)
Meant(m) ==
    /\ m.to = "on_scene_list" => m.selected = data.scene
    /\ m.to = "on_input_list" => m.selected = data.source
    /\ m.to \in ItemLists => m.scene = data.scene
    /\ m.to = "on_source_list" => m.selected = data.source
Fresh == {m \in Message : m.stale \/ Meant(m)}

SessionInv == ~connected => requests = <<>>
MeantInv == ~crossed => requests \in Seq(Fresh) /\ inbox \in Seq(Fresh)
ChoiceInv == SessionInv /\ MeantInv /\ ChoiceIsKept /\ ItemIsOfSource

LEMMA FreshAges == Ages(Fresh)
<1> SUFFICES ASSUME NEW m \in Fresh, NEW b \in BOOLEAN
             PROVE  /\ [m EXCEPT !.gone = b] \in Fresh
                    /\ (m.stale => b) => [m EXCEPT !.stale = b] \in Fresh
  BY DEF Ages, Fresh
<1>1. m \in Message /\ (m.stale \/ Meant(m)) /\ m.stale \in BOOLEAN
  BY DEF Fresh, Message
<1> DEFINE g == [m EXCEPT !.gone = b]
           s == [m EXCEPT !.stale = b]
<1>2. /\ g \in Message /\ g.to = m.to /\ g.scene = m.scene /\ g.selected = m.selected
      /\ g.stale = m.stale
  BY <1>1 DEF Message
<1>3. /\ s \in Message /\ s.to = m.to /\ s.scene = m.scene /\ s.selected = m.selected
      /\ s.stale = b
  BY <1>1 DEF Message
<1> HIDE DEF g, s
<1>4. g \in Fresh /\ ((m.stale => b) => s \in Fresh)
  BY <1>1, <1>2, <1>3 DEF Fresh, Meant
<1> QED  BY <1>4 DEF g, s

LEMMA FreshKept ==
    ASSUME UNCHANGED <<data.scene, data.source>>
    PROVE  Fresh' = Fresh
  BY DEF Fresh, Meant

\* A choice of the user makes what was asked for stale, so that it is fresh
\* whatever he chose.
LEMMA ChoiceMakesFresh ==
    ASSUME NEW q \in Seq(Message)
    PROVE  Stale(q) \in Seq(Fresh')
<1> DEFINE f(i) == [q[i] EXCEPT !.stale = @ \/ q[i].to \notin {"none", "event"}]
<1>1. Len(q) \in Nat /\ DOMAIN q = 1 .. Len(q) /\ Stale(q) = [i \in 1 .. Len(q) |-> f(i)]
  BY DEF Stale
<1>2. ASSUME NEW i \in 1 .. Len(q) PROVE f(i) \in Fresh'
  <2> DEFINE m == q[i]
             b == m.stale \/ m.to \notin {"none", "event"}
             s == [m EXCEPT !.stale = b]
  <2>0. m \in Message
    BY <1>1
  <2> HIDE DEF m
  <2>1. m \in Message /\ b \in BOOLEAN
    BY <2>0 DEF Message
  <2>2. s \in Message /\ s.to = m.to /\ s.stale = b
    BY <2>1 DEF Message
  <2> HIDE DEF s
  <2>3. s \in Fresh'
    BY <2>1, <2>2 DEF Fresh, Meant, ItemLists, Lookups
  <2> QED  BY <2>3 DEF s, m
<1> HIDE DEF f
<1>3. Stale(q) \in [1 .. Len(q) -> Fresh']
  BY <1>1, <1>2
<1> QED  BY <1>1, <1>3, ListOf

\* What the requests carry.
LEMMA RequestFields ==
    /\ \A l : /\ obs_ws_get_scenes(l).to = "on_scene_list" /\ obs_ws_get_scenes(l).selected = l
              /\ obs_ws_get_input_list(l).to = "on_input_list"
              /\ obs_ws_get_input_list(l).selected = l
    /\ \A s, to, l : /\ obs_ws_get_scene_item_list(s, to, l).to = to
                     /\ obs_ws_get_scene_item_list(s, to, l).scene = s
                     /\ obs_ws_get_scene_item_list(s, to, l).selected = l
    /\ \A s : obs_ws_set_current_scene(s).to = "none"
    /\ \A x : obs_ws_toggle_input_mute(x).to = "none"
    /\ \A s, i, v : /\ obs_ws_set_scene_item_enabled(s, i, v).to = "none"
                    /\ obs_ws_set_scene_item_enabled(s, i, v).type = "SetSceneItemEnabled"
                    /\ obs_ws_set_scene_item_enabled(s, i, v).scene = s
                    /\ obs_ws_set_scene_item_enabled(s, i, v).id = i
                    /\ obs_ws_set_scene_item_enabled(s, i, v).value = v
    /\ obs_ws_toggle_record.to = "none"
    /\ obs_ws_set_record_chapter_marker.to = "none"
    /\ obs_ws_save_source_screenshot.to = "none"
<1>1. \A l : /\ obs_ws_get_scenes(l).to = "on_scene_list" /\ obs_ws_get_scenes(l).selected = l
             /\ obs_ws_get_input_list(l).to = "on_input_list"
             /\ obs_ws_get_input_list(l).selected = l
  BY DEF obs_ws_get_scenes, obs_ws_get_input_list, Plain
<1>2. \A s, to, l : /\ obs_ws_get_scene_item_list(s, to, l).to = to
                    /\ obs_ws_get_scene_item_list(s, to, l).scene = s
                    /\ obs_ws_get_scene_item_list(s, to, l).selected = l
  BY DEF obs_ws_get_scene_item_list, Plain
<1>3. /\ \A s : obs_ws_set_current_scene(s).to = "none"
      /\ \A x : obs_ws_toggle_input_mute(x).to = "none"
  BY DEF obs_ws_set_current_scene, obs_ws_toggle_input_mute, Plain
<1>4. \A s, i, v : /\ obs_ws_set_scene_item_enabled(s, i, v).to = "none"
                   /\ obs_ws_set_scene_item_enabled(s, i, v).type = "SetSceneItemEnabled"
                   /\ obs_ws_set_scene_item_enabled(s, i, v).scene = s
                   /\ obs_ws_set_scene_item_enabled(s, i, v).id = i
                   /\ obs_ws_set_scene_item_enabled(s, i, v).value = v
  BY DEF obs_ws_set_scene_item_enabled, Plain
<1>5. /\ obs_ws_toggle_record.to = "none"
      /\ obs_ws_set_record_chapter_marker.to = "none"
      /\ obs_ws_save_source_screenshot.to = "none"
  BY DEF obs_ws_toggle_record, obs_ws_set_record_chapter_marker,
         obs_ws_save_source_screenshot, Plain
<1> QED  BY <1>1, <1>2, <1>3, <1>4, <1>5

LEMMA MeantRequests ==
    ASSUME NEW m \in Message, m.to \in {"none", "event"} \/ Meant(m)
    PROVE  m \in Fresh
  BY DEF Fresh, Meant, ItemLists, Lookups

\* A press sends an order or nothing.
LEMMA PressIs ==
    ASSUME TypeInv, NEW t \in Threads, obs_plugin_exec(t)
    PROVE  /\ UNCHANGED <<kind, data, state, conf, obs, connected, inbox, chosen, crossed, told>>
           /\ \/ UNCHANGED requests
              \/ \E r \in Outgoing : r.to = "none" /\ requests' = Sent(requests, r)
<1> USE ObsActionsAssumption
<1>0. /\ data \in Data /\ (kind = "mute_source" => data.source \in AudioInputs \cup {NULL})
  BY DEF TypeInv, ButtonTypes
<1>1. UNCHANGED <<kind, data, state, conf, obs, connected, inbox, chosen, crossed, told>>
  BY DEF obs_plugin_exec, change_scene_exec, mute_source_exec, toggle_recording_exec,
         chapter_marker_exec, screenshot_exec, toggle_source_visibility_exec, Requests,
         Pressed, history
<1>2. CASE UNCHANGED requests
  BY <1>1, <1>2
<1>3. CASE change_scene_exec(t) /\ requests' # requests
  <2> DEFINE r == obs_ws_set_current_scene(data.scene)
  <2>1. r \in Outgoing /\ r.to = "none"
    BY <1>0, <1>3, RequestMessages, RequestFields DEF change_scene_exec, Requests, Data
  <2> QED  BY <1>1, <1>3, <2>1 DEF change_scene_exec, Requests, Send
<1>4. CASE mute_source_exec(t) /\ requests' # requests
  <2> DEFINE r == obs_ws_toggle_input_mute(data.source)
  <2>1. r \in Outgoing /\ r.to = "none"
    BY <1>0, <1>4, RequestMessages, RequestFields DEF mute_source_exec, Requests, Data
  <2> QED  BY <1>1, <1>4, <2>1 DEF mute_source_exec, Requests, Send
<1>5. CASE toggle_recording_exec(t) /\ requests' # requests
  BY <1>1, <1>5, RequestMessages, RequestFields DEF toggle_recording_exec, Requests, Send
<1>6. CASE chapter_marker_exec(t) /\ requests' # requests
  BY <1>1, <1>6, RequestMessages, RequestFields DEF chapter_marker_exec, Requests, Send
<1>7. CASE screenshot_exec(t) /\ requests' # requests
  BY <1>1, <1>7, RequestMessages, RequestFields DEF screenshot_exec, Requests, Send
<1>8. CASE toggle_source_visibility_exec(t)
  BY <1>2, <1>8 DEF toggle_source_visibility_exec
<1> QED  BY <1>2, <1>3, <1>4, <1>5, <1>6, <1>7, <1>8 DEF obs_plugin_exec

\* What is kept when the choice of the user and what OBS said of it are.
LEMMA ChoiceKept ==
    ASSUME TypeInv, ChoiceInv, UNCHANGED <<chosen, crossed>>,
           UNCHANGED <<data.scene, data.source, data.text, data.scene_item_id>>
    PROVE  ChoiceIsKept' /\ ItemIsOfSource' /\ Fresh' = Fresh
<1>1. ChoiceIsKept'
  BY DEF ChoiceInv, ChoiceIsKept
<1>2. ItemIsOfSource'
  BY DEF ChoiceInv, ItemIsOfSource, KnownItem, OwnItem
<1> QED  BY <1>1, <1>2, FreshKept

LEMMA SentFresh ==
    ASSUME TypeInv, ChoiceInv, NEW r \in Fresh
    PROVE  /\ ~crossed => Sent(requests, r) \in Seq(Fresh)
           /\ ~connected => Sent(requests, r) = <<>>
<1>1. ~crossed => requests \in Seq(Fresh)
  BY DEF ChoiceInv, MeantInv
<1>2. ~connected => requests = <<>>
  BY DEF ChoiceInv, SessionInv
<1> QED  BY <1>1, <1>2, Lists DEF Sent

(***************************************************************************)
(* The choice, one action at a time.                                       *)
(***************************************************************************)
LEMMA InitChoice == Init => ChoiceInv
<1> SUFFICES ASSUME Init PROVE ChoiceInv
  OBVIOUS
<1>1. /\ requests = <<>> /\ inbox = <<>> /\ data.scene_item_id = Unknown
      /\ chosen = [scene |-> data.scene, source |-> data.source, text |-> data.text]
  <2>1. requests = <<>> /\ inbox = <<>> /\ data \in {NoData} \cup Configurations
        /\ chosen = [scene |-> data.scene, source |-> data.source, text |-> data.text]
    BY DEF Init, init
  <2>2. data.scene_item_id = Unknown
    <3>1. CASE data = NoData
      BY <3>1 DEF NoData
    <3>2. CASE kind = "change_scene" /\ data \in {[NoData EXCEPT !.scene = s] : s \in Scenes}
      BY <3>2 DEF NoData
    <3>3. CASE kind = "mute_source" /\ data \in {[NoData EXCEPT !.source = x] : x \in AudioInputs}
      BY <3>3 DEF NoData
    <3>4. CASE data \in UNION {{[NoData EXCEPT !.scene = s, !.source = x] :
                                  x \in ItemsOf(s)} : s \in Scenes}
      <4> DEFINE of(s) == {[NoData EXCEPT !.scene = s, !.source = x] : x \in ItemsOf(s)}
      <4>1. data \in UNION {of(s) : s \in Scenes}
        BY <3>4
      <4>2. PICK s \in Scenes : data \in of(s)
        <5> HIDE DEF of
        <5> QED  BY <4>1
      <4>3. PICK x \in ItemsOf(s) : data = [NoData EXCEPT !.scene = s, !.source = x]
        BY <4>2
      <4> QED  BY <4>3 DEF NoData
    <3> QED  BY <2>1, <3>1, <3>2, <3>3, <3>4 DEF Configurations
  <2> QED  BY <2>1, <2>2
<1> QED  BY <1>1, Lists DEF ChoiceInv, SessionInv, MeantInv, ChoiceIsKept, ItemIsOfSource, KnownItem

LEMMA PressChoice ==
    ASSUME TypeInv, ChoiceInv, NEW t \in Threads, obs_plugin_exec(t)
    PROVE  ChoiceInv'
<1>1. UNCHANGED <<kind, data, state, conf, obs, connected, inbox, chosen, crossed, told>>
  BY PressIs
<1>2. \A r \in Outgoing : r.to = "none" => r \in Fresh
  BY MeantRequests DEF Outgoing
<1>3. SessionInv' /\ MeantInv'
  BY <1>1, <1>2, PressIs, SentFresh, FreshKept DEF SessionInv, MeantInv, ChoiceInv
<1> QED  BY <1>1, <1>3, ChoiceKept DEF ChoiceInv

LEMMA SendFoundIs ==
    ASSUME TypeInv, NEW t \in Threads, SendFound(t)
    PROVE  /\ UNCHANGED <<kind, data, state, conf, obs, connected, inbox, chosen, crossed, told>>
           /\ \E r \in Outgoing : (r.to = "none" \/ Meant(r)) /\ requests' = Sent(requests, r)
<1>1. /\ UNCHANGED <<kind, data, state, conf, obs, connected, inbox, chosen, crossed, told>>
      /\ pool[t] \in {"lookup", "toggle"} /\ data \in Data
      /\ \A u \in Threads : pool[u] # "idle" => Visibility /\ data.scene \in Scenes
  BY DEF SendFound, history, TypeInv, PoolTypes, ButtonTypes
<1> DEFINE a == obs_ws_get_scene_item_list(data.scene, "on_scene_item_lookup", NULL)
           b == obs_ws_set_scene_item_enabled(data.scene, data.scene_item_id, ~data.is_visible)
<1>3. /\ Visibility /\ data.scene \in Scenes /\ data.scene_item_id \in Ids \cup {Unknown}
      /\ (~data.is_visible) \in BOOLEAN
  BY <1>1 DEF Data
<1>4. a \in Outgoing /\ b \in Outgoing
  BY <1>3, RequestMessages DEF ItemLists, Lookups
<1>5. a.to = "on_scene_item_lookup" /\ a.scene = data.scene /\ b.to = "none"
  BY RequestFields
<1>6. requests' = Sent(requests, a) \/ requests' = Sent(requests, b)
  BY DEF SendFound, Send
<1> HIDE DEF a, b
<1> QED  BY <1>1, <1>4, <1>5, <1>6 DEF Meant

LEMMA SendFoundChoice ==
    ASSUME TypeInv, ChoiceInv, NEW t \in Threads, SendFound(t)
    PROVE  ChoiceInv'
<1>1. UNCHANGED <<kind, data, state, conf, obs, connected, inbox, chosen, crossed, told>>
  BY SendFoundIs
<1>2. \A r \in Outgoing : r.to = "none" \/ Meant(r) => r \in Fresh
  BY MeantRequests DEF Outgoing
<1>3. SessionInv' /\ MeantInv'
  BY <1>1, <1>2, SendFoundIs, SentFresh, FreshKept DEF SessionInv, MeantInv, ChoiceInv
<1> QED  BY <1>1, <1>3, ChoiceKept DEF ChoiceInv

LEMMA ConfigChoice ==
    ASSUME TypeInv, ChoiceInv, obs_plugin_config
    PROVE  ChoiceInv'
<1>1. /\ UNCHANGED <<kind, data, connected, chosen, crossed>>
      /\ inbox' = Gone(inbox)
      /\ requests' = IF connected THEN Gone(requests) \o Asked ELSE requests
  BY DEF obs_plugin_config, history
<1>2. Asked \in Seq(Fresh)
  <2> DEFINE a == obs_ws_get_scenes(data.scene)
             b == obs_ws_get_scene_item_list(data.scene, "on_source_list", data.source)
             c == IF data.scene = NULL THEN <<>> ELSE <<b>>
             d == obs_ws_get_input_list(data.source)
  <2>0. /\ data \in Data
        /\ kind = "mute_source" => data.source \in Sources \cup {NULL}
    BY ObsActionsAssumption DEF TypeInv, ButtonTypes
  <2>1. kind \in {"change_scene", "toggle_source_visibility"} => a \in Fresh
    <3>1. kind \in {"change_scene", "toggle_source_visibility"} => a \in Outgoing
      BY <2>0, RequestMessages DEF Data
    <3> QED  BY <3>1, RequestFields, MeantRequests DEF Meant, ItemLists, Lookups, Outgoing
  <2>2. Visibility /\ data.scene # NULL => b \in Fresh
    <3>1. Visibility /\ data.scene # NULL => b \in Outgoing
      BY <2>0, RequestMessages DEF Data, ItemLists
    <3> QED  BY <3>1, RequestFields, MeantRequests DEF Meant, Outgoing
  <2>3. kind = "mute_source" => d \in Fresh
    <3>1. kind = "mute_source" => d \in Outgoing
      BY <2>0, RequestMessages DEF Data
    <3> QED  BY <3>1, RequestFields, MeantRequests DEF Meant, ItemLists, Lookups, Outgoing
  <2>4. /\ kind = "change_scene" => Asked = <<a>>
        /\ kind = "mute_source" => Asked = <<d>>
        /\ Visibility => Asked = <<a>> \o c
        /\ kind \notin {"change_scene", "mute_source"} /\ ~Visibility => Asked = <<>>
    BY DEF Asked, change_scene_config, mute_source_config, toggle_source_visibility_config,
           Visibility
  <2> HIDE DEF a, b, d
  <2>5. Visibility => c \in Seq(Fresh) /\ <<a>> \in Seq(Fresh)
    BY <2>1, <2>2, Lists DEF Visibility
  <2> HIDE DEF c
  <2>6. Visibility => Asked \in Seq(Fresh)
    BY <2>4, <2>5, Lists
  <2> QED  BY <2>1, <2>3, <2>4, <2>6, Lists
<1>3. ~crossed => Gone(requests) \in Seq(Fresh) /\ Gone(inbox) \in Seq(Fresh)
  BY AgedLists, FreshAges DEF ChoiceInv, MeantInv
<1>4. ~connected => requests = <<>>
  BY DEF ChoiceInv, SessionInv
<1>5. SessionInv' /\ MeantInv'
  <2>1. Fresh' = Fresh
    BY <1>1, FreshKept
  <2>2. ~crossed => requests' \in Seq(Fresh)
    BY <1>1, <1>2, <1>3, <1>4, Lists
  <2> QED  BY <1>1, <1>3, <1>4, <2>1, <2>2 DEF SessionInv, MeantInv
<1> QED  BY <1>1, <1>5, ChoiceKept DEF ChoiceInv

LEMMA DeselectChoice ==
    ASSUME TypeInv, ChoiceInv, Deselect
    PROVE  ChoiceInv'
<1>1. /\ UNCHANGED <<kind, data, connected, chosen, crossed>>
      /\ inbox' = Gone(inbox) /\ requests' = Gone(requests)
  BY DEF Deselect, history
<1>2. ~crossed => Gone(requests) \in Seq(Fresh) /\ Gone(inbox) \in Seq(Fresh)
  BY AgedLists, FreshAges DEF ChoiceInv, MeantInv
<1>3. ~connected => Gone(requests) = <<>>
  <2>1. requests \in Seq(Outgoing) /\ (~connected => requests = <<>>)
    BY DEF ChoiceInv, SessionInv, TypeInv, QueueTypes
  <2>2. Len(Gone(requests)) = Len(requests) /\ Gone(requests) \in Seq(Outgoing)
    BY <2>1, AgedLists, QueuesAge
  <2>3. \A q \in Seq(Outgoing) : Len(q) = 0 <=> q = <<>>
    BY EmptySeq
  <2> QED  BY <2>1, <2>2, <2>3
<1>4. SessionInv' /\ MeantInv'
  BY <1>1, <1>2, <1>3, FreshKept DEF SessionInv, MeantInv
<1> QED  BY <1>1, <1>4, ChoiceKept DEF ChoiceInv

\* What the first combo box changes, of the choice.
LEMMA FirstChangedChoice ==
    ASSUME TypeInv, kind \in Listing, NEW row \in FirstRows
    PROVE  /\ \/ FirstChanged(row).asks = <<>>
              \/ \E a \in Outgoing :
                   /\ FirstChanged(row).asks = <<a>> /\ a.to = "on_source_list"
                   /\ a.scene = FirstChanged(row).data.scene
                   /\ a.selected = FirstChanged(row).data.source
           /\ kind \in {"change_scene", "toggle_source_visibility"} /\ row = data.scene =>
                FirstChanged(row).data = data
           /\ kind = "mute_source" /\ row = data.source => FirstChanged(row).data = data
<1>0. data \in Data
  BY DEF TypeInv, ButtonTypes
<1>1. CASE kind = "change_scene"
  <2>1. FirstChanged(row) = [data |-> [data EXCEPT !.scene = row], asks |-> <<>>]
    BY <1>1 DEF FirstChanged, scene_changed
  <2> QED  BY <2>1, <1>0, <1>1 DEF Data, ItemLists
<1>2. CASE kind = "mute_source"
  <2>1. FirstChanged(row) = [data |-> [data EXCEPT !.source = row], asks |-> <<>>]
    BY <1>2 DEF FirstChanged, input_changed
  <2> QED  BY <2>1, <1>0, <1>2 DEF Data, ItemLists
<1>3. CASE Visibility
  <2> DEFINE new == IF data.scene = row THEN data
                    ELSE [data EXCEPT !.scene = row, !.source = NULL, !.scene_item_id = Unknown]
             l == IF data.scene = row THEN data.source ELSE NULL
             a == obs_ws_get_scene_item_list(row, "on_source_list", l)
  <2>1. row \in Scenes /\ FirstChanged(row) = [data |-> new, asks |-> <<a>>]
    BY <1>3 DEF FirstRows, FirstChanged, scene_changed_for_sources, Visibility
  <2>2. l \in Sources \cup {NULL}
    BY <1>0 DEF Data
  <2>3. new.scene = row /\ new.source = l /\ (row = data.scene => new = data)
    BY <1>0 DEF Data
  <2> HIDE DEF l
  <2>4. a \in Outgoing /\ a.to = "on_source_list" /\ a.scene = row /\ a.selected = l
    BY <1>3, <2>1, <2>2, RequestMessages, RequestFields DEF ItemLists
  <2> HIDE DEF new, a
  <2> QED  BY <2>1, <2>3, <2>4, <1>3 DEF Visibility, ItemLists
<1> QED  BY <1>1, <1>2, <1>3 DEF Listing, Visibility

LEMMA QueuesOfMessages ==
    ASSUME TypeInv
    PROVE  requests \in Seq(Message) /\ inbox \in Seq(Message)
  BY TypeInvImpliesTypeOK DEF TypeOK

LEMMA AsksFresh ==
    ASSUME NEW asks,
           \/ asks = <<>>
           \/ \E a \in Outgoing : /\ asks = <<a>> /\ a.to = "on_source_list"
                                  /\ a.scene = data'.scene /\ a.selected = data'.source
    PROVE  asks \in Seq(Fresh')
<1>1. CASE asks = <<>>
  BY <1>1, Lists
<1>2. ASSUME NEW a \in Outgoing, asks = <<a>>, a.to = "on_source_list",
             a.scene = data'.scene, a.selected = data'.source
      PROVE  asks \in Seq(Fresh')
  <2>1. a \in Fresh'
    BY <1>2 DEF Outgoing, Fresh, Meant, ItemLists
  <2> QED  BY <1>2, <2>1, Lists
<1> QED  BY <1>1, <1>2

LEMMA ChooseFirstChoice ==
    ASSUME TypeInv, ChoiceInv, ChooseFirst
    PROVE  ChoiceInv'
<1>1. PICK row \in FirstRows :
        /\ conf.listed /\ data' = FirstChanged(row).data
        /\ requests' = IF connected THEN Stale(requests) \o FirstChanged(row).asks ELSE requests
        /\ inbox' = Stale(inbox) /\ chosen' = Configured
        /\ UNCHANGED <<kind, connected, crossed>>
  BY DEF ChooseFirst
<1> DEFINE new == FirstChanged(row)
<1>2. kind \in Listing
  BY <1>1 DEF TypeInv, ConfTypes
<1>3. /\ ~Visibility => new.data.scene_item_id = Unknown
      /\ Visibility => new.data = data \/ new.data.scene_item_id = Unknown
  BY <1>2, FirstChangedTypes
<1>4. \/ new.asks = <<>>
      \/ \E a \in Outgoing : /\ new.asks = <<a>> /\ a.to = "on_source_list"
                             /\ a.scene = new.data.scene /\ a.selected = new.data.source
  BY <1>2, FirstChangedChoice
<1>5. new.asks \in Seq(Fresh')
  <2> HIDE DEF new
  <2> QED  BY <1>1, <1>4, AsksFresh DEF new
<1> HIDE DEF new
<1>6. Stale(requests) \in Seq(Fresh') /\ Stale(inbox) \in Seq(Fresh')
  BY QueuesOfMessages, ChoiceMakesFresh
<1>7. ~connected => requests = <<>>
  BY DEF ChoiceInv, SessionInv
<1>8. requests' \in Seq(Fresh')
  BY <1>1, <1>5, <1>6, <1>7, Lists DEF new
<1>9. SessionInv' /\ MeantInv'
  BY <1>1, <1>6, <1>7, <1>8 DEF SessionInv, MeantInv
<1>10. ChoiceIsKept'
  BY <1>1 DEF ChoiceIsKept, Configured
<1>11. ItemIsOfSource'
  BY <1>1, <1>3 DEF ItemIsOfSource, KnownItem, OwnItem, ChoiceInv, new
<1> QED  BY <1>9, <1>10, <1>11 DEF ChoiceInv

LEMMA ChooseSourceChoice ==
    ASSUME TypeInv, ChoiceInv, ChooseSource
    PROVE  ChoiceInv'
<1>1. PICK x \in ItemsOf(conf.itemsOf) :
        /\ data' = source_visibility_changed(x)
        /\ requests' = Stale(requests) /\ inbox' = Stale(inbox)
        /\ chosen' = Configured
        /\ UNCHANGED <<kind, connected, crossed>>
  BY DEF ChooseSource
<1>2. Stale(requests) \in Seq(Fresh') /\ Stale(inbox) \in Seq(Fresh')
  BY QueuesOfMessages, ChoiceMakesFresh
<1>3. ~connected => Stale(requests) = <<>>
  BY EmptySeq DEF ChoiceInv, SessionInv, Stale
<1>4. data'.scene_item_id = Unknown
  BY <1>1 DEF TypeInv, ButtonTypes, source_visibility_changed, Data
<1>5. SessionInv' /\ MeantInv'
  BY <1>1, <1>2, <1>3 DEF SessionInv, MeantInv
<1>6. ChoiceIsKept' /\ ItemIsOfSource'
  BY <1>1, <1>4 DEF ChoiceIsKept, Configured, ItemIsOfSource, KnownItem
<1> QED  BY <1>5, <1>6 DEF ChoiceInv

LEMMA EnterTextChoice ==
    ASSUME TypeInv, ChoiceInv, EnterText
    PROVE  ChoiceInv'
<1>1. PICK text \in Texts :
        /\ data' = [data EXCEPT !.text = text] /\ chosen' = Configured
        /\ UNCHANGED <<kind, connected, requests, inbox, crossed>>
  BY DEF EnterText
<1>2. UNCHANGED <<data.scene, data.source, data.scene_item_id>>
  BY <1>1 DEF TypeInv, ButtonTypes, Data
<1>3. SessionInv' /\ MeantInv'
  BY <1>1, <1>2, FreshKept DEF SessionInv, MeantInv, ChoiceInv
<1>4. ChoiceIsKept'
  BY <1>1 DEF ChoiceIsKept, Configured
<1>5. ItemIsOfSource'
  BY <1>1, <1>2 DEF ItemIsOfSource, KnownItem, OwnItem, ChoiceInv
<1> QED  BY <1>3, <1>4, <1>5 DEF ChoiceInv

(***************************************************************************)
(* What the handlers do to the choice and to the item, by the message.     *)
(***************************************************************************)
LEMMA EventKeepsItem ==
    ASSUME TypeInv, NEW m \in Incoming, m.to = "event", on_event(m)
    PROVE  UNCHANGED data.scene_item_id
<1>1. data' = data \/ data' = [data EXCEPT !.is_visible = m.value]
  BY DEF on_event, on_scene_changed, on_input_mute_changed, on_record_state_changed,
         on_scene_item_enable_changed, Shows, Ignored
<1> QED  BY <1>1 DEF TypeInv, ButtonTypes, Data

LEMMA FirstListIs ==
    ASSUME TypeInv, UNCHANGED <<kind, connected>>, NEW m \in Incoming,
           m.to \in {"on_scene_list", "on_input_list"}, on_first_list(m)
    PROVE  /\ crossed' = (crossed \/ m.stale) /\ UNCHANGED <<state, told>>
           /\ Meant(m) => data' = data
           /\ data' = data \/ data'.scene_item_id = Unknown
           /\ \/ UNCHANGED requests
              \/ \E asks \in Seq(Outgoing) :
                   /\ requests' = IF connected THEN requests \o asks ELSE requests
                   /\ \/ asks = <<>>
                      \/ \E a \in Outgoing : /\ asks = <<a>> /\ a.to = "on_source_list"
                                             /\ a.scene = data'.scene
                                             /\ a.selected = data'.source
<1>1. crossed' = (crossed \/ m.stale) /\ UNCHANGED <<state, told>>
  BY DEF on_first_list, Crossing
<1>2. /\ kind \in Listing
      /\ m.to = "on_scene_list" <=> kind \in {"change_scene", "toggle_source_visibility"}
  BY IncomingTypes DEF Listing, Visibility, Incoming, Asks, Events, ItemLists, Lookups
<1>3. CASE m.selected \in FirstRows \ {conf.row}
  <2> DEFINE new == FirstChanged(m.selected)
  <2>1. /\ data' = new.data
        /\ requests' = IF connected THEN requests \o new.asks ELSE requests
    BY <1>3 DEF on_first_list
  <2>2. /\ new.asks \in Seq(Outgoing)
        /\ ~Visibility => new.data.scene_item_id = Unknown
        /\ Visibility => new.data = data \/ new.data.scene_item_id = Unknown
    BY <1>2, <1>3, FirstChangedTypes
  <2>3. /\ \/ new.asks = <<>>
           \/ \E a \in Outgoing : /\ new.asks = <<a>> /\ a.to = "on_source_list"
                                  /\ a.scene = new.data.scene /\ a.selected = new.data.source
        /\ kind \in {"change_scene", "toggle_source_visibility"} /\ m.selected = data.scene =>
             new.data = data
        /\ kind = "mute_source" /\ m.selected = data.source => new.data = data
    BY <1>2, <1>3, FirstChangedChoice
  <2> HIDE DEF new
  <2>4. Meant(m) => new.data = data
    BY <1>2, <2>3 DEF Meant, Listing
  <2> QED  BY <1>1, <1>3, <2>1, <2>2, <2>3, <2>4
<1>4. CASE m.selected \notin FirstRows \ {conf.row}
  BY <1>1, <1>4 DEF on_first_list
<1> QED  BY <1>3, <1>4

LEMMA SourceListIs ==
    ASSUME TypeInv, NEW m \in Incoming, m.to = "on_source_list", on_source_list(m)
    PROVE  /\ crossed' = (crossed \/ m.stale) /\ UNCHANGED <<state, requests, told>>
           /\ UNCHANGED <<data.scene, data.text>> /\ (Meant(m) => UNCHANGED data.source)
           /\ data'.scene_item_id = Unknown \/ UNCHANGED data
<1>1. crossed' = (crossed \/ m.stale) /\ UNCHANGED <<state, requests, told>>
  BY DEF on_source_list, Crossing
<1>2. CASE m.selected \in ItemsOf(m.scene)
  <2>1. data' = [data EXCEPT !.source = m.selected, !.scene_item_id = Unknown]
    BY <1>2 DEF on_source_list, source_visibility_changed
  <2>2. /\ data'.scene = data.scene /\ data'.text = data.text /\ data'.source = m.selected
        /\ data'.scene_item_id = Unknown
    BY <2>1 DEF TypeInv, ButtonTypes, Data
  <2> QED  BY <1>1, <2>1, <2>2 DEF Meant
<1>3. CASE m.selected \notin ItemsOf(m.scene)
  BY <1>1, <1>3 DEF on_source_list
<1> QED  BY <1>2, <1>3

LEMMA LookupIs ==
    ASSUME TypeInv, NEW m \in Incoming,
           \/ m.to = "on_scene_item_lookup" /\ on_scene_item_lookup(m)
           \/ m.to = "on_scene_item_list_for_state" /\ on_scene_item_list_for_state(m),
           Matches(m)
    PROVE  /\ crossed' = (crossed \/ m.stale) /\ data' = Found(m) /\ m.to \in Lookups
           /\ UNCHANGED conf
           /\ \/ /\ told' = ~m.late /\ state' = StateOf(Found(m).is_visible)
                 /\ UNCHANGED requests
              \/ \E r \in Outgoing :
                   /\ r.to = "none" /\ r.type = "SetSceneItemEnabled" /\ r.scene = data.scene
                   /\ r.id = Found(m).scene_item_id /\ r.value = ~Found(m).is_visible
                   /\ told' = (connected /\ ~m.late) /\ UNCHANGED state
                   /\ requests' = Sent(requests, r)
<1>1. CASE m.to = "on_scene_item_lookup" /\ on_scene_item_lookup(m)
  <2> DEFINE r == obs_ws_set_scene_item_enabled(data.scene, Found(m).scene_item_id,
                                                ~Found(m).is_visible)
  <2>1. /\ crossed' = (crossed \/ m.stale) /\ data' = Found(m) /\ UNCHANGED <<conf, state>>
        /\ told' = (connected /\ ~m.late) /\ requests' = Sent(requests, r)
    BY <1>1 DEF on_scene_item_lookup, Crossing, Send
  <2>2. m.to \in Lookups
    BY <1>1 DEF Lookups
  <2>3. Visibility
    BY <2>2, IncomingTypes DEF ItemLists
  <2>4. /\ data.scene \in Scenes /\ Found(m).scene_item_id \in Ids \cup {Unknown}
        /\ (~Found(m).is_visible) \in BOOLEAN
    BY <2>2, FoundTypes
  <2>5. r \in Outgoing
    BY <2>3, <2>4, RequestMessages
  <2>6. /\ r.to = "none" /\ r.type = "SetSceneItemEnabled" /\ r.scene = data.scene
        /\ r.id = Found(m).scene_item_id /\ r.value = ~Found(m).is_visible
    BY RequestFields
  <2> HIDE DEF r
  <2> QED  BY <2>1, <2>2, <2>5, <2>6
<1>2. CASE m.to = "on_scene_item_list_for_state" /\ on_scene_item_list_for_state(m)
  BY <1>2 DEF on_scene_item_list_for_state, Crossing, Lookups
<1> QED  BY <1>1, <1>2

LEMMA HandlesChoice ==
    ASSUME TypeInv, ChoiceInv, UNCHANGED <<kind, connected, chosen>>, NEW m \in Incoming,
           ~crossed => m \in Fresh, Handles(m)
    PROVE  /\ ChoiceIsKept' /\ ItemIsOfSource' /\ SessionInv'
           /\ ~crossed' => UNCHANGED <<data.scene, data.source>> /\ ~crossed
           /\ ~crossed' => requests' \in Seq(Fresh')
<1>0. /\ ~crossed => m.stale \/ Meant(m)
      /\ ~connected => requests = <<>>
      /\ ~crossed => requests \in Seq(Fresh)
      /\ crossed \in BOOLEAN /\ m.stale \in BOOLEAN
  BY DEF Fresh, ChoiceInv, MeantInv, SessionInv, TypeInv, HistoryTypes, Incoming, Message
<1>1. CASE Ignored
  BY <1>0, <1>1, ChoiceKept DEF Ignored, SessionInv
<1>2. CASE m.to = "event" /\ on_event(m)
  <2>1. crossed' = crossed /\ UNCHANGED requests /\ UNCHANGED <<data.scene, data.source, data.text>>
    BY <1>2, EventTypesKept
  <2>2. data'.scene_item_id = data.scene_item_id
    BY <1>2, EventKeepsItem
  <2> QED  BY <1>0, <2>1, <2>2, ChoiceKept DEF SessionInv
<1>3. CASE m.to \in {"on_scene_list", "on_input_list"} /\ on_first_list(m)
  <2>1. /\ crossed' = (crossed \/ m.stale)
        /\ Meant(m) => data' = data
        /\ data' = data \/ data'.scene_item_id = Unknown
    BY <1>3, FirstListIs
  <2>2. \/ UNCHANGED requests
        \/ \E asks :
             /\ requests' = IF connected THEN requests \o asks ELSE requests
             /\ \/ asks = <<>>
                \/ \E a \in Outgoing : /\ asks = <<a>> /\ a.to = "on_source_list"
                                       /\ a.scene = data'.scene /\ a.selected = data'.source
    BY <1>3, FirstListIs
  <2>3. ~crossed' => ~crossed /\ data' = data /\ Fresh' = Fresh
    BY <1>0, <2>1, FreshKept
  <2>4. ChoiceIsKept' /\ ItemIsOfSource'
    BY <2>1, <2>3 DEF ChoiceIsKept, ItemIsOfSource, KnownItem, OwnItem, ChoiceInv
  <2>5. SessionInv' /\ (~crossed' => requests' \in Seq(Fresh'))
    <3>1. CASE UNCHANGED requests
      BY <1>0, <2>3, <3>1 DEF SessionInv
    <3>2. ASSUME NEW asks, requests' = IF connected THEN requests \o asks ELSE requests,
                 \/ asks = <<>>
                 \/ \E a \in Outgoing : /\ asks = <<a>> /\ a.to = "on_source_list"
                                        /\ a.scene = data'.scene /\ a.selected = data'.source
          PROVE  SessionInv' /\ (~crossed' => requests' \in Seq(Fresh'))
      <4>1. asks \in Seq(Fresh')
        BY <3>2, AsksFresh
      <4> QED  BY <1>0, <2>3, <3>2, <4>1, Lists DEF SessionInv
    <3> QED  BY <2>2, <3>1, <3>2
  <2> QED  BY <2>3, <2>4, <2>5
<1>4. CASE m.to = "on_source_list" /\ on_source_list(m)
  <2>1. /\ crossed' = (crossed \/ m.stale) /\ UNCHANGED requests
        /\ UNCHANGED <<data.scene, data.text>> /\ (Meant(m) => UNCHANGED data.source)
        /\ data'.scene_item_id = Unknown \/ UNCHANGED data
    BY <1>4, SourceListIs
  <2>2. ~crossed' => ~crossed /\ data'.source = data.source
    BY <1>0, <2>1
  <2>3. ~crossed' => Fresh' = Fresh
    BY <2>1, <2>2, FreshKept
  <2>4. ChoiceIsKept' /\ ItemIsOfSource'
    BY <2>1, <2>2 DEF ChoiceIsKept, ItemIsOfSource, KnownItem, OwnItem, ChoiceInv
  <2> QED  BY <1>0, <2>1, <2>2, <2>3, <2>4 DEF SessionInv
<1>5. CASE /\ \/ m.to = "on_scene_item_lookup" /\ on_scene_item_lookup(m)
              \/ m.to = "on_scene_item_list_for_state" /\ on_scene_item_list_for_state(m)
           /\ Matches(m)
  <2>1. /\ crossed' = (crossed \/ m.stale) /\ data' = Found(m) /\ m.to \in Lookups
    BY <1>5, LookupIs
  <2>2. UNCHANGED requests \/ \E r \in Outgoing : r.to = "none" /\ requests' = Sent(requests, r)
    BY <1>5, LookupIs
  <2>3. /\ UNCHANGED <<data.scene, data.source, data.text>>
        /\ data'.scene_item_id = ItemId[m.scene][data.source]
        /\ data.source \in ItemsOf(m.scene) /\ m.scene \in Scenes
    BY <1>5, <2>1, FoundTypes
  <2>4. Fresh' = Fresh
    BY <2>3, FreshKept
  <2>5. ~crossed' => ~crossed /\ m.scene = data.scene
    BY <1>0, <2>1 DEF Meant, ItemLists
  <2>6. ChoiceIsKept' /\ ItemIsOfSource'
    BY <2>3, <2>5 DEF ChoiceIsKept, ItemIsOfSource, KnownItem, OwnItem, ChoiceInv
  <2>7. SessionInv' /\ (~crossed' => requests' \in Seq(Fresh'))
    <3>1. \A r \in Outgoing : r.to = "none" => r \in Fresh
      BY MeantRequests DEF Outgoing
    <3>2. CASE UNCHANGED requests
      BY <1>0, <2>4, <2>5, <3>2 DEF SessionInv
    <3>3. ASSUME NEW r \in Outgoing, r.to = "none", requests' = Sent(requests, r)
          PROVE  SessionInv' /\ (~crossed' => requests' \in Seq(Fresh'))
      BY <2>4, <2>5, <3>1, <3>3, SentFresh DEF SessionInv
    <3> QED  BY <2>2, <3>2, <3>3
  <2> QED  BY <2>3, <2>5, <2>6, <2>7
<1> QED  BY <1>1, <1>2, <1>3, <1>4, <1>5
            DEF Handles, on_scene_item_lookup, on_scene_item_list_for_state

LEMMA InvokeChoice ==
    ASSUME TypeInv, ChoiceInv, invoke_callback_idle
    PROVE  ChoiceInv'
<1> DEFINE m == Head(inbox)
<1>1. m \in Incoming /\ (~crossed => m \in Fresh /\ Tail(inbox) \in Seq(Fresh))
  BY Invoked, Lists DEF TypeInv, QueueTypes, ChoiceInv, MeantInv
<1>2. /\ UNCHANGED <<kind, connected, chosen>> /\ Handles(m) /\ inbox' = Tail(inbox)
  BY Invoked
<1> HIDE DEF m
<1>3. /\ ChoiceIsKept' /\ ItemIsOfSource' /\ SessionInv'
      /\ ~crossed' => UNCHANGED <<data.scene, data.source>> /\ ~crossed
      /\ ~crossed' => requests' \in Seq(Fresh')
  BY <1>1, <1>2, HandlesChoice
<1>4. ~crossed' => inbox' \in Seq(Fresh')
  BY <1>1, <1>2, <1>3, FreshKept
<1> QED  BY <1>3, <1>4 DEF ChoiceInv, MeantInv

(***************************************************************************)
(* What may happen to OBS, by a request of the button or by somebody else. *)
(***************************************************************************)
IsChange(c) ==
    \/ kind = "change_scene" /\ \E s \in Scenes : c = SetScene(s)
    \/ kind = "mute_source" /\ \E x \in AudioInputs : c = ToggleMute(x)
    \/ kind = "toggle_recording" /\ c = ToggleRecord
    \/ Visibility /\ \E s \in Scenes, id \in Ids \cup {Unknown}, on \in BOOLEAN :
                        c = SetEnabled(s, id, on)
    \/ c = NoChange

LEMMA ChangeNews ==
    ASSUME TypeInv, NEW c, IsChange(c)
    PROVE  c.events \in Seq(News)
<1>1. \A e \in News : <<e>> \in Seq(News)
  OBVIOUS
<1>2. \A d, e \in News : <<d, e>> \in Seq(News)
  OBVIOUS
<1>3. <<>> \in Seq(News)
  BY Lists
<1>4. ASSUME kind = "change_scene", NEW s \in Scenes, c = SetScene(s)
      PROVE  c.events \in Seq(News)
  BY <1>1, <1>3, <1>4, SetSceneTypes
<1>5. ASSUME kind = "mute_source", NEW x \in AudioInputs, c = ToggleMute(x)
      PROVE  c.events \in Seq(News)
  <2>1. \E e \in News : c.events = <<e>>
    BY <1>5, ToggleMuteTypes
  <2> QED  BY <1>1, <2>1
<1>6. ASSUME kind = "toggle_recording", c = ToggleRecord
      PROVE  c.events \in Seq(News)
  BY <1>2, <1>6, ToggleRecordTypes
<1>7. ASSUME Visibility, NEW s \in Scenes, NEW id \in Ids \cup {Unknown}, NEW on \in BOOLEAN,
             c = SetEnabled(s, id, on)
      PROVE  c.events \in Seq(News)
  <2>1. c.events = <<>> \/ \E e \in News : c.events = <<e>>
    BY <1>7, SetEnabledTypes
  <2> QED  BY <1>1, <1>3, <2>1
<1>8. c = NoChange => c.events \in Seq(News)
  BY <1>3 DEF NoChange
<1> QED  BY <1>4, <1>5, <1>6, <1>7, <1>8 DEF IsChange

LEMMA OutcomeChanges ==
    ASSUME TypeInv, NEW r \in Outgoing
    PROVE  IsChange(Outcome(r))
  BY OutcomeIs DEF IsChange

LEMMA PeerChangesIs ==
    ASSUME TypeInv, PeerChanges
    PROVE  \E c : /\ IsChange(c) /\ obs' = c.obs
                  /\ inbox' = IF connected THEN inbox \o c.events ELSE inbox
  BY ChangeIs DEF IsChange

LEMMA NewsFresh ==
    /\ News \subseteq Fresh /\ News \subseteq Incoming
    /\ \A q \in Seq(News) : q \in Seq(Fresh) /\ q \in Seq(Incoming)
<1>1. News \subseteq Fresh
  BY MeantRequests DEF News, Incoming, Events
<1>2. News \subseteq Incoming
  BY DEF News
<1> QED  BY <1>1, <1>2, SeqMonotonic

LEMMA PeerReadsChoice ==
    ASSUME TypeInv, ChoiceInv, PeerReads
    PROVE  ChoiceInv'
<1> DEFINE r == Head(requests)
           e == Outcome(r).events
           a == Answers(r)
<1>1. /\ UNCHANGED <<kind, data, connected, chosen, crossed>> /\ connected
      /\ requests # <<>> /\ requests' = Tail(requests) /\ inbox' = (inbox \o e) \o a
  BY DEF PeerReads, history
<1>2. r \in Outgoing /\ (~crossed => r \in Fresh /\ requests' \in Seq(Fresh) /\ inbox \in Seq(Fresh))
  BY <1>1, Lists DEF TypeInv, QueueTypes, ChoiceInv, MeantInv
<1> HIDE DEF r
<1>3. e \in Seq(Fresh)
  BY <1>2, OutcomeChanges, ChangeNews, NewsFresh
<1>4. ~crossed => a \in Seq(Fresh)
  <2>1. CASE r.to = "none"
    <3>1. r.type # "GetSceneItemList"
      BY <1>2, <2>1 DEF Outgoing, Asks, Orders, ItemLists, Lookups
    <3> QED  BY <2>1, <3>1, Lists DEF Answers
  <2>2. CASE r.to # "none"
    <3>1. PICK b \in Incoming : /\ a = <<b>> /\ b.to = r.to /\ b.scene = r.scene
                                /\ b.selected = r.selected /\ b.stale = r.stale
      BY <1>2, <2>2, AnswersTypes
    <3>2. ~crossed => b \in Fresh
      BY <1>2, <3>1 DEF Fresh, Meant, Incoming
    <3> QED  BY <3>1, <3>2, Lists
  <2> QED  BY <2>1, <2>2
<1> HIDE DEF e, a
<1>5. ~crossed => inbox' \in Seq(Fresh)
  BY <1>1, <1>2, <1>3, <1>4, Lists
<1>6. SessionInv' /\ MeantInv'
  BY <1>1, <1>2, <1>5, FreshKept DEF SessionInv, MeantInv
<1> QED  BY <1>1, <1>6, ChoiceKept DEF ChoiceInv

LEMMA PeerChangesChoice ==
    ASSUME TypeInv, ChoiceInv, PeerChanges
    PROVE  ChoiceInv'
<1>1. UNCHANGED <<kind, data, connected, requests, chosen, crossed>>
  BY ChangeIs
<1>2. PICK c : /\ IsChange(c)
               /\ inbox' = IF connected THEN inbox \o c.events ELSE inbox
  BY PeerChangesIs
<1>3. c.events \in Seq(Fresh)
  BY <1>2, ChangeNews, NewsFresh
<1>4. SessionInv' /\ MeantInv'
  BY <1>1, <1>2, <1>3, FreshKept, Lists DEF SessionInv, MeantInv, ChoiceInv
<1> QED  BY <1>1, <1>4, ChoiceKept DEF ChoiceInv

LEMMA DisconnectChoice ==
    ASSUME TypeInv, ChoiceInv, Disconnect
    PROVE  ChoiceInv'
<1>1. UNCHANGED <<kind, data, chosen, crossed>> /\ requests' = <<>>
  BY DEF Disconnect
<1>2. PICK n \in 0 .. Len(inbox) : inbox' = [i \in 1 .. n |-> [inbox[i] EXCEPT !.late = TRUE]]
  BY DEF Disconnect
<1>3. ASSUME ~crossed PROVE inbox' \in Seq(Fresh)
  <2>1. inbox \in Seq(Fresh) /\ Len(inbox) \in Nat
    BY <1>3 DEF ChoiceInv, MeantInv
  <2>2. ASSUME NEW i \in 1 .. n PROVE [inbox[i] EXCEPT !.late = TRUE] \in Fresh
    <3> DEFINE m == inbox[i]
               l == [m EXCEPT !.late = TRUE]
    <3>1. m \in Fresh
      BY <2>1
    <3> HIDE DEF m
    <3>2. /\ l \in Message /\ l.to = m.to /\ l.scene = m.scene /\ l.selected = m.selected
          /\ l.stale = m.stale
      BY <3>1 DEF Fresh, Message
    <3> HIDE DEF l
    <3>3. l \in Fresh
      BY <3>1, <3>2 DEF Fresh, Meant
    <3> QED  BY <3>3 DEF l, m
  <2>3. inbox' \in [1 .. n -> Fresh] /\ n \in Nat
    BY <1>2, <2>1, <2>2
  <2> QED  BY <2>3, ListOf
<1>4. SessionInv' /\ MeantInv'
  BY <1>1, <1>3, FreshKept, Lists DEF SessionInv, MeantInv
<1> QED  BY <1>1, <1>4, ChoiceKept DEF ChoiceInv

LEMMA ConnectedChoice ==
    ASSUME TypeInv, ChoiceInv, on_ws_connected
    PROVE  ChoiceInv'
<1>1. UNCHANGED <<kind, data, requests, inbox, chosen, crossed>> /\ connected'
  BY DEF on_ws_connected, history
<1>2. SessionInv' /\ MeantInv'
  BY <1>1, FreshKept DEF SessionInv, MeantInv, ChoiceInv
<1> QED  BY <1>1, <1>2, ChoiceKept DEF ChoiceInv

LEMMA LoadChoice ==
    ASSUME TypeInv, ChoiceInv, load
    PROVE  ChoiceInv'
<1> DEFINE r == obs_ws_get_scene_item_list(data'.scene, "on_scene_item_list_for_state", NULL)
<1>1. /\ UNCHANGED <<kind, chosen, crossed>> /\ data' = Saved /\ inbox' = <<>>
      /\ connected' \in BOOLEAN
      /\ requests' = <<>> \/ (requests' = <<r>> /\ kind = "toggle_source_visibility"
                              /\ connected' /\ data'.scene # NULL)
  BY DEF load
<1>2. /\ data'.scene_item_id = Unknown /\ data'.source = data.source
      /\ data'.scene = data.scene /\ data'.text = data.text
      /\ data.scene \in Scenes \cup {NULL}
  BY <1>1 DEF TypeInv, ButtonTypes, Data, Saved, NoData
<1>3. requests' \in Seq(Fresh)
  <2>1. CASE requests' = <<r>> /\ Visibility /\ data'.scene \in Scenes
    <3>1. r \in Outgoing
      BY <2>1, RequestMessages DEF ItemLists, Lookups
    <3>2. r.to = "on_scene_item_list_for_state" /\ r.scene = data.scene
      BY <1>2, RequestFields
    <3> HIDE DEF r
    <3>3. r \in Fresh
      BY <3>1, <3>2, MeantRequests DEF Meant, Outgoing
    <3> QED  BY <2>1, <3>3, Lists
  <2> QED  BY <1>1, <1>2, <2>1, Lists DEF Visibility
<1>4. SessionInv' /\ MeantInv'
  BY <1>1, <1>2, <1>3, FreshKept, Lists DEF SessionInv, MeantInv
<1>5. ChoiceIsKept' /\ ItemIsOfSource'
  BY <1>1, <1>2 DEF ChoiceInv, ChoiceIsKept, ItemIsOfSource, KnownItem
<1> QED  BY <1>4, <1>5 DEF ChoiceInv

LEMMA NextChoice == TypeInv /\ ChoiceInv /\ [Next]_obsVars => ChoiceInv'
<1> SUFFICES ASSUME TypeInv, ChoiceInv, [Next]_obsVars PROVE ChoiceInv'
  OBVIOUS
<1>1. CASE UNCHANGED obsVars
  <2>1. UNCHANGED <<data, connected, requests, inbox, chosen, crossed>>
    BY <1>1 DEF obsVars
  <2>2. SessionInv' /\ MeantInv'
    BY <2>1, FreshKept DEF SessionInv, MeantInv, ChoiceInv
  <2> QED  BY <2>1, <2>2, ChoiceKept DEF ChoiceInv
<1> QED  BY <1>1, PressChoice, SendFoundChoice, ConfigChoice, DeselectChoice, ChooseFirstChoice,
            ChooseSourceChoice, EnterTextChoice, InvokeChoice, PeerReadsChoice, PeerChangesChoice,
            DisconnectChoice, ConnectedChoice, LoadChoice
         DEF Next, chapter_name_changed, on_file_set
-----------------------------------------------------------------------------
(***************************************************************************)
(* What OBS has said.  A subject is what an action can be about.  Of the   *)
(* messages of this session that tell how a subject stands, the last one   *)
(* on its way says how it stands in OBS now: every change of OBS comes     *)
(* with a message, and an answer is made of what OBS is at that moment.    *)
(***************************************************************************)
Subject(s, x) ==
    /\ kind = "mute_source" => x \in AudioInputs
    /\ Visibility => s \in Scenes /\ x \in ItemsOf(s)

NowOn(s, x) ==
    \/ kind = "change_scene" /\ obs.program = s
    \/ kind = "mute_source" /\ obs.muted[x]
    \/ kind = "toggle_recording" /\ obs.recording
    \/ Visibility /\ obs.enabled[s][x]

Tells(m, s, x) ==
    /\ ~m.late
    /\ \/ m.type = "CurrentProgramSceneChanged"
       \/ m.type = "InputMuteStateChanged" /\ m.source = x
       \/ m.type \in {"OBS_WEBSOCKET_OUTPUT_STARTED", "OBS_WEBSOCKET_OUTPUT_STOPPED"}
       \/ m.type = "SceneItemEnableStateChanged" /\ m.scene = s /\ m.id = ItemId[s][x]
       \/ m.to \in Lookups /\ m.scene = s

Says(m, s, x) ==
    \/ m.type = "CurrentProgramSceneChanged" /\ m.scene = s
    \/ m.type = "InputMuteStateChanged" /\ m.value
    \/ m.type = "OBS_WEBSOCKET_OUTPUT_STARTED"
    \/ m.type = "SceneItemEnableStateChanged" /\ m.value
    \/ m.to \in Lookups /\ m.enabled[x]

Silent(q, n, s, x) == \A j \in n .. Len(q) : ~Tells(q[j], s, x)
Mirrors(q, s, x) ==
    \A i \in 1 .. Len(q) : Tells(q[i], s, x) /\ Silent(q, i + 1, s, x) =>
                             (Says(q[i], s, x) <=> NowOn(s, x))
MirrorInv == \A s \in Scenes \cup {NULL}, x \in Sources \cup {NULL} :
                Subject(s, x) => Mirrors(inbox, s, x)

\* Late messages have come before those of this session.
LateInv ==
    /\ ~connected => \A i \in 1 .. Len(inbox) : inbox[i].late
    /\ \A i, j \in 1 .. Len(inbox) : i <= j /\ inbox[j].late => inbox[i].late

(***************************************************************************)
(* What the button has been told.  Its picture is behind what it knows of  *)
(* its item only between a lookup and the event that the toggle it sent    *)
(* will have.                                                              *)
(***************************************************************************)
Owed ==
    /\ Visibility
    /\ \E i \in 1 .. Len(requests) :
         /\ requests[i].type = "SetSceneItemEnabled" /\ requests[i].scene = data.scene
         /\ requests[i].id = data.scene_item_id /\ requests[i].value = ~IsOn
UpToDate ==
    /\ Visibility => (data.is_visible <=> IsOn)
    /\ state = StateOf(IsOn) \/ Owed
\* A visibility button without its item has been told, but hears no more.
Heard == told /\ HasItem
ToldInv == Heard /\ ~crossed =>
    /\ connected
    /\ \A i \in 1 .. Len(inbox) : ~inbox[i].late
    /\ kind \in Listing \cup {"toggle_recording"}
    /\ Subject(data.scene, data.source) /\ (Visibility => OwnItem)
    /\ Silent(inbox, 1, data.scene, data.source) => UpToDate

ObsInv == LateInv /\ MirrorInv /\ ToldInv

\* Lists that say the same.
SameNews(q, r) ==
    /\ Len(r) = Len(q) /\ Len(q) \in Nat
    /\ \A i \in 1 .. Len(q) :
         /\ r[i].type = q[i].type /\ r[i].to = q[i].to /\ r[i].scene = q[i].scene
         /\ r[i].source = q[i].source /\ r[i].id = q[i].id /\ r[i].value = q[i].value
         /\ r[i].enabled = q[i].enabled /\ r[i].late = q[i].late

LEMMA AgedNews ==
    ASSUME NEW q \in Seq(Message)
    PROVE  SameNews(q, q) /\ SameNews(q, Stale(q)) /\ SameNews(q, Gone(q))
<1>1. Len(q) \in Nat /\ DOMAIN q = 1 .. Len(q) /\ \A i \in 1 .. Len(q) : q[i] \in Message
  OBVIOUS
<1>2. Ages(Message)
  BY DEF Ages, Message
<1>3. Len(Stale(q)) = Len(q) /\ Len(Gone(q)) = Len(q)
  BY <1>2, AgedLists
<1>4. ASSUME NEW i \in 1 .. Len(q), NEW r \in {Stale(q), Gone(q)}
      PROVE  /\ r[i].type = q[i].type /\ r[i].to = q[i].to /\ r[i].scene = q[i].scene
             /\ r[i].source = q[i].source /\ r[i].id = q[i].id /\ r[i].value = q[i].value
             /\ r[i].enabled = q[i].enabled /\ r[i].late = q[i].late
  <2> DEFINE m == q[i]
  <2>1. m \in Message
    BY <1>1
  <2>2. \/ r[i] = [m EXCEPT !.stale = m.stale \/ m.to \notin {"none", "event"}]
        \/ r[i] = [m EXCEPT !.gone = m.gone \/ m.to \in ToWidgets]
    BY <1>1 DEF Stale, Gone
  <2> HIDE DEF m
  <2>3. /\ r[i].type = m.type /\ r[i].to = m.to /\ r[i].scene = m.scene
        /\ r[i].source = m.source /\ r[i].id = m.id /\ r[i].value = m.value
        /\ r[i].enabled = m.enabled /\ r[i].late = m.late
    BY <2>1, <2>2 DEF Message
  <2> QED  BY <2>3 DEF m
<1> QED  BY <1>1, <1>3, <1>4 DEF SameNews

LEMMA SameNewsTells ==
    ASSUME NEW q, NEW r, SameNews(q, r), NEW s, NEW x
    PROVE  /\ \A i \in 1 .. Len(q) : /\ Tells(r[i], s, x) <=> Tells(q[i], s, x)
                                     /\ Says(r[i], s, x) <=> Says(q[i], s, x)
           /\ \A n \in Nat \ {0} : Silent(r, n, s, x) <=> Silent(q, n, s, x)
<1>1. ASSUME NEW i \in 1 .. Len(q)
      PROVE  /\ Tells(r[i], s, x) <=> Tells(q[i], s, x)
             /\ Says(r[i], s, x) <=> Says(q[i], s, x)
  BY DEF SameNews, Tells, Says
<1>2. ASSUME NEW n \in Nat \ {0} PROVE Silent(r, n, s, x) <=> Silent(q, n, s, x)
  <2>1. Len(r) = Len(q) /\ Len(q) \in Nat
    BY DEF SameNews
  <2>2. \A j \in n .. Len(q) : j \in 1 .. Len(q)
    BY <2>1
  <2> QED  BY <1>1, <2>1, <2>2 DEF Silent
<1> QED  BY <1>1, <1>2

LEMMA NowOnKept ==
    ASSUME UNCHANGED <<kind, obs>>
    PROVE  \A s, x : (NowOn(s, x)' <=> NowOn(s, x)) /\ (Subject(s, x)' <=> Subject(s, x))
  BY DEF NowOn, Subject, Visibility

LEMMA NewsKept ==
    ASSUME ObsInv, UNCHANGED <<kind, obs, connected>>, SameNews(inbox, inbox')
    PROVE  LateInv' /\ MirrorInv'
<1>1. /\ Len(inbox') = Len(inbox) /\ Len(inbox) \in Nat
      /\ \A i \in 1 .. Len(inbox) : inbox'[i].late = inbox[i].late
  BY DEF SameNews
<1>2. LateInv'
  BY <1>1 DEF ObsInv, LateInv
<1>3. ASSUME NEW s \in Scenes \cup {NULL}, NEW x \in Sources \cup {NULL}, Subject(s, x)'
      PROVE  Mirrors(inbox, s, x)'
  <2>1. Mirrors(inbox, s, x) /\ (NowOn(s, x)' <=> NowOn(s, x))
    BY <1>3, NowOnKept DEF ObsInv, MirrorInv
  <2>2. ASSUME NEW i \in 1 .. Len(inbox'), Tells(inbox'[i], s, x), Silent(inbox', i + 1, s, x)
        PROVE  Says(inbox'[i], s, x) <=> NowOn(s, x)
    <3>1. i \in 1 .. Len(inbox) /\ i + 1 \in Nat \ {0}
      BY <1>1, <2>2
    <3>2. Tells(inbox[i], s, x) /\ Silent(inbox, i + 1, s, x)
          /\ (Says(inbox'[i], s, x) <=> Says(inbox[i], s, x))
      BY <2>2, <3>1, SameNewsTells
    <3> QED  BY <2>1, <3>1, <3>2 DEF Mirrors
  <2> QED  BY <2>1, <2>2 DEF Mirrors, Silent, Tells, Says
<1> QED  BY <1>2, <1>3 DEF MirrorInv

\* The requests that were on their way still are.
Keeps(q, r) ==
    \A i \in 1 .. Len(q) : \E j \in 1 .. Len(r) :
      /\ r[j].type = q[i].type /\ r[j].scene = q[i].scene /\ r[j].id = q[i].id
      /\ r[j].value = q[i].value

LEMMA RequestsKept ==
    ASSUME NEW q \in Seq(Message), NEW r \in Seq(Message), SameNews(q, r)
    PROVE  /\ Keeps(q, r)
           /\ \A m \in Message : Keeps(q, Append(r, m))
           /\ \A a \in Seq(Message) : Keeps(q, r \o a)
<1>1. Len(r) = Len(q) /\ Len(q) \in Nat
  BY DEF SameNews
<1>2. Keeps(q, r)
  BY <1>1 DEF SameNews, Keeps
<1>3. ASSUME NEW m \in Message PROVE Keeps(q, Append(r, m))
  <2>1. /\ Len(Append(r, m)) = Len(r) + 1
        /\ \A i \in 1 .. Len(r) : Append(r, m)[i] = r[i]
    OBVIOUS
  <2> QED  BY <1>1, <2>1 DEF SameNews, Keeps
<1>4. ASSUME NEW a \in Seq(Message) PROVE Keeps(q, r \o a)
  <2>1. /\ Len(r \o a) = Len(r) + Len(a) /\ Len(a) \in Nat
        /\ \A i \in 1 .. Len(r) + Len(a) : (r \o a)[i] = IF i <= Len(r) THEN r[i] ELSE a[i - Len(r)]
    BY ConcatProperties
  <2>2. ASSUME NEW i \in 1 .. Len(q)
        PROVE  \E j \in 1 .. Len(r \o a) :
                 /\ (r \o a)[j].type = q[i].type /\ (r \o a)[j].scene = q[i].scene
                 /\ (r \o a)[j].id = q[i].id /\ (r \o a)[j].value = q[i].value
    <3>1. i \in 1 .. Len(r \o a) /\ (r \o a)[i] = r[i]
      BY <1>1, <2>1
    <3> QED  BY <3>1 DEF SameNews
  <2> QED  BY <2>2 DEF Keeps
<1> QED  BY <1>2, <1>3, <1>4

LEMMA IsOnIsNow == IsOn <=> NowOn(data.scene, data.source)
  BY DEF IsOn, NowOn, Visibility

LEMMA HeardKept ==
    ASSUME UNCHANGED <<kind, told, data.scene_item_id>>
    PROVE  Heard' <=> Heard
  BY DEF Heard, HasItem, KnownItem

LEMMA ToldKept ==
    ASSUME ObsInv, UNCHANGED <<kind, obs, connected, state, told, crossed>>,
           UNCHANGED <<data.scene, data.source, data.scene_item_id, data.is_visible>>,
           SameNews(inbox, inbox'), Keeps(requests, requests')
    PROVE  ToldInv'
<1> SUFFICES ASSUME Heard, ~crossed
             PROVE  /\ connected'
                    /\ \A i \in 1 .. Len(inbox') : ~inbox'[i].late
                    /\ kind' \in Listing \cup {"toggle_recording"}
                    /\ Subject(data.scene, data.source)' /\ (Visibility' => OwnItem')
                    /\ Silent(inbox, 1, data.scene, data.source)' => UpToDate'
  BY HeardKept DEF ToldInv
<1>1. /\ connected
      /\ \A i \in 1 .. Len(inbox) : ~inbox[i].late
      /\ kind \in Listing \cup {"toggle_recording"}
      /\ Subject(data.scene, data.source) /\ (Visibility => OwnItem)
      /\ Silent(inbox, 1, data.scene, data.source) => UpToDate
  BY DEF ObsInv, ToldInv
<1>2. /\ connected' /\ kind' \in Listing \cup {"toggle_recording"}
      /\ \A i \in 1 .. Len(inbox') : ~inbox'[i].late
  BY <1>1 DEF SameNews
<1>3. Subject(data.scene, data.source)' /\ (Visibility' <=> Visibility)
      /\ (OwnItem' <=> OwnItem) /\ (IsOn' <=> IsOn)
  BY <1>1 DEF Subject, Visibility, OwnItem, IsOn
<1>4. ASSUME Silent(inbox, 1, data.scene, data.source)' PROVE UpToDate'
  <2>1. Silent(inbox', 1, data.scene, data.source)
    BY <1>4 DEF Silent, Tells
  <2>2. UpToDate
    BY <1>1, <2>1, SameNewsTells
  <2>3. Owed => Owed'
    BY <1>3 DEF Owed, Keeps
  <2> QED  BY <1>3, <2>2, <2>3 DEF UpToDate, StateOf
<1> QED  BY <1>1, <1>2, <1>3, <1>4

(***************************************************************************)
(* Presses and the configuration bring no news.                            *)
(***************************************************************************)
LEMMA InitObs == Init => ObsInv
<1> SUFFICES ASSUME Init PROVE ObsInv
  OBVIOUS
<1>1. inbox = <<>> /\ told = FALSE /\ Len(inbox) = 0
  BY DEF Init
<1> QED  BY <1>1 DEF ObsInv, LateInv, MirrorInv, Mirrors, ToldInv, Heard

LEMMA QuietObs ==
    ASSUME TypeInv, ObsInv, UNCHANGED <<kind, obs, connected, state, told, crossed, inbox>>,
           UNCHANGED <<data.scene, data.source, data.scene_item_id, data.is_visible>>,
           \/ UNCHANGED requests
           \/ \E r \in Outgoing : requests' = Sent(requests, r)
    PROVE  ObsInv'
<1>1. SameNews(inbox, inbox') /\ SameNews(requests, requests)
  BY QueuesOfMessages, AgedNews
<1>2. \A r \in Outgoing : r \in Message
  BY DEF Outgoing
<1>3. Keeps(requests, requests')
  BY <1>1, <1>2, QueuesOfMessages, RequestsKept DEF Sent
<1> QED  BY <1>1, <1>3, NewsKept, ToldKept DEF ObsInv

LEMMA PressObs ==
    ASSUME TypeInv, ObsInv, NEW t \in Threads, obs_plugin_exec(t)
    PROVE  ObsInv'
  BY PressIs, QuietObs

LEMMA SendFoundObs ==
    ASSUME TypeInv, ObsInv, NEW t \in Threads, SendFound(t)
    PROVE  ObsInv'
  BY SendFoundIs, QuietObs

LEMMA EnterTextObs ==
    ASSUME TypeInv, ObsInv, EnterText
    PROVE  ObsInv'
<1>1. PICK text \in Texts :
        /\ data' = [data EXCEPT !.text = text]
        /\ UNCHANGED <<kind, state, obs, connected, requests, inbox, crossed, told>>
  BY DEF EnterText
<1>2. UNCHANGED <<data.scene, data.source, data.scene_item_id, data.is_visible>>
  BY <1>1 DEF TypeInv, ButtonTypes, Data
<1> QED  BY <1>1, <1>2, QuietObs

LEMMA ConfigObs ==
    ASSUME TypeInv, ObsInv, obs_plugin_config
    PROVE  ObsInv'
<1>1. /\ UNCHANGED <<kind, data, state, obs, connected, told, crossed>> /\ inbox' = Gone(inbox)
      /\ requests' = IF connected THEN Gone(requests) \o Asked ELSE requests
  BY DEF obs_plugin_config, history
<1>2. requests \in Seq(Message) /\ inbox \in Seq(Message) /\ Gone(requests) \in Seq(Message)
  BY QueuesOfMessages, AgedLists DEF Ages, Message
<1>3. SameNews(inbox, inbox') /\ SameNews(requests, requests) /\ SameNews(requests, Gone(requests))
  BY <1>1, <1>2, AgedNews
<1>4. Keeps(requests, requests')
  <2>1. Asked \in Seq(Message)
    BY AskedTypes, SeqMonotonic DEF Outgoing
  <2> QED  BY <1>1, <1>2, <1>3, <2>1, RequestsKept
<1> QED  BY <1>1, <1>3, <1>4, NewsKept, ToldKept DEF ObsInv

LEMMA DeselectObs ==
    ASSUME TypeInv, ObsInv, Deselect
    PROVE  ObsInv'
<1>1. /\ UNCHANGED <<kind, data, state, obs, connected, told, crossed>> /\ inbox' = Gone(inbox)
      /\ requests' = Gone(requests)
  BY DEF Deselect, history
<1>2. requests \in Seq(Message) /\ inbox \in Seq(Message) /\ Gone(requests) \in Seq(Message)
  BY QueuesOfMessages, AgedLists DEF Ages, Message
<1>3. SameNews(inbox, inbox') /\ SameNews(requests, Gone(requests))
  BY <1>1, <1>2, AgedNews
<1>4. Keeps(requests, requests')
  BY <1>1, <1>2, <1>3, RequestsKept
<1> QED  BY <1>1, <1>3, <1>4, NewsKept, ToldKept DEF ObsInv

LEMMA ChooseFirstObs ==
    ASSUME TypeInv, ObsInv, ChooseFirst
    PROVE  ObsInv'
<1>1. UNCHANGED <<kind, obs, connected>> /\ inbox' = Stale(inbox) /\ told' = FALSE
  BY DEF ChooseFirst
<1>2. SameNews(inbox, inbox')
  BY <1>1, QueuesOfMessages, AgedNews
<1> QED  BY <1>1, <1>2, NewsKept DEF ObsInv, ToldInv, Heard

LEMMA ChooseSourceObs ==
    ASSUME TypeInv, ObsInv, ChooseSource
    PROVE  ObsInv'
<1>1. UNCHANGED <<kind, obs, connected>> /\ inbox' = Stale(inbox) /\ told' = FALSE
  BY DEF ChooseSource
<1>2. SameNews(inbox, inbox')
  BY <1>1, QueuesOfMessages, AgedNews
<1> QED  BY <1>1, <1>2, NewsKept DEF ObsInv, ToldInv, Heard

(***************************************************************************)
(* Connections and restarts.                                               *)
(***************************************************************************)
LEMMA DisconnectObs ==
    ASSUME TypeInv, ObsInv, Disconnect
    PROVE  ObsInv'
<1>1. connected' = FALSE /\ told' = FALSE
  BY DEF Disconnect
<1>2. PICK n \in 0 .. Len(inbox) : inbox' = [i \in 1 .. n |-> [inbox[i] EXCEPT !.late = TRUE]]
  BY DEF Disconnect
<1>3. Len(inbox) \in Nat /\ \A i \in 1 .. Len(inbox) : inbox[i] \in Message
  BY QueuesOfMessages
<1>4. ASSUME NEW i \in 1 .. n PROVE inbox'[i].late = TRUE /\ inbox'[i] \in Message
  <2>1. inbox[i] \in Message /\ inbox'[i] = [inbox[i] EXCEPT !.late = TRUE]
    BY <1>2, <1>3
  <2> QED  BY <2>1 DEF Message
<1>5. Len(inbox') = n
  BY <1>2, <1>3, <1>4, ListOf
<1>6. \A i \in 1 .. Len(inbox') : inbox'[i].late
  BY <1>4, <1>5
<1>7. LateInv'
  BY <1>6 DEF LateInv
<1>8. MirrorInv'
  BY <1>6 DEF MirrorInv, Mirrors, Tells
<1> QED  BY <1>1, <1>7, <1>8 DEF ObsInv, ToldInv, Heard

LEMMA ConnectedObs ==
    ASSUME ObsInv, on_ws_connected
    PROVE  ObsInv'
<1>1. UNCHANGED <<kind, data, state, obs, requests, inbox, crossed, told>> /\ connected' /\ ~connected
  BY DEF on_ws_connected, history
<1>2. LateInv'
  BY <1>1 DEF ObsInv, LateInv
<1>3. MirrorInv'
  BY <1>1 DEF ObsInv, MirrorInv, Mirrors, Silent, Subject, NowOn, Visibility, Tells, Says
<1>4. ToldInv'
  BY HeardKept, <1>1 DEF ObsInv, ToldInv
<1> QED  BY <1>2, <1>3, <1>4 DEF ObsInv

LEMMA LoadObs ==
    ASSUME load
    PROVE  ObsInv'
<1>1. inbox' = <<>> /\ told' = FALSE
  BY DEF load
<1>2. Len(inbox') = 0
  BY <1>1
<1> QED  BY <1>1, <1>2 DEF ObsInv, LateInv, MirrorInv, Mirrors, ToldInv, Heard

(***************************************************************************)
(* OBS changes, and tells of it.                                           *)
(***************************************************************************)
\* Messages that say what OBS becomes, and all of it that changes.
TellsAll(n) ==
    /\ \A i \in 1 .. Len(n) : ~n[i].late
    /\ \A s \in Scenes \cup {NULL}, x \in Sources \cup {NULL} : Subject(s, x) =>
         /\ \A i \in 1 .. Len(n) : Tells(n[i], s, x) => (Says(n[i], s, x) <=> NowOn(s, x)')
         /\ Silent(n, 1, s, x) => (NowOn(s, x)' <=> NowOn(s, x))

LEMMA SceneTells ==
    ASSUME TypeInv, kind = "change_scene", UNCHANGED kind, NEW r \in Scenes,
           obs' = SetScene(r).obs
    PROVE  TellsAll(SetScene(r).events)
<1> DEFINE n == SetScene(r).events
<1>1. PICK e \in News : /\ e.type = "CurrentProgramSceneChanged" /\ e.scene = r
                        /\ n = IF r = obs.program THEN <<>> ELSE <<e>>
  BY SetSceneTypes
<1>2. obs'.program = r /\ e.late = FALSE /\ e.to = "event"
  BY <1>1, SetSceneTypes DEF News, Events
<1> HIDE DEF n
<1>3. ASSUME NEW s, NEW x
      PROVE  /\ NowOn(s, x) <=> obs.program = s
             /\ NowOn(s, x)' <=> r = s
             /\ Tells(e, s, x) /\ (Says(e, s, x) <=> r = s)
  BY <1>1, <1>2 DEF NowOn, Tells, Says, Visibility, Lookups
<1>4. CASE r = obs.program
  <2>1. n = <<>> /\ Len(n) = 0
    BY <1>1, <1>4
  <2> QED  BY <1>3, <1>4, <2>1 DEF TellsAll, n
<1>5. CASE r # obs.program
  <2>1. n = <<e>> /\ Len(n) = 1 /\ n[1] = e
    BY <1>1, <1>5
  <2> QED  BY <1>2, <1>3, <2>1 DEF TellsAll, Silent, n
<1> QED  BY <1>4, <1>5

LEMMA MuteTells ==
    ASSUME TypeInv, kind = "mute_source", UNCHANGED kind, NEW y \in AudioInputs,
           obs' = ToggleMute(y).obs
    PROVE  TellsAll(ToggleMute(y).events)
<1> DEFINE n == ToggleMute(y).events
<1>1. PICK e \in News : /\ e.type = "InputMuteStateChanged" /\ e.source = y
                        /\ e.value = ~obs.muted[y] /\ n = <<e>>
  BY ToggleMuteTypes
<1>2. e.late = FALSE /\ e.to = "event" /\ Len(n) = 1 /\ n[1] = e
  BY <1>1 DEF News, Events
<1>3. \A x \in AudioInputs : obs'.muted[x] = IF x = y THEN ~obs.muted[y] ELSE obs.muted[x]
  BY ToggleMuteTypes
<1> HIDE DEF n
<1>4. ASSUME NEW s, NEW x, Subject(s, x)
      PROVE  /\ NowOn(s, x) <=> obs.muted[x]
             /\ NowOn(s, x)' <=> (IF x = y THEN ~obs.muted[y] ELSE obs.muted[x])
             /\ Tells(e, s, x) <=> x = y
             /\ Says(e, s, x) <=> ~obs.muted[y]
  <2>1. x \in AudioInputs
    BY <1>4 DEF Subject
  <2>2. NowOn(s, x) <=> obs.muted[x]
    BY DEF NowOn, Visibility
  <2>3. NowOn(s, x)' <=> obs'.muted[x]
    BY DEF NowOn, Visibility
  <2>4. /\ Tells(e, s, x) <=> x = y
        /\ Says(e, s, x) <=> ~obs.muted[y]
    BY <1>1, <1>2 DEF Tells, Says, Lookups
  <2> QED  BY <1>3, <2>1, <2>2, <2>3, <2>4
<1> QED  BY <1>2, <1>4 DEF TellsAll, Silent, n

LEMMA RecordTells ==
    ASSUME TypeInv, kind = "toggle_recording", UNCHANGED kind, obs' = ToggleRecord.obs
    PROVE  TellsAll(ToggleRecord.events)
<1> DEFINE n == ToggleRecord.events
<1>1. PICK d \in News, e \in News :
        /\ d.type \in {"OBS_WEBSOCKET_OUTPUT_STARTING", "OBS_WEBSOCKET_OUTPUT_STOPPING"}
        /\ e.type = IF obs.recording THEN "OBS_WEBSOCKET_OUTPUT_STOPPED"
                                     ELSE "OBS_WEBSOCKET_OUTPUT_STARTED"
        /\ n = <<d, e>>
  BY ToggleRecordTypes
<1>2. /\ d.late = FALSE /\ d.to = "event" /\ e.late = FALSE /\ e.to = "event"
      /\ Len(n) = 2 /\ n[1] = d /\ n[2] = e
  BY <1>1 DEF News, Events
<1>3. obs'.recording = ~obs.recording /\ obs.recording \in BOOLEAN
  BY ToggleRecordTypes DEF TypeInv, ObsTypes, ObsStates
<1> HIDE DEF n
<1>4. ASSUME NEW s, NEW x
      PROVE  /\ NowOn(s, x) <=> obs.recording
             /\ NowOn(s, x)' <=> ~obs.recording
             /\ ~Tells(d, s, x) /\ Tells(e, s, x)
             /\ Says(e, s, x) <=> ~obs.recording
  <2>1. /\ NowOn(s, x) <=> obs.recording
        /\ NowOn(s, x)' <=> ~obs.recording
    BY <1>3 DEF NowOn, Visibility
  <2>2. ~Tells(d, s, x)
    BY <1>1, <1>2 DEF Tells, Lookups
  <2>3. Tells(e, s, x) /\ (Says(e, s, x) <=> ~obs.recording)
    BY <1>1, <1>2, <1>3 DEF Tells, Says, Lookups
  <2> QED  BY <2>1, <2>2, <2>3
<1> QED  BY <1>2, <1>4 DEF TellsAll, Silent, n

LEMMA EnabledTells ==
    ASSUME TypeInv, Visibility, UNCHANGED kind, NEW r \in Scenes, NEW id \in Ids \cup {Unknown},
           NEW on \in BOOLEAN, obs' = SetEnabled(r, id, on).obs
    PROVE  TellsAll(SetEnabled(r, id, on).events)
<1> DEFINE n == SetEnabled(r, id, on).events
<1>1. \A s \in Scenes : \A x \in ItemsOf(s) :
        obs'.enabled[s][x] = IF s = r /\ ItemId[s][x] = id THEN on ELSE obs.enabled[s][x]
  BY SetEnabledTypes
<1>2. ASSUME NEW s, NEW x, Subject(s, x)
      PROVE  /\ s \in Scenes /\ x \in ItemsOf(s)
             /\ NowOn(s, x) <=> obs.enabled[s][x]
             /\ NowOn(s, x)' <=> (IF s = r /\ ItemId[s][x] = id THEN on ELSE obs.enabled[s][x])
  <2>1. s \in Scenes /\ x \in ItemsOf(s)
    BY <1>2 DEF Subject
  <2>2. NowOn(s, x) <=> obs.enabled[s][x]
    BY DEF NowOn, Visibility
  <2>3. NowOn(s, x)' <=> obs'.enabled[s][x]
    BY DEF NowOn, Visibility
  <2> QED  BY <1>1, <2>1, <2>2, <2>3
<1>3. CASE n = <<>> /\ \A x \in ItemsOf(r) : ItemId[r][x] = id => obs.enabled[r][x] = on
  <2>1. Len(n) = 0
    BY <1>3
  <2>2. \A s, x : Subject(s, x) => (NowOn(s, x)' <=> NowOn(s, x))
    BY <1>2, <1>3
  <2> HIDE DEF n
  <2>3. TellsAll(n)
    BY <2>1, <2>2 DEF TellsAll
  <2> QED  BY <2>3 DEF n
<1>4. ASSUME NEW e \in News, e.type = "SceneItemEnableStateChanged", e.scene = r, e.id = id,
             e.value = on, n = <<e>>
      PROVE  TellsAll(n)
  <2>1. e.late = FALSE /\ e.to = "event" /\ Len(n) = 1 /\ n[1] = e
    BY <1>4 DEF News, Events
  <2> HIDE DEF n
  <2>2. ASSUME NEW s, NEW x, Subject(s, x)
        PROVE  /\ Tells(e, s, x) <=> (s = r /\ ItemId[s][x] = id)
               /\ Says(e, s, x) <=> on
    BY <1>4, <2>1 DEF Tells, Says, Lookups
  <2> QED  BY <1>2, <2>1, <2>2 DEF TellsAll, Silent
<1>5. \/ n = <<>> /\ \A x \in ItemsOf(r) : ItemId[r][x] = id => obs.enabled[r][x] = on
      \/ \E e \in News : /\ e.type = "SceneItemEnableStateChanged" /\ e.scene = r /\ e.id = id
                         /\ e.value = on /\ n = <<e>>
  BY SetEnabledTypes
<1> QED  BY <1>3, <1>4, <1>5

LEMMA ChangeTells ==
    ASSUME TypeInv, UNCHANGED kind, NEW c, IsChange(c), obs' = c.obs
    PROVE  TellsAll(c.events)
<1>1. ASSUME c = NoChange PROVE TellsAll(c.events)
  <2>1. c.events = <<>> /\ Len(c.events) = 0 /\ obs' = obs
    BY <1>1 DEF NoChange
  <2> QED  BY <2>1, NowOnKept DEF TellsAll
<1> QED  BY <1>1, SceneTells, MuteTells, RecordTells, EnabledTells DEF IsChange

\* What is appended to the list says what becomes of it.
LEMMA AppendedNews ==
    ASSUME TypeInv, ObsInv, connected, UNCHANGED <<kind, connected>>, NEW n \in Seq(Incoming),
           inbox' = inbox \o n, TellsAll(n)
    PROVE  /\ LateInv' /\ MirrorInv'
           /\ Len(inbox') = Len(inbox) + Len(n)
           /\ \A i \in 1 .. Len(inbox') : inbox'[i].late => i <= Len(inbox) /\ inbox[i].late
           /\ \A s, x : Silent(inbox', 1, s, x) => Silent(inbox, 1, s, x) /\ Silent(n, 1, s, x)
<1>1. /\ Len(inbox') = Len(inbox) + Len(n) /\ Len(inbox) \in Nat /\ Len(n) \in Nat
      /\ \A i \in 1 .. Len(inbox) + Len(n) :
           inbox'[i] = IF i <= Len(inbox) THEN inbox[i] ELSE n[i - Len(inbox)]
  BY ConcatProperties DEF TypeInv, QueueTypes
<1>2. \A i \in 1 .. Len(inbox) : i \in 1 .. Len(inbox') /\ inbox'[i] = inbox[i]
  BY <1>1
<1>3. \A i \in 1 .. Len(n) : Len(inbox) + i \in 1 .. Len(inbox') /\ inbox'[Len(inbox) + i] = n[i]
  BY <1>1
<1>4. \A i \in 1 .. Len(inbox') : \/ i \in 1 .. Len(inbox)
                                  \/ i - Len(inbox) \in 1 .. Len(n) /\ inbox'[i] = n[i - Len(inbox)]
  BY <1>1
<1>5. \A i \in 1 .. Len(inbox') : inbox'[i].late => i \in 1 .. Len(inbox) /\ inbox[i].late
  BY <1>2, <1>4 DEF TellsAll
<1>6. LateInv'
  BY <1>1, <1>2, <1>5 DEF ObsInv, LateInv
<1>7. ASSUME NEW s, NEW x, Silent(inbox', 1, s, x)
      PROVE  Silent(inbox, 1, s, x) /\ Silent(n, 1, s, x)
  BY <1>1, <1>2, <1>3, <1>7 DEF Silent
<1>8. ASSUME NEW s \in Scenes \cup {NULL}, NEW x \in Sources \cup {NULL}, Subject(s, x)'
      PROVE  Mirrors(inbox, s, x)'
  <2>1. Subject(s, x)
    BY <1>8 DEF Subject, Visibility
  <2>2. ASSUME NEW i \in 1 .. Len(inbox'), Tells(inbox'[i], s, x), Silent(inbox', i + 1, s, x)
        PROVE  Says(inbox'[i], s, x) <=> NowOn(s, x)'
    <3>1. CASE i \in 1 .. Len(inbox)
      <4>1. Silent(n, 1, s, x)
        <5> SUFFICES ASSUME NEW j \in 1 .. Len(n) PROVE ~Tells(n[j], s, x)
          BY DEF Silent
        <5>1. Len(inbox) + j \in i + 1 .. Len(inbox') /\ inbox'[Len(inbox) + j] = n[j]
          BY <1>1, <1>3, <3>1
        <5> QED  BY <2>2, <5>1 DEF Silent
      <4>2. Silent(inbox, i + 1, s, x)
        <5> SUFFICES ASSUME NEW j \in i + 1 .. Len(inbox) PROVE ~Tells(inbox[j], s, x)
          BY DEF Silent
        <5>1. j \in i + 1 .. Len(inbox') /\ inbox'[j] = inbox[j]
          BY <1>1, <1>2, <3>1
        <5> QED  BY <2>2, <5>1 DEF Silent
      <4>3. Says(inbox[i], s, x) <=> NowOn(s, x)
        BY <1>2, <2>1, <2>2, <3>1, <4>2 DEF ObsInv, MirrorInv, Mirrors
      <4> QED  BY <1>2, <2>1, <3>1, <4>1, <4>3 DEF TellsAll
    <3>2. CASE i - Len(inbox) \in 1 .. Len(n) /\ inbox'[i] = n[i - Len(inbox)]
      BY <2>1, <2>2, <3>2 DEF TellsAll
    <3> QED  BY <1>4, <3>1, <3>2
  <2> QED  BY <2>2 DEF Mirrors, Silent, Tells, Says
<1>9. MirrorInv'
  BY <1>8 DEF MirrorInv
<1> QED  BY <1>1, <1>5, <1>6, <1>7, <1>9

LEMMA AnswerTells ==
    ASSUME TypeInv, UNCHANGED kind, NEW r \in Outgoing, obs' = Outcome(r).obs
    PROVE  /\ Outcome(r).events \o Answers(r) \in Seq(Incoming)
           /\ TellsAll(Outcome(r).events \o Answers(r))
<1> DEFINE e == Outcome(r).events
           a == Answers(r)
<1>1. e \in Seq(Incoming) /\ a \in Seq(Incoming)
  BY OutcomeTypes, AnswersTypes
<1>2. TellsAll(e)
  BY OutcomeChanges, ChangeTells
<1>3. CASE r.to = "none"
  <2>1. r.type # "GetSceneItemList"
    BY <1>3 DEF Outgoing, Asks, Orders, ItemLists, Lookups
  <2>2. a = <<>>
    BY <1>3, <2>1 DEF Answers
  <2> HIDE DEF e
  <2>3. e \o a = e
    BY <1>1, <2>2, ConcatEmptySeq
  <2> QED  BY <1>1, <1>2, <2>3 DEF e
<1>4. CASE r.to # "none"
  <2>1. Outcome(r) = NoChange /\ e = <<>> /\ obs' = obs
    BY <1>4, OutcomeIs DEF NoChange
  <2>2. PICK b \in Incoming : /\ a = <<b>> /\ b.to = r.to /\ b.scene = r.scene /\ b.late = FALSE
                              /\ r.to \in ItemLists => b.enabled = obs.enabled[r.scene]
    BY <1>4, AnswersTypes
  <2> HIDE DEF e, a
  <2>3. e \o a = a
    BY <1>1, <2>1, ConcatEmptySeq
  <2>4. Len(a) = 1 /\ a[1] = b /\ ~b.late
    BY <2>2
  <2>5. ASSUME NEW s, NEW x, Subject(s, x), Tells(b, s, x)
        PROVE  Says(b, s, x) <=> NowOn(s, x)
    <3>1. Asks(b)
      BY <1>4, <2>2 DEF Incoming, Events, Outgoing, Asks, Orders, ItemLists, Lookups
    <3>2. b.to \in Lookups /\ b.scene = s /\ Visibility
      BY <2>5, <3>1 DEF Tells, Asks, ItemLists, Lookups
    <3>3. Says(b, s, x) <=> b.enabled[x]
      BY <3>1, <3>2 DEF Says, Asks, ItemLists, Lookups
    <3>4. b.enabled = obs.enabled[s]
      BY <2>2, <3>2 DEF ItemLists
    <3> QED  BY <3>2, <3>3, <3>4 DEF NowOn, Visibility
  <2>6. TellsAll(a)
    BY <2>1, <2>4, <2>5, NowOnKept DEF TellsAll
  <2> QED  BY <1>1, <2>3, <2>6 DEF e, a
<1> QED  BY <1>3, <1>4

LEMMA ToggleTells ==
    ASSUME TypeInv, Visibility
    PROVE  \A s \in Scenes, on \in BOOLEAN, id \in Ids \cup {Unknown} :
             (\E x \in ItemsOf(s) : ItemId[s][x] = id /\ obs.enabled[s][x] # on) =>
               \E e \in News : /\ e.type = "SceneItemEnableStateChanged" /\ e.scene = s
                              /\ e.id = id /\ SetEnabled(s, id, on).events = <<e>>
<1> SUFFICES ASSUME NEW s \in Scenes, NEW on \in BOOLEAN, NEW id \in Ids \cup {Unknown},
                    NEW x \in ItemsOf(s), ItemId[s][x] = id, obs.enabled[s][x] # on
             PROVE  \E e \in News : /\ e.type = "SceneItemEnableStateChanged" /\ e.scene = s
                                    /\ e.id = id /\ SetEnabled(s, id, on).events = <<e>>
  OBVIOUS
<1>1. ~(\A y \in ItemsOf(s) : ItemId[s][y] = id => obs.enabled[s][y] = on)
  OBVIOUS
<1>2. \/ \A y \in ItemsOf(s) : ItemId[s][y] = id => obs.enabled[s][y] = on
      \/ \E e \in News : /\ e.type = "SceneItemEnableStateChanged" /\ e.scene = s
                         /\ e.id = id /\ e.value = on /\ SetEnabled(s, id, on).events = <<e>>
  BY SetEnabledTypes
<1> QED  BY <1>1, <1>2

\* A toggle that is owed is told of when OBS reads it.
LEMMA OwedIsTold ==
    ASSUME TypeInv, NEW r \in Outgoing, UNCHANGED kind, obs' = Outcome(r).obs,
           Subject(data.scene, data.source), Visibility, OwnItem,
           r.type = "SetSceneItemEnabled", r.scene = data.scene, r.id = data.scene_item_id,
           r.value = ~IsOn
    PROVE  ~Silent(Outcome(r).events \o Answers(r), 1, data.scene, data.source)
<1> DEFINE on == r.value
           n == SetEnabled(r.scene, r.id, on).events
<1>1. /\ r.to = "none" /\ r.scene \in Scenes /\ r.id \in Ids \cup {Unknown}
      /\ on \in BOOLEAN /\ Outcome(r) = SetEnabled(r.scene, r.id, on)
  BY OutcomeIs DEF Visibility
<1>2. Outcome(r).events \o Answers(r) = n
  <2>1. Answers(r) = <<>>
    BY <1>1 DEF Answers
  <2> QED  BY <1>1, <2>1, OutcomeTypes, ConcatEmptySeq
<1>3. /\ data.source \in ItemsOf(data.scene)
      /\ data.scene_item_id = ItemId[data.scene][data.source]
      /\ IsOn <=> obs.enabled[data.scene][data.source]
      /\ obs.enabled[data.scene][data.source] \in BOOLEAN
  BY <1>1 DEF OwnItem, IsOn, Visibility, TypeInv, ObsTypes, ObsStates, EnabledItems
<1>4. PICK e \in News : /\ e.type = "SceneItemEnableStateChanged" /\ e.scene = data.scene
                        /\ e.id = data.scene_item_id /\ n = <<e>>
  <2>1. obs.enabled[r.scene][data.source] # on
    BY <1>3
  <2>2. data.source \in ItemsOf(r.scene) /\ ItemId[r.scene][data.source] = r.id
    BY <1>3
  <2>3. Visibility /\ r.scene \in Scenes /\ r.id \in Ids \cup {Unknown} /\ on \in BOOLEAN
    BY <1>1
  <2>4. \E x \in ItemsOf(r.scene) : ItemId[r.scene][x] = r.id /\ obs.enabled[r.scene][x] # on
    BY <2>1, <2>2
  <2> HIDE DEF on
  <2>5. \E e \in News : /\ e.type = "SceneItemEnableStateChanged" /\ e.scene = r.scene
                        /\ e.id = r.id /\ n = <<e>>
    BY <2>3, <2>4, ToggleTells
  <2> QED  BY <2>5
<1>5. Tells(e, data.scene, data.source) /\ Len(n) = 1 /\ n[1] = e
  BY <1>3, <1>4 DEF Tells, News
<1> HIDE DEF n
<1> QED  BY <1>2, <1>5 DEF Silent

LEMMA PeerReadsObs ==
    ASSUME TypeInv, ObsInv, PeerReads
    PROVE  ObsInv'
<1> DEFINE r == Head(requests)
           n == Outcome(r).events \o Answers(r)
<1>1. /\ UNCHANGED <<kind, data, state, conf, pool, connected, chosen, crossed, told>> /\ connected
      /\ requests # <<>> /\ requests' = Tail(requests) /\ obs' = Outcome(r).obs
      /\ inbox' = (inbox \o Outcome(r).events) \o Answers(r)
  BY DEF PeerReads, history
<1>2. r \in Outgoing /\ requests \in Seq(Outgoing)
  BY <1>1, Lists DEF TypeInv, QueueTypes
<1> HIDE DEF r
<1>3. n \in Seq(Incoming) /\ TellsAll(n)
  BY <1>1, <1>2, AnswerTells
<1>4. inbox' = inbox \o n
  <2> DEFINE e == Outcome(r).events
             a == Answers(r)
  <2>1. e \in Seq(Incoming) /\ a \in Seq(Incoming) /\ inbox \in Seq(Incoming)
    BY <1>2, OutcomeTypes, AnswersTypes DEF TypeInv, QueueTypes
  <2>2. inbox' = (inbox \o e) \o a
    BY <1>1
  <2> HIDE DEF e, a
  <2>3. (inbox \o e) \o a = inbox \o (e \o a)
    BY <2>1, ConcatAssociative
  <2> QED  BY <2>2, <2>3 DEF e, a
<1>5. ASSUME Heard, ~crossed
      PROVE  /\ Subject(data.scene, data.source) /\ (Visibility => OwnItem)
             /\ \A i \in 1 .. Len(inbox) : ~inbox[i].late
             /\ kind \in Listing \cup {"toggle_recording"}
             /\ Silent(inbox, 1, data.scene, data.source) => UpToDate
  BY <1>5 DEF ObsInv, ToldInv
<1>6. ASSUME Heard, ~crossed, Silent(n, 1, data.scene, data.source)
      PROVE  (IsOn' <=> IsOn) /\ (Owed => Owed')
  <2>1. IsOn' <=> IsOn
    <3>1. NowOn(data.scene, data.source)' <=> NowOn(data.scene, data.source)
      <4>1. data.scene \in Scenes \cup {NULL} /\ data.source \in Sources \cup {NULL}
        BY DEF TypeInv, ButtonTypes, Data
      <4>2. \A s \in Scenes \cup {NULL}, x \in Sources \cup {NULL} :
              Subject(s, x) /\ Silent(n, 1, s, x) => (NowOn(s, x)' <=> NowOn(s, x))
        BY <1>3 DEF TellsAll
      <4>3. NowOn(data.scene, data.source)' <=> \E s, x : s = data.scene /\ x = data.source /\ NowOn(s, x)'
        BY <1>1 DEF NowOn, Visibility
      <4> QED  BY <1>5, <1>6, <4>1, <4>2, <4>3
    <3> QED  BY <1>1, <3>1, IsOnIsNow DEF IsOn, NowOn, Visibility
  <2>2. ASSUME Owed PROVE Owed'
    <3>1. PICK i \in 1 .. Len(requests) :
            /\ requests[i].type = "SetSceneItemEnabled" /\ requests[i].scene = data.scene
            /\ requests[i].id = data.scene_item_id /\ requests[i].value = ~IsOn
      BY <2>2 DEF Owed
    <3>2. i # 1
      <4>1. requests[1] = r
        BY <1>1, <1>2 DEF r
      <4> QED  BY <1>1, <1>2, <1>5, <1>6, <2>2, <3>1, <4>1, OwedIsTold DEF Owed
    <3>3. i - 1 \in 1 .. Len(requests') /\ requests'[i - 1] = requests[i]
      BY <1>1, <1>2, <3>1, <3>2, HeadTailProperties
    <3> QED  BY <1>1, <2>1, <2>2, <3>1, <3>3 DEF Owed, Visibility
  <2> QED  BY <2>1, <2>2
<1> HIDE DEF n
<1>7. /\ LateInv' /\ MirrorInv'
      /\ \A i \in 1 .. Len(inbox') : inbox'[i].late => i \in 1 .. Len(inbox) /\ inbox[i].late
      /\ \A s, x : Silent(inbox', 1, s, x) => Silent(inbox, 1, s, x) /\ Silent(n, 1, s, x)
  BY <1>1, <1>3, <1>4, AppendedNews
<1>8. ToldInv'
  <2> SUFFICES ASSUME Heard, ~crossed
               PROVE  /\ connected'
                      /\ \A i \in 1 .. Len(inbox') : ~inbox'[i].late
                      /\ kind' \in Listing \cup {"toggle_recording"}
                      /\ Subject(data.scene, data.source)' /\ (Visibility' => OwnItem')
                      /\ Silent(inbox, 1, data.scene, data.source)' => UpToDate'
    BY HeardKept, <1>1 DEF ToldInv
  <2>1. Subject(data.scene, data.source)' /\ (Visibility' => OwnItem')
    BY <1>1, <1>5 DEF Subject, Visibility, OwnItem
  <2>2. ASSUME Silent(inbox, 1, data.scene, data.source)' PROVE UpToDate'
    <3>1. Silent(inbox', 1, data.scene, data.source)
      BY <1>1, <2>2 DEF Silent, Tells
    <3>2. /\ Silent(inbox, 1, data.scene, data.source)
          /\ Silent(n, 1, data.scene, data.source)
      BY <1>7, <3>1
    <3> QED  BY <1>1, <1>5, <1>6, <3>2 DEF UpToDate, StateOf, Visibility
  <2> QED  BY <1>1, <1>5, <1>7, <2>1, <2>2
<1> QED  BY <1>7, <1>8 DEF ObsInv

LEMMA PeerChangesObs ==
    ASSUME TypeInv, ObsInv, PeerChanges
    PROVE  ObsInv'
<1>1. UNCHANGED <<kind, data, state, connected, requests, crossed, told>>
  BY ChangeIs
<1>2. PICK c : /\ IsChange(c) /\ obs' = c.obs
               /\ inbox' = IF connected THEN inbox \o c.events ELSE inbox
  BY PeerChangesIs
<1> DEFINE n == c.events
<1>3. n \in Seq(Incoming) /\ TellsAll(n)
  BY <1>1, <1>2, ChangeNews, ChangeTells, NewsFresh
<1>4. CASE ~connected
  <2>1. \A i \in 1 .. Len(inbox) : inbox[i].late
    BY <1>4 DEF ObsInv, LateInv
  <2>2. LateInv' /\ MirrorInv'
    BY <1>1, <1>2, <1>4, <2>1 DEF LateInv, MirrorInv, Mirrors, Tells
  <2>3. ToldInv'
    BY HeardKept, <1>1, <1>4 DEF ObsInv, ToldInv
  <2> QED  BY <2>2, <2>3 DEF ObsInv
<1>5. CASE connected
  <2>1. inbox' = inbox \o n
    BY <1>2, <1>5
  <2>2. ASSUME Heard, ~crossed
        PROVE  /\ Subject(data.scene, data.source) /\ (Visibility => OwnItem)
               /\ \A i \in 1 .. Len(inbox) : ~inbox[i].late
               /\ kind \in Listing \cup {"toggle_recording"}
               /\ Silent(inbox, 1, data.scene, data.source) => UpToDate
    BY <2>2 DEF ObsInv, ToldInv
  <2>3. ASSUME Heard, ~crossed, Silent(n, 1, data.scene, data.source)
        PROVE  (IsOn' <=> IsOn) /\ (Owed => Owed')
    <3>1. NowOn(data.scene, data.source)' <=> NowOn(data.scene, data.source)
      <4>1. data.scene \in Scenes \cup {NULL} /\ data.source \in Sources \cup {NULL}
        BY DEF TypeInv, ButtonTypes, Data
      <4>2. \A s \in Scenes \cup {NULL}, x \in Sources \cup {NULL} :
              Subject(s, x) /\ Silent(n, 1, s, x) => (NowOn(s, x)' <=> NowOn(s, x))
        BY <1>3 DEF TellsAll
      <4>3. NowOn(data.scene, data.source)' <=> \E s, x : s = data.scene /\ x = data.source /\ NowOn(s, x)'
        BY <1>1 DEF NowOn, Visibility
      <4> QED  BY <2>2, <2>3, <4>1, <4>2, <4>3
    <3>2. IsOn' <=> IsOn
      BY <1>1, <3>1, IsOnIsNow DEF IsOn, NowOn, Visibility
    <3> QED  BY <1>1, <3>2 DEF Owed, Visibility
  <2> HIDE DEF n
  <2>4. /\ LateInv' /\ MirrorInv'
        /\ \A i \in 1 .. Len(inbox') : inbox'[i].late => i \in 1 .. Len(inbox) /\ inbox[i].late
        /\ \A s, x : Silent(inbox', 1, s, x) => Silent(inbox, 1, s, x) /\ Silent(n, 1, s, x)
    BY <1>1, <1>3, <1>5, <2>1, AppendedNews
  <2>5. ToldInv'
    <3> SUFFICES ASSUME Heard, ~crossed
                 PROVE  /\ connected'
                        /\ \A i \in 1 .. Len(inbox') : ~inbox'[i].late
                        /\ kind' \in Listing \cup {"toggle_recording"}
                        /\ Subject(data.scene, data.source)' /\ (Visibility' => OwnItem')
                        /\ Silent(inbox, 1, data.scene, data.source)' => UpToDate'
      BY HeardKept, <1>1 DEF ToldInv
    <3>1. Subject(data.scene, data.source)' /\ (Visibility' => OwnItem')
      BY <1>1, <2>2 DEF Subject, Visibility, OwnItem
    <3>2. ASSUME Silent(inbox, 1, data.scene, data.source)' PROVE UpToDate'
      <4>1. Silent(inbox', 1, data.scene, data.source)
        BY <1>1, <3>2 DEF Silent, Tells
      <4>2. /\ Silent(inbox, 1, data.scene, data.source)
            /\ Silent(n, 1, data.scene, data.source)
        BY <2>4, <4>1
      <4> QED  BY <1>1, <2>2, <2>3, <4>2 DEF UpToDate, StateOf, Visibility
    <3> QED  BY <1>1, <1>5, <2>2, <2>4, <3>1, <3>2
  <2> QED  BY <2>4, <2>5 DEF ObsInv
<1> QED  BY <1>4, <1>5

(***************************************************************************)
(* The main loop takes the first message.                                  *)
(***************************************************************************)
LEMMA FirstOf ==
    ASSUME NEW S, NEW q \in Seq(S), q # <<>>
    PROVE  /\ Len(q) \in Nat \ {0} /\ Len(Tail(q)) = Len(q) - 1 /\ Head(q) = q[1]
           /\ \A i \in 1 .. Len(Tail(q)) : Tail(q)[i] = q[i + 1] /\ i + 1 \in 1 .. Len(q)
<1>1. Len(q) \in Nat \ {0} /\ Head(q) = q[1]
  BY EmptySeq
<1>2. Len(Tail(q)) = Len(q) - 1 /\ \A i \in 1 .. Len(Tail(q)) : Tail(q)[i] = q[i + 1]
  BY HeadTailProperties
<1> QED  BY <1>1, <1>2

LEMMA HeadNews ==
    ASSUME TypeInv, ObsInv, inbox # <<>>,
           NEW s \in Scenes \cup {NULL}, NEW x \in Sources \cup {NULL}
    PROVE  /\ Silent(Tail(inbox), 1, s, x) => Silent(inbox, 2, s, x)
           /\ Silent(Tail(inbox), 1, s, x) /\ ~Tells(Head(inbox), s, x) => Silent(inbox, 1, s, x)
           /\ Subject(s, x) /\ Tells(Head(inbox), s, x) /\ Silent(Tail(inbox), 1, s, x) =>
                (Says(Head(inbox), s, x) <=> NowOn(s, x))
           /\ Subject(s, x) => Mirrors(Tail(inbox), s, x)
<1> DEFINE q == Tail(inbox)
<1>1. /\ Len(inbox) \in Nat \ {0} /\ Len(q) = Len(inbox) - 1 /\ Head(inbox) = inbox[1]
      /\ \A i \in 1 .. Len(q) : q[i] = inbox[i + 1] /\ i + 1 \in 1 .. Len(inbox)
  BY FirstOf DEF TypeInv, QueueTypes
<1> HIDE DEF q
<1>2. ASSUME NEW n \in Nat \ {0}, Silent(q, n, s, x)
      PROVE  Silent(inbox, n + 1, s, x)
  <2> SUFFICES ASSUME NEW j \in n + 1 .. Len(inbox) PROVE ~Tells(inbox[j], s, x)
    BY DEF Silent
  <2>1. j - 1 \in n .. Len(q) /\ j - 1 \in 1 .. Len(q) /\ (j - 1) + 1 = j
    BY <1>1
  <2> QED  BY <1>1, <1>2, <2>1 DEF Silent
<1>3. Silent(q, 1, s, x) => Silent(inbox, 2, s, x)
  BY <1>2
<1>4. Silent(q, 1, s, x) /\ ~Tells(Head(inbox), s, x) => Silent(inbox, 1, s, x)
  <2>1. \A j \in 1 .. Len(inbox) : j = 1 \/ j \in 2 .. Len(inbox)
    BY <1>1
  <2> QED  BY <1>1, <1>3, <2>1 DEF Silent
<1>5. Subject(s, x) => Mirrors(inbox, s, x)
  BY DEF ObsInv, MirrorInv
<1>6. Subject(s, x) /\ Tells(Head(inbox), s, x) /\ Silent(q, 1, s, x) =>
        (Says(Head(inbox), s, x) <=> NowOn(s, x))
  <2>1. 1 \in 1 .. Len(inbox) /\ 1 + 1 = 2
    BY <1>1
  <2> QED  BY <1>1, <1>3, <1>5, <2>1 DEF Mirrors
<1>7. ASSUME Subject(s, x) PROVE Mirrors(q, s, x)
  <2> SUFFICES ASSUME NEW i \in 1 .. Len(q), Tells(q[i], s, x), Silent(q, i + 1, s, x)
               PROVE  Says(q[i], s, x) <=> NowOn(s, x)
    BY DEF Mirrors
  <2>1. q[i] = inbox[i + 1] /\ i + 1 \in 1 .. Len(inbox) /\ i + 1 \in Nat \ {0}
    BY <1>1
  <2>2. Silent(inbox, (i + 1) + 1, s, x)
    BY <1>2, <2>1
  <2> QED  BY <1>5, <1>7, <2>1, <2>2 DEF Mirrors
<1> QED  BY <1>3, <1>4, <1>6, <1>7 DEF q

LEMMA TailLate ==
    ASSUME TypeInv, ObsInv, inbox # <<>>, inbox' = Tail(inbox), UNCHANGED connected
    PROVE  /\ LateInv'
           /\ ~Head(inbox).late => connected /\ \A i \in 1 .. Len(inbox') : ~inbox'[i].late
<1>1. /\ Len(inbox) \in Nat \ {0} /\ Len(inbox') = Len(inbox) - 1 /\ Head(inbox) = inbox[1]
      /\ \A i \in 1 .. Len(inbox') : inbox'[i] = inbox[i + 1] /\ i + 1 \in 1 .. Len(inbox)
  BY FirstOf DEF TypeInv, QueueTypes
<1>2. /\ ~connected => \A i \in 1 .. Len(inbox) : inbox[i].late
      /\ \A i, j \in 1 .. Len(inbox) : i <= j /\ inbox[j].late => inbox[i].late
  BY DEF ObsInv, LateInv
<1>3. ~connected' => \A i \in 1 .. Len(inbox') : inbox'[i].late
  BY <1>1, <1>2
<1>4. ASSUME NEW i \in 1 .. Len(inbox'), NEW j \in 1 .. Len(inbox'), i <= j, inbox'[j].late
      PROVE  inbox'[i].late
  <2>1. i + 1 \in 1 .. Len(inbox) /\ j + 1 \in 1 .. Len(inbox) /\ i + 1 <= j + 1
    BY <1>1, <1>4
  <2> QED  BY <1>1, <1>2, <1>4, <2>1
<1>5. 1 \in 1 .. Len(inbox) /\ \A i \in 1 .. Len(inbox') : 1 <= i + 1
  BY <1>1
<1> QED  BY <1>1, <1>2, <1>3, <1>4, <1>5 DEF LateInv

\* A message that tells the button nothing changes nothing of what it was told.
LEMMA NoNewsObs ==
    ASSUME TypeInv, ObsInv, inbox # <<>>, inbox' = Tail(inbox),
           UNCHANGED <<kind, obs, connected, state>>,
           Heard' /\ ~crossed' =>
             /\ Heard /\ ~crossed /\ data' = data /\ Keeps(requests, requests')
             /\ ~Tells(Head(inbox), data.scene, data.source)
    PROVE  ToldInv'
<1> SUFFICES ASSUME Heard', ~crossed'
             PROVE  /\ connected'
                    /\ \A i \in 1 .. Len(inbox') : ~inbox'[i].late
                    /\ kind' \in Listing \cup {"toggle_recording"}
                    /\ Subject(data.scene, data.source)' /\ (Visibility' => OwnItem')
                    /\ Silent(inbox, 1, data.scene, data.source)' => UpToDate'
  BY DEF ToldInv
<1>1. /\ Heard /\ ~crossed /\ data' = data /\ Keeps(requests, requests')
      /\ ~Tells(Head(inbox), data.scene, data.source)
  OBVIOUS
<1>2. /\ connected
      /\ \A i \in 1 .. Len(inbox) : ~inbox[i].late
      /\ kind \in Listing \cup {"toggle_recording"}
      /\ Subject(data.scene, data.source) /\ (Visibility => OwnItem)
      /\ Silent(inbox, 1, data.scene, data.source) => UpToDate
  BY <1>1 DEF ObsInv, ToldInv
<1>3. \A i \in 1 .. Len(inbox') : ~inbox'[i].late
  <2>1. \A i \in 1 .. Len(inbox') : inbox'[i] = inbox[i + 1] /\ i + 1 \in 1 .. Len(inbox)
    BY FirstOf DEF TypeInv, QueueTypes
  <2> QED  BY <1>2, <2>1
<1>4. Subject(data.scene, data.source)' /\ (Visibility' <=> Visibility)
      /\ (OwnItem' <=> OwnItem) /\ (IsOn' <=> IsOn)
  BY <1>1, <1>2 DEF Subject, Visibility, OwnItem, IsOn
<1>5. ASSUME Silent(inbox, 1, data.scene, data.source)' PROVE UpToDate'
  <2>1. Silent(Tail(inbox), 1, data.scene, data.source)
    BY <1>1, <1>5 DEF Silent, Tells
  <2>2. data.scene \in Scenes \cup {NULL} /\ data.source \in Sources \cup {NULL}
    BY DEF TypeInv, ButtonTypes, Data
  <2>3. UpToDate
    BY <1>1, <1>2, <2>1, <2>2, HeadNews
  <2>4. Owed => Owed'
    BY <1>1, <1>4 DEF Owed, Keeps
  <2> QED  BY <1>1, <1>4, <2>3, <2>4 DEF UpToDate, StateOf
<1> QED  BY <1>2, <1>3, <1>4, <1>5

\* A message that tells how the button's subject stands brings it up to date.
LEMMA NewsObs ==
    ASSUME TypeInv, ObsInv, inbox # <<>>, inbox' = Tail(inbox),
           UNCHANGED <<kind, obs, connected>>, NEW m, m = Head(inbox),
           told' /\ ~crossed' =>
             /\ ~m.late /\ kind \in Listing \cup {"toggle_recording"}
             /\ data'.scene = data.scene /\ data'.source = data.source
             /\ Subject(data.scene, data.source) /\ (Visibility => OwnItem')
             /\ Tells(m, data.scene, data.source)
             /\ Visibility => (data'.is_visible <=> Says(m, data.scene, data.source))
             /\ \/ state' = StateOf(Says(m, data.scene, data.source))
                \/ /\ Visibility
                   /\ \E i \in 1 .. Len(requests') :
                        /\ requests'[i].type = "SetSceneItemEnabled"
                        /\ requests'[i].scene = data.scene
                        /\ requests'[i].id = data'.scene_item_id
                        /\ requests'[i].value = ~Says(m, data.scene, data.source)
    PROVE  ToldInv'
<1> SUFFICES ASSUME Heard', ~crossed'
             PROVE  /\ connected'
                    /\ \A i \in 1 .. Len(inbox') : ~inbox'[i].late
                    /\ kind' \in Listing \cup {"toggle_recording"}
                    /\ Subject(data.scene, data.source)' /\ (Visibility' => OwnItem')
                    /\ Silent(inbox, 1, data.scene, data.source)' => UpToDate'
  BY DEF ToldInv
<1>1. /\ ~m.late /\ kind \in Listing \cup {"toggle_recording"}
      /\ data'.scene = data.scene /\ data'.source = data.source
      /\ Subject(data.scene, data.source) /\ (Visibility => OwnItem')
      /\ Tells(m, data.scene, data.source)
      /\ Visibility => (data'.is_visible <=> Says(m, data.scene, data.source))
  BY DEF Heard
<1>2. connected' /\ \A i \in 1 .. Len(inbox') : ~inbox'[i].late
  BY <1>1, TailLate
<1>3. Subject(data.scene, data.source)' /\ (Visibility' <=> Visibility)
  BY <1>1 DEF Subject, Visibility
<1>4. ASSUME Silent(inbox, 1, data.scene, data.source)' PROVE UpToDate'
  <2>1. Silent(Tail(inbox), 1, data.scene, data.source)
    BY <1>1, <1>4 DEF Silent, Tells
  <2>2. data.scene \in Scenes \cup {NULL} /\ data.source \in Sources \cup {NULL}
    BY DEF TypeInv, ButtonTypes, Data
  <2>3. Says(m, data.scene, data.source) <=> NowOn(data.scene, data.source)
    BY <1>1, <2>1, <2>2, HeadNews
  <2>4. IsOn' <=> NowOn(data.scene, data.source)
    BY <1>1 DEF IsOn, NowOn, Visibility
  <2>5. Visibility' => (data'.is_visible <=> IsOn')
    BY <1>1, <1>3, <2>3, <2>4
  <2>6. CASE state' = StateOf(Says(m, data.scene, data.source))
    BY <2>3, <2>4, <2>5, <2>6 DEF UpToDate, StateOf
  <2>7. CASE /\ Visibility
             /\ \E i \in 1 .. Len(requests') :
                  /\ requests'[i].type = "SetSceneItemEnabled" /\ requests'[i].scene = data.scene
                  /\ requests'[i].id = data'.scene_item_id
                  /\ requests'[i].value = ~Says(m, data.scene, data.source)
    <3>1. Owed'
      BY <1>1, <1>3, <2>3, <2>4, <2>7 DEF Owed
    <3> QED  BY <2>5, <3>1 DEF UpToDate
  <2>8. told' /\ ~crossed'
    BY DEF Heard
  <2> QED  BY <2>6, <2>7, <2>8
<1> QED  BY <1>1, <1>2, <1>3, <1>4

\* A picture of what a message says, and one of the same said otherwise.
LEMMA SamePicture ==
    ASSUME NEW a, NEW b, a <=> b
    PROVE  StateOf(a) = StateOf(b)
  BY DEF StateOf

LEMMA EventObs ==
    ASSUME TypeInv, ChoiceInv, ObsInv, inbox # <<>>, inbox' = Tail(inbox),
           UNCHANGED <<kind, obs, connected>>, NEW m \in Incoming, m = Head(inbox),
           m.to = "event", on_event(m)
    PROVE  ToldInv'
<1> DEFINE s == data.scene
           x == data.source
<1>1. Events(m) /\ m.to \notin Lookups /\ m \in Message /\ crossed' = crossed
      /\ UNCHANGED requests /\ m.late \in BOOLEAN
  BY IncomingTypes, EventTypesKept DEF Lookups, Message
<1>2. Keeps(requests, requests')
  BY <1>1 DEF Keeps
<1>3. CASE Ignored /\ (Heard /\ ~crossed => ~Tells(m, s, x))
  BY <1>2, <1>3, HeardKept, NoNewsObs DEF Ignored
<1>4. Heard /\ ~crossed => Subject(s, x) /\ (Visibility => OwnItem)
  BY DEF ObsInv, ToldInv
<1>5. data \in Data /\ s \in Scenes \cup {NULL} /\ x \in Sources \cup {NULL}
  BY DEF TypeInv, ButtonTypes, Data
<1>6. CASE kind = "change_scene"
  <2>1. m.type = "CurrentProgramSceneChanged"
    BY <1>1, <1>6 DEF Events, Visibility
  <2>2. state' = StateOf(m.scene = s) /\ told' = ~m.late /\ UNCHANGED data
    BY <1>6 DEF on_event, on_scene_changed, Shows
  <2>3. Says(m, s, x) <=> m.scene = s
    BY <1>1, <2>1 DEF Says
  <2>4. told' => Tells(m, s, x) /\ ~m.late
    BY <1>1, <2>1, <2>2 DEF Tells
  <2>5. state' = StateOf(Says(m, s, x))
    BY <2>2, <2>3, SamePicture
  <2>6. ~Visibility /\ kind \in Listing /\ Subject(s, x)
    BY <1>6 DEF Visibility, Listing, Subject
  <2> QED  BY <2>2, <2>4, <2>5, <2>6, NewsObs
<1>7. CASE kind = "mute_source"
  <2>1. m.type = "InputMuteStateChanged" /\ m.source \in AudioInputs
    BY <1>1, <1>7 DEF Events, Visibility
  <2>2. CASE m.source = x
    <3>1. state' = StateOf(m.value) /\ told' = ~m.late /\ UNCHANGED data
      BY <1>7, <2>2 DEF on_event, on_input_mute_changed, Shows
    <3>2. Says(m, s, x) <=> m.value
      BY <1>1, <2>1 DEF Says
    <3>3. told' => Tells(m, s, x) /\ ~m.late
      BY <1>1, <2>1, <2>2, <3>1 DEF Tells
    <3>4. state' = StateOf(Says(m, s, x))
      BY <3>1, <3>2, SamePicture
    <3>5. ~Visibility /\ kind \in Listing /\ Subject(s, x)
      BY <1>7, <2>1, <2>2 DEF Visibility, Listing, Subject
    <3> QED  BY <3>1, <3>3, <3>4, <3>5, NewsObs
  <2>3. CASE m.source # x
    <3>1. Ignored
      BY <1>7, <2>3 DEF on_event, on_input_mute_changed
    <3>2. ~Tells(m, s, x)
      BY <1>1, <2>1, <2>3 DEF Tells
    <3> QED  BY <1>3, <3>1, <3>2
  <2> QED  BY <2>2, <2>3
<1>8. CASE kind = "toggle_recording"
  <2>1. m.type \in {"OBS_WEBSOCKET_OUTPUT_STARTING", "OBS_WEBSOCKET_OUTPUT_STARTED",
                    "OBS_WEBSOCKET_OUTPUT_STOPPING", "OBS_WEBSOCKET_OUTPUT_STOPPED"}
    BY <1>1, <1>8 DEF Events, Visibility
  <2>2. CASE m.type \in {"OBS_WEBSOCKET_OUTPUT_STARTED", "OBS_WEBSOCKET_OUTPUT_STOPPED"}
    <3>1. /\ state' = StateOf(m.type = "OBS_WEBSOCKET_OUTPUT_STARTED")
          /\ told' = ~m.late /\ UNCHANGED data
      BY <1>8, <2>2 DEF on_event, on_record_state_changed, Shows, StateOf
    <3>2. Says(m, s, x) <=> m.type = "OBS_WEBSOCKET_OUTPUT_STARTED"
      BY <1>1, <2>2 DEF Says
    <3>3. told' => Tells(m, s, x) /\ ~m.late
      BY <1>1, <2>2, <3>1 DEF Tells
    <3>4. state' = StateOf(Says(m, s, x))
      BY <3>1, <3>2, SamePicture
    <3>5. ~Visibility /\ Subject(s, x)
      BY <1>8 DEF Visibility, Subject
    <3> QED  BY <1>8, <3>1, <3>3, <3>4, <3>5, NewsObs
  <2>3. CASE m.type \in {"OBS_WEBSOCKET_OUTPUT_STARTING", "OBS_WEBSOCKET_OUTPUT_STOPPING"}
    <3>1. Ignored
      BY <1>8, <2>3 DEF on_event, on_record_state_changed
    <3>2. ~Tells(m, s, x)
      BY <1>1, <2>3 DEF Tells
    <3> QED  BY <1>3, <3>1, <3>2
  <2> QED  BY <2>1, <2>2, <2>3
<1>9. CASE Visibility
  <2>1. /\ m.type = "SceneItemEnableStateChanged" /\ m.scene \in Scenes /\ m.id \in Ids
        /\ m.value \in BOOLEAN
    BY <1>1, <1>9 DEF Events, Visibility, Message
  <2>2. CASE IsForUs(m)
    <3>1. /\ state' = StateOf(m.value) /\ told' = ~m.late
          /\ data' = [data EXCEPT !.is_visible = m.value]
      BY <1>9, <2>2 DEF on_event, on_scene_item_enable_changed, Shows, Visibility
    <3>2. /\ data'.scene = s /\ data'.source = x /\ data'.scene_item_id = data.scene_item_id
          /\ data'.is_visible = m.value
      BY <1>5, <3>1 DEF Data
    <3>3. m.scene = s /\ m.id = data.scene_item_id /\ KnownItem
      <4>1. m.id # Unknown
        BY <2>1, IdsKnown
      <4> QED  BY <2>2, <4>1 DEF IsForUs, KnownItem
    <3>4. ~crossed => OwnItem
      BY <3>3 DEF ChoiceInv, ItemIsOfSource
    <3>5. Says(m, s, x) <=> m.value
      BY <1>1, <2>1 DEF Says
    <3>6. told' /\ ~crossed => Tells(m, s, x) /\ ~m.late
      BY <1>1, <2>1, <3>1, <3>3, <3>4 DEF Tells, OwnItem
    <3>7. state' = StateOf(Says(m, s, x))
      BY <3>1, <3>5, SamePicture
    <3>8. kind \in Listing /\ (~crossed => Subject(s, x) /\ OwnItem')
      BY <1>9, <2>1, <3>2, <3>3, <3>4 DEF Visibility, Listing, Subject, OwnItem
    <3>9. data'.is_visible <=> Says(m, s, x)
      BY <3>2, <3>5
    <3> QED  BY <1>1, <3>2, <3>6, <3>7, <3>8, <3>9, NewsObs
  <2>3. CASE ~IsForUs(m)
    <3>1. Ignored
      BY <1>9, <2>3 DEF on_event, on_scene_item_enable_changed, Visibility
    <3>2. Heard /\ ~crossed => ~Tells(m, s, x)
      BY <1>1, <1>4, <1>9, <2>1, <2>3 DEF Tells, OwnItem, IsForUs
    <3> QED  BY <1>3, <3>1, <3>2
  <2> QED  BY <2>2, <2>3
<1> QED  BY <1>1, <1>6, <1>7, <1>8, <1>9 DEF Events

\* What fills the widgets tells nothing.
LEMMA WidgetsObs ==
    ASSUME TypeInv, ChoiceInv, ObsInv, inbox # <<>>, inbox' = Tail(inbox),
           UNCHANGED <<kind, obs, connected>>, NEW m \in Incoming, m = Head(inbox),
           m.to \in ToWidgets, ~crossed => m.stale \/ Meant(m),
           \/ Ignored
           \/ m.to \in {"on_scene_list", "on_input_list"} /\ on_first_list(m)
           \/ m.to = "on_source_list" /\ on_source_list(m)
    PROVE  ToldInv'
<1>1. ~Tells(m, data.scene, data.source)
  BY DEF Incoming, Asks, Events, ItemLists, Lookups, ToWidgets, Tells
<1>2. /\ requests \in Seq(Message) /\ Keeps(requests, requests)
      /\ crossed \in BOOLEAN /\ told \in BOOLEAN
  BY QueuesOfMessages DEF Keeps, TypeInv, HistoryTypes
<1>3. CASE Ignored
  BY <1>1, <1>2, <1>3, HeardKept, NoNewsObs DEF Ignored
<1>4. CASE m.to \in {"on_scene_list", "on_input_list"} /\ on_first_list(m)
  <2>1. /\ crossed' = (crossed \/ m.stale) /\ UNCHANGED <<state, told>>
        /\ Meant(m) => data' = data
        /\ \/ UNCHANGED requests
           \/ \E asks \in Seq(Outgoing) :
                requests' = IF connected THEN requests \o asks ELSE requests
    BY <1>4, FirstListIs
  <2>2. ~crossed' => ~crossed /\ data' = data
    BY <1>2, <2>1
  <2>3. Keeps(requests, requests')
    <3>1. ASSUME NEW asks \in Seq(Outgoing),
                 requests' = IF connected THEN requests \o asks ELSE requests
          PROVE  Keeps(requests, requests')
      <4>1. asks \in Seq(Message) /\ SameNews(requests, requests)
        BY <1>2, AgedNews DEF Outgoing
      <4> QED  BY <1>2, <3>1, <4>1, RequestsKept
    <3> QED  BY <1>2, <2>1, <3>1
  <2>4. Heard' /\ ~crossed' => Heard
    BY <2>1, <2>2, HeardKept
  <2> QED  BY <1>1, <2>1, <2>2, <2>3, <2>4, NoNewsObs
<1>5. CASE m.to = "on_source_list" /\ on_source_list(m)
  <2>1. /\ crossed' = (crossed \/ m.stale) /\ UNCHANGED <<state, requests, told>>
        /\ data'.scene_item_id = Unknown \/ UNCHANGED data
    BY <1>5, SourceListIs
  <2>2. Visibility
    BY <1>5, IncomingTypes DEF ItemLists
  <2>3. Heard' => data' = data /\ Heard
    BY <2>1, <2>2, HeardKept DEF Heard, HasItem, KnownItem, Visibility
  <2> QED  BY <1>1, <1>2, <2>1, <2>3, NoNewsObs
<1> QED  BY <1>3, <1>4, <1>5

LEMMA LookupObs ==
    ASSUME TypeInv, ChoiceInv, ObsInv, inbox # <<>>, inbox' = Tail(inbox),
           UNCHANGED <<kind, obs, connected>>, NEW m \in Incoming, m = Head(inbox),
           ~crossed => m.stale \/ Meant(m),
           \/ m.to = "on_scene_item_lookup" /\ on_scene_item_lookup(m)
           \/ m.to = "on_scene_item_list_for_state" /\ on_scene_item_list_for_state(m)
    PROVE  ToldInv'
<1> DEFINE s == data.scene
           x == data.source
<1>1. m.to \in Lookups /\ Visibility /\ m.scene \in Scenes /\ m \in Message
      /\ kind \in Listing /\ m.type = "GetSceneItemList" /\ crossed \in BOOLEAN
      /\ m.late \in BOOLEAN
  BY IncomingTypes DEF Lookups, ItemLists, Listing, Visibility, Incoming, Asks, Events, Message,
     TypeInv, HistoryTypes
<1>2. CASE ~Matches(m)
  <2>1. Ignored /\ Keeps(requests, requests)
    BY <1>2 DEF on_scene_item_lookup, on_scene_item_list_for_state, Keeps
  <2>2. ASSUME Heard, ~crossed PROVE ~Tells(m, s, x)
    <3>1. s \in Scenes /\ x \in ItemsOf(s)
      BY <1>1, <2>2 DEF ObsInv, ToldInv, Subject
    <3>2. m.scene # s
      BY <1>2, <3>1, ObsActionsAssumption DEF Matches
    <3> QED  BY <1>1, <3>2 DEF Tells
  <2> QED  BY <2>1, <2>2, HeardKept, NoNewsObs DEF Ignored
<1>3. CASE Matches(m)
  <2>1. /\ crossed' = (crossed \/ m.stale) /\ data' = Found(m)
        /\ \/ told' = ~m.late /\ state' = StateOf(Found(m).is_visible)
           \/ \E r \in Outgoing :
                /\ r.type = "SetSceneItemEnabled" /\ r.scene = data.scene
                /\ r.id = Found(m).scene_item_id /\ r.value = ~Found(m).is_visible
                /\ told' = (connected /\ ~m.late) /\ requests' = Sent(requests, r)
    BY <1>3, LookupIs
  <2>2. /\ data'.scene = s /\ data'.source = x
        /\ data'.scene_item_id = ItemId[m.scene][x]
        /\ data'.is_visible = m.enabled[x] /\ data'.is_visible \in BOOLEAN
        /\ s \in Scenes /\ x \in ItemsOf(m.scene)
    BY <1>1, <1>3, <2>1, FoundTypes
  <2>3. ASSUME ~crossed'
        PROVE  m.scene = s /\ ~crossed /\ Subject(s, x) /\ OwnItem'
    <3>1. ~crossed /\ m.scene = s
      BY <1>1, <2>1, <2>3 DEF Meant, ItemLists
    <3> QED  BY <1>1, <2>2, <3>1 DEF Subject, OwnItem, Visibility
  <2>4. Says(m, s, x) <=> data'.is_visible
    BY <1>1, <2>2 DEF Says
  <2>5. ~crossed' /\ told' => ~m.late /\ Tells(m, s, x)
    BY <1>1, <2>1, <2>3 DEF Tells
  <2>6. ASSUME told', ~crossed'
        PROVE  \/ state' = StateOf(Says(m, s, x))
               \/ /\ Visibility
                  /\ \E i \in 1 .. Len(requests') :
                       /\ requests'[i].type = "SetSceneItemEnabled"
                       /\ requests'[i].scene = s
                       /\ requests'[i].id = data'.scene_item_id
                       /\ requests'[i].value = ~Says(m, s, x)
    <3>1. CASE state' = StateOf(Found(m).is_visible)
      <4>1. Found(m).is_visible <=> Says(m, s, x)
        BY <2>1, <2>4
      <4> QED  BY <3>1, <4>1, SamePicture
    <3>2. ASSUME NEW r \in Outgoing,
                 r.type = "SetSceneItemEnabled", r.scene = data.scene,
                 r.id = Found(m).scene_item_id, r.value = ~Found(m).is_visible,
                 told' = (connected /\ ~m.late), requests' = Sent(requests, r)
          PROVE  \E i \in 1 .. Len(requests') :
                   /\ requests'[i].type = "SetSceneItemEnabled" /\ requests'[i].scene = s
                   /\ requests'[i].id = data'.scene_item_id
                   /\ requests'[i].value = ~Says(m, s, x)
      <4>1. requests' = Append(requests, r) /\ requests \in Seq(Message) /\ r \in Message
        BY <2>6, <3>2, QueuesOfMessages DEF Sent, Outgoing
      <4>2. Len(requests') \in 1 .. Len(requests') /\ requests'[Len(requests')] = r
        BY <4>1
      <4>3. r.value = ~Says(m, s, x) /\ r.id = data'.scene_item_id
        BY <2>1, <2>2, <2>4, <3>2
      <4> QED  BY <3>2, <4>2, <4>3
    <3> QED  BY <1>1, <2>1, <3>1, <3>2
  <2> QED  BY <1>1, <2>2, <2>3, <2>4, <2>5, <2>6, NewsObs
<1> QED  BY <1>2, <1>3

LEMMA InvokeObs ==
    ASSUME TypeInv, ChoiceInv, ObsInv, invoke_callback_idle
    PROVE  ObsInv'
<1> DEFINE m == Head(inbox)
<1>1. /\ inbox # <<>> /\ inbox' = Tail(inbox) /\ Handles(m)
      /\ UNCHANGED <<kind, obs, connected>>
  BY Invoked
<1>2. m \in Incoming /\ (~crossed => m.stale \/ Meant(m))
  <2>1. m \in Incoming /\ (~crossed => m \in Fresh)
    BY <1>1, Lists DEF TypeInv, QueueTypes, ChoiceInv, MeantInv
  <2> QED  BY <2>1 DEF Fresh
<1>3. MirrorInv'
  <2> SUFFICES ASSUME NEW s \in Scenes \cup {NULL}, NEW x \in Sources \cup {NULL}, Subject(s, x)'
               PROVE  Mirrors(inbox, s, x)'
    BY DEF MirrorInv
  <2>1. Mirrors(inbox', s, x) /\ (NowOn(s, x)' <=> NowOn(s, x))
    BY <1>1, NowOnKept, HeadNews
  <2> QED  BY <2>1 DEF Mirrors, Silent, Tells, Says
<1> HIDE DEF m
<1>4. ToldInv'
  BY <1>1, <1>2, EventObs, WidgetsObs, LookupObs DEF Handles, ToWidgets, m
<1> QED  BY <1>1, <1>3, <1>4, TailLate DEF ObsInv

LEMMA NextObs == TypeInv /\ ChoiceInv /\ ObsInv /\ [Next]_obsVars => ObsInv'
<1> SUFFICES ASSUME TypeInv, ChoiceInv, ObsInv, [Next]_obsVars PROVE ObsInv'
  OBVIOUS
<1>1. CASE UNCHANGED obsVars
  <2>1. /\ UNCHANGED <<kind, obs, connected, state, told, crossed, inbox>>
        /\ UNCHANGED <<data.scene, data.source, data.scene_item_id, data.is_visible>>
        /\ UNCHANGED requests
    BY <1>1 DEF obsVars
  <2>2. Keeps(requests, requests')
    BY <2>1 DEF Keeps
  <2> QED  BY <2>1, <2>2, QuietObs
<1> QED  BY <1>1, PressObs, SendFoundObs, ConfigObs, DeselectObs, ChooseFirstObs,
            ChooseSourceObs, EnterTextObs, InvokeObs, PeerReadsObs, PeerChangesObs,
            DisconnectObs, ConnectedObs, LoadObs
         DEF Next, chapter_name_changed, on_file_set
-----------------------------------------------------------------------------
(***************************************************************************)
(* The inductive invariant, and what it is for.                            *)
(***************************************************************************)
IInv == TypeInv /\ ChoiceInv /\ ObsInv

LEMMA FollowsFromInv == IInv => FollowsObs
<1> SUFFICES ASSUME IInv, Quiet, Heard, ~crossed
             PROVE  /\ state = StateOf(IsOn)
                    /\ kind = "toggle_source_visibility" => data.is_visible = IsOn
  BY DEF FollowsObs, Heard
<1>1. Len(requests) = 0 /\ Len(inbox) = 0
  BY DEF Quiet
<1>2. Silent(inbox, 1, data.scene, data.source) /\ ~Owed
  BY <1>1 DEF Silent, Owed
<1>3. state = StateOf(IsOn) /\ (Visibility => (data.is_visible <=> IsOn))
  BY <1>2 DEF IInv, ObsInv, ToldInv, UpToDate
<1>4. data.is_visible \in BOOLEAN /\ IsOn \in BOOLEAN
  BY DEF IInv, TypeInv, ButtonTypes, Data, IsOn
<1> QED  BY <1>3, <1>4 DEF Visibility

(***************************************************************************)
(* The invariant holds in every state the buttons, OBS and the connection  *)
(* can reach.                                                              *)
(***************************************************************************)
THEOREM ObsActionsInvariant == Spec => []IInv
<1>1. Init => IInv
  BY InitTypes, InitChoice, InitObs DEF IInv
<1>2. IInv /\ [Next]_obsVars => IInv'
  BY NextTypes, NextChoice, NextObs DEF IInv
<1> QED  BY <1>1, <1>2, PTL DEF Spec

(***************************************************************************)
(* Every handler meets only messages of its own kind: the scene of a list, *)
(* the item of a toggle and the input of an event are ones there are.      *)
(***************************************************************************)
THEOREM ObsActionsTypes == Spec => []TypeOK
<1>1. IInv => TypeOK
  BY TypeInvImpliesTypeOK DEF IInv
<1> QED  BY <1>1, ObsActionsInvariant, PTL

(***************************************************************************)
(* Unless an answer overtakes a choice of the user, the button keeps what  *)
(* he configured, through every list, press, lost connection and restart.  *)
(***************************************************************************)
THEOREM TheChoiceIsKept == Spec => []ChoiceIsKept
<1>1. IInv => ChoiceIsKept
  BY DEF IInv, ChoiceInv
<1> QED  BY <1>1, ObsActionsInvariant, PTL

(***************************************************************************)
(* A scene item the button knows is that of its source, in its own scene   *)
(* unless an answer has overtaken a choice.                                *)
(***************************************************************************)
THEOREM TheItemIsOfTheSource == Spec => []ItemIsOfSource
<1>1. IInv => ItemIsOfSource
  BY DEF IInv, ChoiceInv
<1> QED  BY <1>1, ObsActionsInvariant, PTL

(***************************************************************************)
(* When nothing is on its way and OBS has told the button how its subject  *)
(* stands, since the last choice of the user and since the connection, the *)
(* button shows what OBS is, whatever was pressed, looked up or changed    *)
(* meanwhile and in whatever order.  A visibility button whose item has    *)
(* been cleared by opening its configuration is not spoken of until a      *)
(* press has looked the item up again, and neither is one whose choice an  *)
(* answer has overtaken.                                                   *)
(***************************************************************************)
THEOREM TheButtonFollowsObs == Spec => []FollowsObs
<1>1. IInv => FollowsObs
  BY FollowsFromInv
<1> QED  BY <1>1, ObsActionsInvariant, PTL

=============================================================================
