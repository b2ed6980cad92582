# gtkdeck: a TLA+ verification project

gtkdeck drives Elgato Stream Deck devices from a GTK desktop: every key of the
device shows a button, and pressing a key runs the button's action, among
them actions that control OBS Studio through a WebSocket. This directory holds
TLA+ models of the parts of gtkdeck where threads, callbacks, connections and
boundary arithmetic meet, TLC configurations that check them on small
instances, and TLAPS proofs of what holds for all instances. Paths below are
relative to `src/`.

## 1. The system

| component | code | state it keeps | operations |
|---|---|---|---|
| OBS client | `libobsws/libobsws.c` | `klass->inst`, `klass->callbacks`, `klass->ws_mutex`, `next_message_id`, `message_buffer`, the `obs` thread | 12 requests (`obs_ws_get_scenes` ...), `obs_ws_register_callback`, `ws_send`, `ws_emit`, the wic handlers, `obs_ws_main` |
| wic session | `libobsws/wic.c`, `transport.c` | `wic_inst.state`, handshake parser, socket | `wic_init`, `wic_start`, `wic_parse`, `wic_send_text`, `wic_close...`, `transport_*` |
| wic frame parser | `libobsws/wic.c` | `rx` state machine, 16 kB receive buffer, UTF-8 carry | `parse_opcode` ... `parse_data` |
| wic frame writer | `libobsws/wic.c` | `frag`, `utf8_tx`, the transmit buffer | `wic_send_text`, `wic_send_binary`, ping, pong, close, `min_frame_size`, `stream_put_frame` |
| OBS buttons and actions | `plugins/obs_plugin/**` | `obs_connected`, the action object and its cached scene, mute, recording and visibility state | clone, exec, event and response callbacks, save, load |
| button base class | `plugins/deck_plugin.c` | `state`, the pool of five threads | exec, `set_state`, `set_current_state`, save, load |
| deck grid | `ui/deck_grid.c` | `actions[rows * columns]`, the configuration file | drag and drop, key press, read and save the configuration, remove |
| key reader and device | `streamdeck/streamdeck.c` | the last key states, the HID handle, the reader thread | `read_key_states`, `generic_set_image`, `write_image` |
| main window | `ui/gtkdeck.c` | selection, configuration area | `show_config`, delete, activate |
| countdown | `plugins/gtkdeck/countdown.c` | `duration`, `remaining`, `timer_id`, `original_label`, the button's label | tick, press, edits of duration and label, free, save, load |
| system monitor | `plugins/system_monitor_plugin` | `prev_cpu_stat`, `cpu_percent`, `ram_percent`, `action_type`, two timers | the timers of CPU and memory, press, clone, finalize, save, load |
| system buttons, test plugin, image picker | `plugins/system`, `plugins/test_plugin`, `ui/` | none | one external effect per press |
| http_parser | vendored | - | - |

How they interact:

- Three kinds of threads run at once. The **GTK main thread** runs every GLib
  source (idle callbacks, timers, drag and drop, configuration widgets). The
  **device reader** thread turns key states into `key_pressed` signals, whose
  handlers run on the reader. It gives the button to a **pool of five threads**,
  which execute the action. A fourth, **obs**, owns the WebSocket.
- Shared state is protected in one place only: `klass->inst` and
  `klass->callbacks` under `ws_mutex`. The message counter, wic's state, wic's one
  static transmit buffer (`on_buffer_handler`), the socket, `actions[]` and every
  field of a button are not.
- The obs thread never runs a callback. `ws_emit` queues one GLib idle source
  for each registered callback and the main loop runs them.

What is hard (each at its line in `PROJECT.json`, "hazards"): frames built
by several threads in one buffer; a session that ends, fails to open or is
re-initialised under a thread that has read `klass->inst`; a lost connection that
must be noticed in every state; what an old session leaves behind for a new one;
the order in which answers reach callbacks over the idle queue; buttons freed while
the pool, the idle queue or the registry still hold them; device sizes other than
15 keys; paging, framing and unsigned arithmetic at their boundaries.

What makes each component correct:

- *OBS client*: a callback is registered before its request is sent, a response
  reaches its own caller, messages reach callbacks in order, every session's
  socket is closed, a dead session is not used for requests, a lost connection is
  retried and in the end identified.
- *wic frames*: what is delivered does not depend on where `recv` splits the
  stream; fragments and control frames reassemble as RFC 6455 says; no
  write leaves the receive buffer. What is sent is the frame that was asked for,
  never longer than its buffer, and no order of calls makes an illegal stream.
- *buttons, pool, grid*: no freed button is used, a saved grid is the one loaded,
  a key runs the button shown on it.
- *image transfer*: the pages of an image cover it exactly once, the last is marked.
- *countdown*: one timer at most, known to the button; the count ends and is never
  negative; the label comes back.
- *OBS actions*: a button keeps what the user configured, acts on what he chose and
  not on something else with the same number, and shows what OBS says.
- *system monitor*: the figures are the exact share of the time between two reads,
  whatever the width of the counters, and the figure drawn is the button's own.

## 2. The modules

| module | about |
|---|---|
| `ObsWs` | the OBS client, the wic session as it uses it, the threads that send requests, the main loop as it serves them, OBS and the network |
| `MCObsWs` | instances of `ObsWs` for TLC: the symmetry of buttons |
| `ObsWsProofs` | theorems about `ObsWs` for all values of its constants, with TLAPS proofs |
| `MCObsCalls` | a split of `ObsWs`'s behaviours for TLC: threads that race, or one caller alone |
| `WsFrames` | the opcodes and the bytes of a frame (RFC 6455), used by both halves of `wic.c` |
| `Utf8` | the UTF-8 automaton of `wic.c` (`utf8_parse`) |
| `Utf8Text` | what a UTF-8 text is (RFC 3629), by code points; the definition the automaton is held against |
| `WicRx` | the frame parser of `wic.c`, fed by `transport_recv`, and `on_message_handler` |
| `WsReceiver` | abstract: a receiver that takes one whole frame at a time (RFC 6455), which `WicRx` implements |
| `WicTx` | the calls of `wic.c` that write a frame |
| `MCWic` | instances of `WicRx`, `WicTx` and `Utf8`: the frames the peer may send, what the program may send, and strings of boundary bytes |
| `Utf8Proofs` | lemmas about the automaton: what its state says of any bytes it has read |
| `WicProofs` | theorems about `WicRx`, `WicTx` and the strings of `MCWic` for all buffer sizes, streams, payloads and strings |
| `ObsActions` | one button that controls OBS: its six actions, their widgets, their presses, OBS's answers and events |
| `ObsActionsProofs` | theorems about `ObsActions` for all scenes, sources, ids, threads and inputs |
| `Countdown` | a countdown button: the timer of the main loop against presses on the pool |
| `CountdownProofs` | theorems about `Countdown` for all threads, durations and labels |
| `SystemMonitor` | the figures of a system monitor button, in unsigned arithmetic, and what is drawn of them |
| `SystemMonitorProofs` | theorems about `SystemMonitor` for all widths of the counters |
| `MCButtons` | instances of `ObsActions`, `Countdown` and `SystemMonitor` |
| `KeyImage` | how a change of a button reaches its key: drawing, `notify::preview`, the pages of the image |
| `MCKeyImage` | instances of `KeyImage` for TLC; that the images of the real devices fit their page numbers |
| `MCLive` | instances of `ObsWs` and `KeyImage`, one or the other in a behaviour, for what must happen in the end |
| `KeyImageProofs` | theorems about `KeyImage` for all threads, keys, devices and image sizes |
| `DeckGrid` | the buttons of the grid: the window, the reader of the keys, the pool and the configuration file that use them |
| `SavedGrid` | abstract: a grid that survives crashes as the last save has collected it, which `DeckGrid` implements |
| `DeckGridProofs` | theorems about `DeckGrid` for all grids, addresses, actions and settings, the refinement of `SavedGrid` included |
| `MCDeckGrid` | instances of `DeckGrid`: the actions of two plugins |

`ObsWs` takes a message as one frame, or as a head and a tail that
`message_buffer` joins; `WicRx` is why it may: it runs the same thread's `recv` state
byte by byte. The two models meet there and share no variables. `WicTx` is the
sending side of the same: `ObsWs` has the races of several callers for one transmit
buffer, `WicTx` what one call writes there.

`ObsActions` rests on what is checked of `ObsWs`: an answer runs the callback of its own
request (`ResponseToLoneCaller`), and messages are handled in the order OBS sent them
(`MessagesInOrder`); both are proved. It takes both as given, so it says nothing of two threads
that got the same message id.

### ObsWs: state and actions against the code

The obs thread is `ObsThread`. Variable `obs` is the place in `obs_ws_main`:

| `obs` | in the code |
|---|---|
| `init` | top of the loop, or the sleep of 3 s before it |
| `connect` | `transport_open_client` |
| `start`, `sendHttp`, `publish` | `wic_start`: state and request built, request written, then `klass->inst = &inst` |
| `recv` | `transport_recv`, waiting for data |
| `upgraded`, `rejected` | inside `wic_parse`, between `state = READY` and the end of `on_response_complete`'s caller |
| `sendIdentify`, `sendPong`, `sendClose` | a frame is in the transmit buffer and not yet written |
| `onClose` | `close_with_reason` has set CLOSED; the transport and `on_close_handler` follow |

A thread that sends a request goes through `inst` (read `klass->inst`), `id` and
`bump` (`next_message_id++` is a load and a store), `register`, `check`, `promote`,
`recheck` (`allowed_to_send`: load, store, load), `put` (build the frame) and
`send` (write the buffer). Some request functions take their id before they read
the instance and some after (`job.idFirst`), and some give no callback (`job.cb`).
The pool threads do this while they execute a button, the main thread in a
handler, during which the main loop does nothing else (`MainFree`).

`callbacks` is the registry, a function from keys to lists. `idle` is the queue of
GLib idle sources. A button is created in two steps (`obs_plugin_clone` registers
its action's event, `obs_ws_register_callback` registers "Identified") because the
mutex is free between them. `invoke_callback_idle` runs the oldest source; for
"Identified" it runs `on_ws_connected`, which starts a request.

**Step size.** A step touches shared state once; a write under the mutex and what
follows from it is one step. `write()` of a frame is one step: it takes what
is in the shared buffer at that time, and where another frame has replaced it,
the other frame or a piece of it (`Garbled`), because the length is the first one's.

**OBS and the network** are external: `PeerReads` answers frames in order, sends
Hello after the handshake, requires Identify before any request, answers requests;
`PeerEvent` sends events and pings; `PeerFault` refuses, closes, or drops the
connection with any suffix of what was in flight.

**Abstractions.** A message is a record with its kind and a serial number. A
message larger than wic's receive buffer arrives as a head and a tail, which is
what `message_buffer` is for; the JSON and the bytes are left out. Times
are left out: the sleep of 3 s is a step that may take any time. The hash tables
exist from the start. `obs_ws_set_password` has no caller and is left out, as
is everything a button does besides using the client; no button is deleted here.
The history variables `opened`, `helloLost`, `serial`, `lastSerial` and the bounds
`calls`, `userCalls`, `faults`, `events`, `sessions` are not in the code.
A definition marked `Variant` is a form the code does not have. It shows that a
property would notice the difference and no specification uses it.

### WicRx: state and actions against the code

`wire` is what is on its way, `chunk` what `recv()` has returned and `wic_parse` has
not consumed. `rx` is `wic_inst.rx` with its state (`EXT` stands for `SIZE_0` to
`SIZE_9`, `MASK` for `MASK_0` to `MASK_3`), the size still to come, the mask and the
receive buffer `s`. One step is one turn of the loop in `wic_parse`:

| action | in the code |
|---|---|
| `transport_recv`, `ConnectionEnds` | `recv()` returns up to `RecvMax` bytes, or ends |
| `parse_opcode`, `parse_size`, `parse_extended_size`, `parse_mask` | the functions of that name, their refusals included |
| `Flush` | `parse_data` with a full buffer and more to come: a part of the message is handed over |
| `DataByte` | `parse_data` takes a byte: unmasked, checked as text, and the frame finished if it was the last (`Finish`) |
| `EmptyFrame` | `parse_data` after the header of a frame without payload |

`close_with_reason` closes and drops the rest of the chunk, as `wic_parse` does
("consume all bytes if not open"). The writes of the close frame and the pong are
in `replies`; how they share the transmit buffer with other threads is in `ObsWs`.
Frames with a mask are taken, as the code takes them, although a server may
not send them; a size in a longer form than needed is taken too, for data frames.
The peer is external: `FrameBytes` lays a frame out as RFC 6455 says, in
any of the three forms of size, and `Inputs` holds what a session may contain.

`WsReceiver` knows frames, messages and replies, and nothing of bytes on the wire, of
the automaton or of buffers. The refinement maps `kind` to `rx.frag`, `part` to what
`message_buffer` holds of *finished* frames (`flushed` counts the rest) and `open`
to `wic = "OPEN"`. One judgement is left to the implementation: a close frame
whose code is illegal and whose reason is no text may be refused for either.

Two facts about the code came out of the model and are stated as assumptions or
guards. The mask is counted from the start of the receive buffer, which `Flush` rewinds in
the middle of a frame: right for 16384, wrong for any size that is no multiple of
four, so `WicRxAssumption` asks for one. And `parse_mask` returns an uninitialised
`blocked`: whichever it returns, `transport_recv` comes back with the bytes
that are left, so the steps of the model are the same.

### WicTx: state and actions against the code

One step is one call: `wic_send_text`, `wic_send_binary`, `wic_send_ping_with_payload`,
`send_pong_with_payload` or `wic_close_with_reason`. `tx_state`, `frag` and `utf8_tx` are the
fields of `wic_inst` that the call reads and writes; `frame` is what it gives to `on_send`,
`status` what it returns. A frame is refused before it is laid out when
`min_frame_size` passes the buffer (`TxMax`), and given up as `WOULD_BLOCK` when
`stream_put_frame` writes more than that function counted: that this never happens is
`FrameFits`. Sizes are `uint16_t`, so `Cut` keeps of a payload what is left of its size
modulo `SizeModulus` (65536 in the code). The mask is the constant that `init_mask` makes of a
generator that returns nothing. `peer` is history: how far a receiver that follows
RFC 6455 has come with the frames so far.

libobsws.c itself sends whole texts, pongs and closes. The calls for binary data, for
fragments and for pings belong to the same library and are modelled because they share `frag`
and `utf8_tx` with the ones that are used.

`WsFrames` says what a frame is on the wire, for `WicRx` as the peer's encoder and for
`WicTx` as what the written bytes are compared with.

### ObsActions: state and actions against the code

One button, of one of the six actions, against OBS. `data` is the `action_data` of the
action (fields it does not have keep their first value), `conf` the rows and the
active row of the widgets in the configuration area, `state` the base class's.

| action | in the code |
|---|---|
| `obs_plugin_exec` | the exec functions, on a thread of the pool |
| `SendFound` | `toggle_source_visibility_exec` after it has looked at `scene_item_id`: what it sends is read again |
| `obs_plugin_config`, `Deselect` | the widgets are made, and ask OBS for their rows; another button is selected |
| `ChooseFirst`, `ChooseSource`, `chapter_name_changed`, `on_file_set` | the user changes a widget, and its handler the data |
| `invoke_callback_idle` | the main loop runs the oldest callback: a list for the widgets, an answer for the button, an event |
| `PeerReads`, `PeerChanges` | OBS (external) handles a request, or somebody changes something in OBS |
| `Disconnect`, `on_ws_connected` | the session ends with what is on its way; the next one is identified |
| `load` | the program is closed, which saves the button, and started again |

A message carries its callback and what the callback was given, and the answer
carries them back. A callback is thereby tied to the widgets it was asked for, which may
have been destroyed since (`gone`): the code asks `GTK_IS_COMBO_BOX` of the pointer it
kept, so such a list is either dropped, or, the memory being in use again, taken for the
present widgets'. `stale` marks a message that was asked for before the user's last choice and
`late` one whose session has ended; both are history. So are `chosen` (what the
user configured), `crossed` (a stale answer was handled) and `told` (OBS has said how
things stand since the last choice and the last connection; a restart makes a new one).

Setting the active row from the code emits "changed" as a choice of the user does, so
`on_first_list` and `on_source_list` run the same handlers (`FirstChanged`,
`source_visibility_changed`). That is no choice of the user and leaves `chosen` and `told` as they
are, but opening the configuration of a visibility button thereby clears its item's id
(`OurEventIsTaken`). Left out: the file format and folder of a screenshot are one
`text` with a chapter's name, JSON, and the freeing of the action with its button.

### Countdown: state and actions against the code

A press (`countdown_exec` on the pool) and a tick (`countdown_tick` on the main loop) are
taken apart to single reads and writes of shared fields: nothing is locked.
`press[t]` is the place of thread `t`, `tick` the main loop's with the value of
`remaining` it compared. `sources` are the timers GLib has for the button, `timer_id`
the one the button knows. A timer may fire whenever the main loop is free. A label is a
number of seconds, a name, the empty string (what `countdown_tick` puts for no label) or none.
`remaining--` is a load and a store whose load may be the comparison's, so it may count
down from either. `overlapped` is history for "two of these functions ran at once",
`disturbed` for an edit or restart during a countdown and for a press that stops one on a
button without a label, which the code leaves with the time as its label. The sound is
left out.

### SystemMonitor: state and actions against the code

The two timers of the main loop, `cpu_update_timer` and `ram_update_timer`, read
the counters, make a percentage, and draw the button if it is of their `action_type`; a press
draws it on the pool, in two steps (`system_monitor_exec` reads the figure,
`PressDrawn` stores the picture). `calculate_cpu_percent` and `calculate_ram_percent` are
computed modulo `Modulus`, as the code does with `unsigned long long`. The six CPU
counters that count work are one, `busy`: the code only ever adds them. `real` is what the
counters would be without a width, `since` and `last` the two reads the figure
is about. `Drop` makes a button, `SaveLoad` restarts the program. The
command that a press runs is left out.

### KeyImage: state and actions against the code

A thread draws a button (`deck_plugin_set_current_state`), stores the surface
(`g_object_set`, which calls `deck_plugin_set_property`) and notifies. The two
handlers of `deck_grid.c` then send the image to the device and to the window. `th[t]`
is where thread `t` is and the locals of the functions it is in:

| `th[t].pc` | in the code |
|---|---|
| `draw`, `store`, `notify` | `deck_plugin_set_current_state`: about to draw, to store, to notify |
| `device` | the first handler, up to `write_image` |
| `page` | the loop of `write_image`: a step is a page |
| `sent`, `end` | back in GObject, after the first and the second handler |
| `app` | `on_deck_preview_update_app` |

The main thread starts with `deck_plugin_set_state`, a pool thread with
`process_plugin_exec`. A picture is a version number: `look` is what the button's fields
say, `surface` what was drawn and stored last, `shown` and `app` what the key and the
window show. `unsent` is history: the last image could not be encoded.

GObject is external, and the model has the one thing about it that decides:
`notify` is emitted with `G_SIGNAL_NO_RECURSE`, so a thread that notifies while another
is in the emission of the same button leaves at once, and the other starts its
handlers again when the one it is in returns. The emission is thereby the only
lock there is between two threads that write to one key. GObject's own freezing of
notifications may merge two of them into one, which only removes an emission that
would show the same picture again.

The device is external too: it appends a page to the one before it, and what it has
is torn unless pages of one image come in order, counted from `FirstPage`. The
encoded image is its size, `Sizes`; the assumption that its pages can be numbered
is true of the uncompressed images of the Mini and the Original, which number pages
in one byte (20 and 2 pages).

Left out: what is drawn, the memory of surfaces, and buttons that come and go
(`add_plugin_button` writes the first image of a button outside any emission).

### DeckGrid: state and actions against the code

`button` maps the addresses in use to buttons; an address that has been freed may be
given to the next button. `actions` is `priv->actions`, `cell` the "plugin" each
`GtkButton` carries, `current` `current_plugin`, `owner` the button to which the
widgets in `config_row` are connected, `shown` the visibility of
`config_container`. What the threads do:

| thread | action | in the code |
|---|---|---|
| main | `on_grid_drag_data_received`, `PlaceDropped` | `deck_grid.c`: the old button is freed, then the new one is made and put in `actions` and in its cell |
| | `button_pressed` | a cell is clicked: `show_config` |
| | `on_delete_clicked`, `deck_grid_remove_button` | the button is freed, then its key and the configuration are cleared |
| | `Edit` | a visible configuration widget or the image picker changes the button |
| | `on_window_delete_event`, `on_menu_quit` | a save begins; after Quit a second one follows from `main` |
| | `CollectKey`, `CollectPastTheGrid`, `g_key_file_save_to_file` | the loop of `save_config` and the file it writes |
| reader | `hid_read`, `read_key_states`, `ReadPastTheKeys`, `EndOfReport` | `streamdeck.c`, one key a step, with `on_deck_key_pressed` in it |
| pool | `TakePress`, `process_plugin_exec` | `deck_plugin.c` |
| - | `Crash`, `deck_grid_constructed` | the process dies at any point; the next one reads the file |

A drop and a deletion are two steps because the reader looks at `actions` without a
lock: between them it finds the address of a button that is gone. `Ended` is
the end of the process. Undefined behaviour is a choice: executing a freed button, and
reading past an array (`ScanKeys`, the literal 15 in two loops, exceeds `NumKeys`
on a device with fewer keys), either does nothing that the model can see or ends the
process. GLib replaces a file by renaming, so that a save takes place wholly or not
at all, and the code ignores which.

*Abstractions.* One value (`settings`) stands for all that the widgets of a button
change and its group keeps: label, colours, positions, what the action adds. The
picture is apart (`custom`, chosen by the user or the action's own), because the
widgets of a Multimedia button put back the action's picture whenever they are made:
the combo box is set after it is connected (`PictureActions`). A countdown writes to the
label while it is executed (`LabelActions`), so that a program closed in the middle
of a countdown finds the time left as its label. Left out: the images on the keys
(`KeyImage`), the visibility of the window, the tray icon, the tree of
plugins, a second activation of the application, `reset` and brightness.

### Properties and runs

`MaxCalls`, `MaxFaults`, `MaxEvents`, `MaxSessions` bound the user's requests,
OBS's and the network's faults, its events and the connections opened.
All runs say `CHECK_DEADLOCK FALSE`: when the bounds are used up the system
waits for input that no longer comes, and so does the program when nobody
presses a key and OBS is silent.

| run | instance | checks |
|---|---|---|
| `obs_calls` | main + 1 pool thread, 1 button, 2 requests, 1 fault, 2 sessions; `alone` chooses threads that race, or the main thread alone with the button and 1 request | `TypeOK`, `RegisteredBeforeSent`, `SocketClosedBetweenSessions`, `OpenedSessionIsWithdrawn`, `MessagesInOrder`, `ResponseToLoneCaller` |
| `live` | `part` chooses: the main thread, 1 request, 2 faults, 1 event, 10 sessions; main + 1 pool thread, a normal button and a toggle, images of 1 to 3 pages, 1 encoding error; fairness | `LostConnectionRetried`, `IdentifiedInTheEnd`; `ImageTypeOK`, `NoTornImage`, `QuietFollowsSurface`, `ToggleShowsState`, `DeviceCatchesUp` |
| `obs_already_connected` | 1 button, 1 fault | `AlreadyConnectedIsOpen`, violated |
| `obs_thread_safe` | main + 1 pool thread, 2 requests | `NoRequestSentTwice`, violated |
| `obs_disconnected` | 2 buttons, 1 fault | `DisconnectedIsShown`, violated |
| `wic` | `half` chooses: up to 2 frames of every kind, 3 of fragmented text with pings, 2 of 125, 126 and 256 bytes, through a buffer of 4 in reads of up to 12, with fairness; 3 calls with any of 12 payloads, a buffer of 140, sizes modulo 256; strings of up to 5 of the 26 bytes at which the rules of UTF-8 change | `TypeOK`, `ControlFrameFits`, `ImplementsReceiver`, `EveryFrameDealtWith`, `TxTypeOK`, `FrameFits`, `WrittenAsAsked`, `PeerAccepts`, `CompleteIsText`, `InvalidIsHopeless` |
| `key_image_update` | the buttons and threads of `live`, no errors | `UpdateIsShown`, violated |
| `deck_grid` | 2 keys scanned as 3, 2 addresses, 2 drops, 1 edit, 1 report, 1 new start, 1 pool thread | `TypeOK`, `ConfigOfTheGrid`, `KeysAgree`, `DeletesTheShown`, `KeepsTheGrid` |
| `deck_grid_pool` | the same | `ExecutesButtons`, violated |
| `buttons` | `button` chooses: each of the six OBS actions with 2 scenes, 2 sources and at most 4 inputs of the user and OBS; a countdown of 1 or 2 s, 2 pool threads, 3 presses, 1 edit, 1 restart; a monitor with 2 reads, counters modulo 1024, 1 press, 1 restart; fairness | `TypeOK`, `ChoiceIsKept`, `ItemIsOfSource`, `FollowsObs`, `Settles`; `CountdownTypeOK`, `TimerIsKnown`, `LabelComesBack`, `CountdownsEnd`; `CpuPercentExact`, `RamPercentInRange`, `ShowsItsFigure` |
| `obs_item` | a visibility button, 5 inputs | `EventIsOurs`, violated |
| `obs_deaf` | a visibility button, 1 press, 1 opening of its configuration, 1 change in OBS, no choice | `OurEventIsTaken`, violated |

- `RegisteredBeforeSent`: a request that wants an answer is on the wire only
  when its callback is registered, although two threads may share an id and
  overwrite each other's frames.
- `SocketClosedBetweenSessions`: however the receive loop ends, the socket is
  closed by the time the thread connects again.
- `OpenedSessionIsWithdrawn`: an instance whose session was open is not
  published any more when the thread waits to connect. It does not hold of a
  session whose handshake failed, and the property says so.
- `MessagesInOrder`: callbacks run in the order OBS sent the messages, over all sessions.
- `ResponseToLoneCaller`: a response runs the callback of its own call. With two
  sending threads this is false: `next_message_id++` may give both the same id, so
  the property speaks of the behaviours in which one thread sends.
- `LostConnectionRetried`: a connection that breaks in any state is noticed.
- `IdentifiedInTheEnd` (`IdentifiedUnlessHelloLost` where the client runs): once faults end, OBS has identified the client for
  good, except when a fragment an earlier session left in `message_buffer`
  makes the Hello unreadable.

- `CompleteIsText`, `InvalidIsHopeless`: the automaton's two verdicts are those of
  the definition of UTF-8, at every byte of every string.
- `ImplementsReceiver`: however `recv` cuts the stream and wherever the buffer fills
  up, messages come out complete and in order, control frames between fragments
  are answered, and the first illegal frame closes the session with a right code.
- `ControlFrameFits`: a control frame is never handed over in part, and the two bytes
  of a close code are there when `parse_data` reads them.
- `EveryFrameDealtWith`: unless the connection ends, no frame stays in the parser, an
  empty one at the end of a read included.
- `FrameFits`: the size a buffer is asked for and the bytes written are counted by two
  functions, and agree: no frame passes the end of the buffer, none is given up half written.
- `WrittenAsAsked`: what goes out is the frame RFC 6455 has for what the caller gave, for
  sizes below the modulus. A longer text is cut, and sent as if it were whole.
- `PeerAccepts`: no order of calls, refusals and fragments makes a stream with a
  fragment out of place or a text that is no UTF-8.
- `NoTornImage`: the pages of two images never mix on a key, whichever threads write.
- `QuietFollowsSurface`: when no thread is busy with a button, its key and the window
  show the picture stored last: a notification that comes during another is not lost.
- `ToggleShowsState`: a button only the main thread draws ends up drawn as it is.
- `DeviceCatchesUp`: every stored picture reaches its key, or a later one does;
  restarts end.
- `ConfigOfTheGrid`: no widget is left connected to a button that has been freed,
  although hiding the configuration destroys nothing, and the visible ones are those of
  the selected button.
- `KeysAgree`: the array, the cells and the key each button says it is on agree, and no
  button is left over.
- `DeletesTheShown`: Delete frees the button whose configuration is on the screen.
- `KeepsTheGrid`: `DeckGrid` implements `SavedGrid`. A program that starts shows what each
  key held when the last successful save came to it, with its action, its settings and
  its picture, whatever the pool changed meanwhile and wherever the program
  died. This is so for devices with at most 15 keys: with `NumKeys` above
  `ScanKeys` the property fails, because the upper half of an XL, which the
  repository's `README.md:18` calls supported and not tested, is never saved (nor are its
  keys ever read).

- `ChoiceIsKept`: lists that arrive for the widgets, presses, lost connections and restarts
  leave the button configured as the user chose, unless an answer crosses a choice
  (the list of a scene that was chosen before selects its row again).
- `ItemIsOfSource`: the item id a visibility button has is its source's in some scene,
  and in its own unless an answer crossed a choice. Ids mean other sources in other scenes.
- `FollowsObs`: with nothing on its way, a button shows what OBS is, once OBS has told it
  since the last choice and connection and unless an answer crossed that choice. Before that it may
  not: nothing asks OBS for the state after a reconnection. A visibility button must have
  its item (`HasItem`): opening its configuration takes the item from it although the user chose
  nothing, and until the next press has looked it up the button ignores every event and
  may show the opposite of what OBS is (`OurEventIsTaken`).
- `Settles`: a list that selects a row, which asks for a list, comes to an end, and so
  does a press that looks its item up first.
- `CountdownTypeOK`: among others, what is left is never negative, although a press may
  reset it between the comparison and the decrement.
- `TimerIsKnown`: the button has one timer at most and knows it, so that the next press
  stops it and freeing the button leaves none behind; unless the functions overlapped: two
  presses at once do start two timers, of which one is forgotten.
- `LabelComesBack`: a stopped or finished countdown gives the label back.
- `CountdownsEnd`: even timers no press can stop any more end.
- `CpuPercentExact`: the CPU figure is the exact share, rounded down, also when counters
  or their sums pass the modulus, or a read failed; it assumes counters that do not go
  back in the interval.
- `RamPercentInRange`: 0..100 with and without `MemAvailable`, if the parts add up.
- `ShowsItsFigure`: the picture is of the button's own figure and the last one, unless a
  timer came while a press was drawing.

*Bounds of the button run.* Answers cross choices when a request, a choice and another
choice meet: 4 inputs of the user, OBS and the network together give every pair of them
with two more, and `MaxInputs` is what keeps the six actions within one run. The scenes
share a source under different ids, and an id under different sources, which is where
ids are confused. Two threads and three presses start two timers and stop one. Counters modulo
1024 pass the modulus each on its own and in their sums within two reads; intervals of up to
10 keep their hundredfold below it. The three buttons share nothing but the pool,
which each has of its own; a behaviour runs one.

*Bounds of the deck grid runs.* A hazard needs one key that is dropped on, deleted or
pressed and another that is not; two drops replace a button or fill both keys, with
the address of the first or another. One report presses every key at once (a key
without a button is as good as not pressed), so a button may be queued, freed and
its address given to another before it is executed. `ScanKeys` is 3 so that both loops
run past a grid of 2, as they do on a Mini. One start after a crash, a quit or a
save that failed reads every file there can be. A second thread of the
pool would change one more button in the same way; who reads what it changes, `save_config`,
is on the main thread.

*Bounds of the key image runs.* An older picture needs one thread that draws and one
that changes the button meanwhile, and a restart two threads. That more threads add
nothing is what the theorems prove of all but `DeviceCatchesUp`. Image sizes of
less than a page, of full pages and of a last page that is shorter are all there.
Two keys show that one button's emission does not serve another's.

*Bounds of the frame run.* For the receiver, a buffer of 4 makes payloads of 5 overflow it and
control frames too big for it, which is what 16384 does to real ones. Two frames
show every pair of kinds; three, a message with something between its
fragments. The long frames have the sizes at which the form of the size changes.
The bytes of the UTF-8 run are the first and last of every row of the table, and
a character has at most four. The payloads sent lie around 125 and 126 (the longer
form), around 132 and 133 (the end of a buffer of 140) and around the modulus of
256, one of them cut in the middle of a character. Three calls are a fragment, something
between, and the next fragment.

*Bounds.* Two sessions and one fault are what a session, a failure and its
leftovers in the next session need. Every hazard of the request threads is between
two senders, or a sender and the obs thread; two requests give both. The
liveness run keeps one sender because a sender influences the obs
thread through `wic` and the buffer only, and one can do either at any time;
its `MaxSessions` of 10 is never reached (each session costs a fault, a request or
a frame spoiled by one), so the bound does not end the retries early.
In `obs_calls` the half with a button has one thread, and the half with racing threads
no button: together they have every pair of a sender with another or with a callback.

*Fairness.* In `KeyImage`, threads that draw or write are scheduled. In `ObsActions`, a
thread of the pool sends what it has found, the main loop runs its callbacks and OBS reads
what it is sent; in `Countdown`, the threads of the pool and the main loop, with its timers, run.
In `WicRx`, the parsing thread runs and `recv()` returns what has
arrived (`WF` of `wic_parse` and of `transport_recv`); the end of the connection
is never forced. In `ObsWs`, `Fairness` assumes that the obs thread and the threads inside a
request are scheduled, that the main loop runs its sources, and that OBS reads
what it is sent (`WF` of each: each of them, once enabled, stays so until it
moves); in the run `live` it is asked of the behaviours that run the client. Nothing is assumed of the user, events or faults, and nothing
stronger than weak fairness is used.

### Where the code and its words differ

1. `libobsws.c:657` prints "Already connected, invoking Identified callback
   immediately" for any client with an instance, but the instance is published
   before the handshake is over: a button is told it is connected and sends a
   request before Identify (`AlreadyConnectedIsOpen`).
2. `libobsws.c:734` says "wic_send_text is thread-safe". Two threads share one
   static transmit buffer: one request goes out twice, the other never
   (`NoRequestSentTwice`).
3. `obs_plugin.c:153` has a "Default render for disconnected state", but nothing
   clears `obs_connected`: the end of a session is emitted as "Connected", for which
   no button registers (`DisconnectedIsShown`).
4. `deck_grid.c:198` says "If plugin updates, send the new image to the device".
   A pool thread resets a button after its execution while the main thread draws
   it: the older picture may be stored last, and stays (`UpdateIsShown`).
5. `deck_plugin.c:334` asserts with a checked cast that what the pool is given is a
   button. Nothing holds a reference: a button deleted or replaced between the press
   and its execution has been freed (`ExecutesButtons`).
6. `obs_toggle_source_visibility.c:43` says "Check if this event is for our scene and scene
   item", but `on_scene_item_lookup` takes the id from a list without looking of which
   scene it is: a press, a choice of another scene and the late answer leave the button
   with an id of the first scene, which is another source's in its own (`EventIsOurs`).
7. The same comment, the other way round: an event about the button's own scene item fails the
   check once the configuration of the button has been opened. `on_source_list` selects the row the
   button has, `source_visibility_changed` takes that for a choice and sets `scene_item_id` to -1
   (`obs_toggle_source_visibility.c:299`; `scene_changed_for_sources` does tell "the initial load"
   from "a user change", line 235). From then on the picture does not follow OBS,
   until a press looks the item up (`OurEventIsTaken`).

### Proofs

The theorems hold for every value of the constants that satisfies the assumptions the modules
state (`ObsWsAssumption`, `WicTxAssumption` and so on); a run shows the same on one instance,
and TLC evaluates the assumptions there. Each invariant below is stated with what makes it
inductive: seldom is it so as it stands.

**`ObsWsProofs`**, for every set of pool threads and buttons, every number of requests,
faults, events and sessions:

| theorem | |
|---|---|
| `TypeCorrect` | `Spec => []TypeOK` |
| `SocketsAreClosed` | `Spec => []SocketClosedBetweenSessions` |
| `OpenedSessionsAreWithdrawn` | `Spec => []OpenedSessionIsWithdrawn` |
| `AnswersAreAwaited` | `Spec => []RegisteredBeforeSent` |
| `CallbacksInOrder` | `Spec => []MessagesInOrder` |
| `LoneCallerIsAnswered` | `Spec /\ []PoolIdle => []ResponseToCaller` |
| `ResponsesReachTheLoneCaller` | `SplitSpec => []ResponseToLoneCaller` |

- `SessionInv` (at the end of `ObsWs`) says what the obs thread owns at each place. Both
  properties about the end of a session speak of `init` and `connect` only; they hold there
  because of what holds in `recv` (with a socket, `wic` is neither INIT nor CLOSED; an opened
  session without a socket has withdrawn its instance), and `recv` is reached from everywhere.
  The point of the proof is that no part depends on a request thread not storing OPEN:
  `PromoteReady` can do it at any time.
- `RegisteredInv` follows the request from the registry to the wire: the frame in the shared
  buffer and the request of each thread past the registration are awaited as well. `write()`
  sends whatever is in the buffer, so the buffer itself has to be covered.
- `OrderInv` orders three places at once: the last serial handed over, the idle queue and the
  messages in flight. A session that ends drops messages in flight and leaves the queue,
  which keeps the order.
- `AnswerInv` ties ids to calls: an id on the wire, in the buffer or in a response is below
  `next_message_id`, and the list under its key holds callbacks of its own call only
  (`Good`). What keeps it true is that the id the main thread has taken and not registered
  yet is on nothing that is on its way. The hypothesis `PoolIdle` is needed: with a thread of
  the pool that sends too, `next_message_id++` gives two calls one id. `MCObsCalls` makes it
  part of the specification for the half of its behaviours that is about one caller.

**`WicProofs`** and **`Utf8Proofs`**, for every set of sessions, every receive buffer of a
multiple of four bytes, every size of a read, every transmit buffer, every width of a size,
every set of payloads, codes and strings:

| theorem | |
|---|---|
| `RxTypeCorrect` | `Spec => []TypeOK` |
| `ControlFramesFit` | `Spec => []ControlFrameFits` |
| `CompleteMeansText` | `MCSpec => []CompleteIsText` |
| `InvalidMeansHopeless` | `MCSpec => []InvalidIsHopeless` |
| `TxTypes` | `TxSpec => []TxTypeOK` |
| `FramesFit` | `TxSpec => []FrameFits` |
| `FramesAreAsAsked` | `TxSpec => []WrittenAsAsked` |
| `ThePeerAccepts` | `TxSpec => []PeerAccepts` |

- `RxInv == TypeOK /\ HeaderInv /\ ControlFrameFits`. `ControlFrameFits` speaks of the
  payload; that it holds when a payload begins depends on the header: no control frame gets
  into `EXT` (its size is in the short form), the mask is empty when its bytes begin and has
  four when they end, and the buffer is empty until `DATA`. That is `HeaderInv`. The types
  need `ControlFrameFits` in turn: `CloseDone` reads two bytes, which are numbers only because
  they are there.
- `Tracks(q, s)` (`Utf8Proofs`) is what a state q of the automaton means: s is a text and then
  the beginning of a character, the one q stands for, or s begins no text and q is the invalid
  state. It holds of no bytes, and every byte keeps it (`TracksByte`, one case for each row of
  the table). `CompleteTracks` and `InvalidTracks` then read both verdicts off it. The
  definition of a text is recursive and looks back up to four bytes, so that the proof needs
  that a text is cut into characters in one way only (`SplitOnce`): no character begins
  another, and where the first byte is decides how long it is.
- `TxInv == TxTypeOK /\ SentInv /\ PeerInv`. `PeerAccepts` alone is not inductive. That a
  fragment is accepted rests on `utf8_tx` being the state of the automaton after the bytes the
  receiver has kept of the earlier fragments (`PeerInv`): only what begins an unfinished
  character is kept, and `Tracks` says that this is enough. `SentInv` is about the last frame:
  the bytes of `stream_put_frame` are those of `FrameBytes` for sizes below the modulus,
  with and without a code, in both forms of the size.
- `FramesFit` needs none of this; the work is in `FrameLength`: what `stream_put_frame`
  writes has `min_frame_size` bytes.

**`DeckGridProofs`**, for every number of keys and of scanned keys, every set of addresses,
actions and settings, and every pool:

| theorem | |
|---|---|
| `DeckGridTypes` | `Spec => []TypeOK` |
| `ConfigFollowsTheGrid` | `Spec => []ConfigOfTheGrid` |
| `ButtonsOnTheirKeys` | `Spec => []KeysAgree` |
| `TheShownIsDeleted` | `Spec => DeletesTheShown` |
| `TheFileKeepsTheGrid` | `NumKeys <= ScanKeys => (Spec => KeepsTheGrid)` |

`KeysAgree` says nothing while a button is half replaced. `GridInv` also says what the *other*
keys are like then, and that the array holds the address of a button that is gone at the
one key that is being replaced. `SaveInv` says that the groups are collected in the order of the
keys and that there is none before a save; `FileInv`, that a group names an action there is, which
makes what is loaded a button; `StoppedInv`, that nothing outlives the process but the file.
`TheFileKeepsTheGrid` is the refinement of `SavedGrid`: the steps of `DeckGrid` are of four kinds
(`StepKinds`, `SaveKinds`: a button changes in place, one is freed or put in place, the
process ends or starts, a save goes on), and each is shown to be a step of `SavedGrid` or to
change nothing of it. Its hypothesis is the hazard at `deck_grid.c`: a save goes
through a literal 15 keys, so on a device with more the theorem says nothing, and TLC shows with
`NumKeys` above `ScanKeys` that `KeepsTheGrid` is false. Freed addresses that are executed or read,
and the end of the process at any step, are within the theorem.

**`ObsActionsProofs`**, for every set of scenes, sources and ids, and any number of presses,
choices, changes in OBS, lost connections and restarts:

| theorem | |
|---|---|
| `ObsActionsTypes` | `Spec => []TypeOK` |
| `TheChoiceIsKept` | `Spec => []ChoiceIsKept` |
| `TheItemIsOfTheSource` | `Spec => []ItemIsOfSource` |
| `TheButtonFollowsObs` | `Spec => []FollowsObs` |

`TypeInv` says which messages can be on their way for a button of each kind, so that no handler
meets another's. `ChoiceInv` says of every message on its way that it was asked with what the
button has by now, or has been made stale by the choice that came in between (`Fresh`).
`ObsInv` has three parts. `MirrorInv`: the last message on its way that tells how something
stands says what OBS is. `LateInv`: messages of an ended session come before those of this one.
`ToldInv`: once told and not crossed, with an item if it needs one (`Heard`), and with nothing on
its way that tells more, the button shows what OBS is, or owes OBS a toggle it has sent (a lookup moves `is_visible` at once and the
picture only with the event of the toggle). `FollowsObs` is what remains when both
queues are empty.

**`SystemMonitorProofs`**, for every modulus, every sequence of counters and every meminfo:

| theorem | |
|---|---|
| `CpuFiguresExact` | `MonitorSpec => []CpuPercentExact` |
| `RamFiguresInRange` | `MonitorSpec => []RamPercentInRange` |
| `MonitorShowsItsFigure` | `MonitorSpec => []ShowsItsFigure` |

The lemmas are about unsigned arithmetic: a reduced number stands for the one it was, sums and
differences of numbers that stand for others stand for the sums and differences of those
(`UnsignedStands`, `SumStands`), and one that fits the width is then that number (`StandsFits`).
So it does not matter where counters and their sums pass the modulus. `ButtonInv` says that what the next interval is
counted from is the counters of the last read, and that a press which is drawing draws the
present figure unless a timer came since.

**`KeyImageProofs`**, for every set of threads and keys, every page size, numbering and image
size:

| theorem | |
|---|---|
| `TypeCorrect` | `ImageSpec => []ImageTypeOK` |
| `NeverTorn` | `ImageSpec => []NoTornImage` |
| `QuietIsUpToDate` | `ImageSpec => []QuietFollowsSurface` |
| `ToggleUpToDate` | `ImageSpec => []ToggleShowsState` |

`NeverTorn` needs `EmissionInv` (one thread at most is in the emission of a button) and
`PageInv` (what the device has of the image is what that thread has sent), with two
lemmas of arithmetic: a page that is still to be sent has a number the header can
hold. `QuietIsUpToDate` adds `FollowInv`: unless a newer picture has restarted the
emission or is about to, what the emission has done was done with the last picture.
`DrawInv` says that what the main thread is about to store of a toggle is what it is.

**`CountdownProofs`**, for every number of pool threads, every set of durations and
labels and any number of presses, edits and restarts:

| theorem | |
|---|---|
| `CountdownTypes` | `CountdownSpec => []CountdownTypeOK` |
| `TimersAreKnown` | `CountdownSpec => []TimerIsKnown` |
| `LabelsComeBack` | `CountdownSpec => []LabelComesBack` |

`CountdownTypes` needs `TickInv` (what the main loop compared was at most a duration,
because it may be what it counts down from). `TimerInv` says, as long as nothing
overlapped, what GLib's timers are at each place of a press: a press that has removed the
timer but not cleared its id is the reason `TimerIsKnown` alone is not inductive.
`LabelInv` follows the user's label between the button and `original_label`, through the
press and through the end of a countdown.

*Induction over data.* The library's induction theorems take an operator, which the provers
cannot instantiate. Where a proof needs induction over lengths, it takes the set of the numbers for which
the claim holds instead and finds the least one outside (`LeastNumber`, `StrongInduction`,
from `NatLessThanWellFounded`). A recursive function, such as the one in `IsText` or in
`utf8_parse_string`, is a CHOOSE: the proofs show first that there is a function that satisfies
its equation (for instance `RunExists`), and then use the equation only.

*What TLC checks only*: liveness (`DeviceCatchesUp`, `EveryFrameDealtWith`, `Settles`,
`CountdownsEnd`, `LostConnectionRetried`, `IdentifiedInTheEnd`: the prover has neither fairness nor ENABLED);
the refinement `ImplementsReceiver`; and the seven violated properties.


## 3. Not modelled, and the plan

Not modelled: `http_parser` (vendored; `ObsWs` sees only whether a response was accepted), the
echo example (not built), the system buttons and the test plugin (no state; a press is one
external effect), drawing and JSON layout, the server role of wic and its redirections (the program is
no server). Hazards of the list without a property are these, each with its reason there:
callbacks of requests that are never answered, deleted OBS buttons that are called back,
surfaces replaced while they are painted from, the first picture of a dropped button,
a second activation, and the monitor's command.

What would come next, in this order:

1. The refinement `ImplementsReceiver` as a theorem: an invariant that ties the bytes still to be read
   to the frame the parser is in, with `Tracks` for its text.
2. The lifetimes of OBS buttons: `DeckGrid`'s deletion composed with the registry and
   the idle queue of `ObsWs`.
3. `KeyImage` with buttons that come and go, and the memory of the surfaces.
4. An abstract request and answer service that `ObsWs` implements, with the
   refinement's steps proved from `RegisteredInv` and `AnswerInv`.
5. A model of a second activation: two grids over one device.
