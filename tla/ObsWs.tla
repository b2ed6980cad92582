------------------------------- MODULE ObsWs -------------------------------
(***************************************************************************)
(* The OBS client of libobsws: the "obs" thread that keeps a WebSocket     *)
(* session with OBS Studio open (obs_ws_main and the wic callbacks), the   *)
(* requests that the main thread and the five pool threads send through    *)
(* it (obs_ws_get_scenes ... obs_ws_save_source_screenshot, ws_send), the  *)
(* registry of callbacks both sides use, and the GLib idle queue through   *)
(* which the obs thread hands every answer to the main thread.             *)
(*                                                                         *)
(* One step is one access to state another thread can see: klass->inst and *)
(* klass->callbacks (under ws_mutex), the message counter, wic's           *)
(* connection state, the one static transmit buffer and the socket, none   *)
(* of which the mutex covers.  Accesses of one thread that commute with    *)
(* every access of the others are one step.                                *)
(*                                                                         *)
(* OBS itself (the Peer* actions) and the network are external: what they  *)
(* do is what the code in src/ expects of them and what it guards against. *)
(***************************************************************************)
EXTENDS Integers, Sequences

CONSTANTS
    Main,       \* the GTK main thread
    Pool,       \* the threads of the button pool (deck_plugin_init)
    Plugins,    \* the OBS buttons the user creates
    NoPlugin,   \* no button is being created
    MaxCalls,   \* bound: requests started by the user
    MaxFaults,  \* bound: refusals, drops and closes by the network and OBS
    MaxEvents,  \* bound: events and pings sent by OBS
    MaxSessions \* bound: connections opened

ASSUME ObsWsAssumption ==
    /\ Main \notin Pool
    /\ NoPlugin \notin Plugins
    /\ MaxCalls \in Nat /\ MaxFaults \in Nat /\ MaxEvents \in Nat
    /\ MaxSessions \in Nat

Threads == Pool \cup {Main}

VARIABLES
    \* the obs thread
    obs,              \* where obs_ws_main is
    wic,              \* wic_inst.state
    sock,             \* the file descriptor is that of a connected socket
    inst,             \* klass->inst # NULL
    tx,               \* the frame in the static buffer of on_buffer_handler
    message_buffer,   \* the fragments gathered by on_message_handler
    got,              \* the recv() that closed the session returned data
    \* the callbacks and the main loop
    callbacks,        \* klass->callbacks: key -> list of registered owners
    idle,             \* the sources added by g_idle_add, oldest first
    obs_connected,    \* OBSPluginPrivate.obs_connected
    cloning,          \* the button obs_plugin_clone is creating
    \* the threads that send requests
    pc,               \* where each thread is in its request
    job,              \* the request each thread is sending
    next_message_id,  \* the static counter of uwsc_message_id
    \* OBS and the network
    up,               \* frames on their way to OBS
    down,             \* messages on their way from OBS
    peer,             \* what OBS believes of the connection
    \* bounds and history
    calls,            \* requests started
    userCalls,        \* those of them that MaxCalls counts
    faults,           \* faults so far
    events,           \* events and pings so far
    sessions,         \* connections opened so far
    serial,           \* serial number of the last message OBS sent
    lastSerial,       \* serial number of the last message handed to a callback
    opened,           \* the handshake of the current connection succeeded
    helloLost         \* the Hello of the current connection did not parse

history   == <<opened, helloLost, sessions>>
obsVars   == <<obs, wic, sock, inst, tx, message_buffer, got, history>>
mainVars  == <<callbacks, idle, obs_connected, cloning, lastSerial>>
callVars  == <<pc, job, next_message_id, calls, userCalls>>
peerVars  == <<down, peer, faults, events, serial>>
vars      == <<obsVars, mainVars, callVars, up, peerVars>>

----------------------------------------------------------------------------
\* Values

ObsPcs == {"init", "connect", "start", "sendHttp", "publish", "recv",
           "upgraded", "rejected", "sendIdentify", "sendPong", "sendClose",
           "onClose"}

WicStates == {"INIT", "PARSE_HANDSHAKE", "READY", "OPEN", "CLOSED"}

CallPcs == {"idle", "inst", "id", "bump", "register", "check", "promote",
            "recheck", "put", "send"}

\* A request: its message id, the number of the call that built it, whether
\* the caller gave a callback, and whether the function takes the message id
\* before it reads klass->inst or (ws_send_command) after it.
Job   == [id : Nat, call : Nat, cb : BOOLEAN, idFirst : BOOLEAN]
NoJob == [id |-> 0, call |-> 0, cb |-> FALSE, idFirst |-> FALSE]

FrameKinds == {"None", "Http", "Identify", "Request", "Pong", "Close", "Garbled"}
Frame      == [kind : FrameKinds, id : Nat, call : Nat, cb : BOOLEAN]
Control(k) == [kind |-> k, id |-> 0, call |-> 0, cb |-> FALSE]
Request(j) == [kind |-> "Request", id |-> j.id, call |-> j.call, cb |-> j.cb]

MessageKinds == {"Accept", "Reject", "Hello", "Identified", "Event",
                 "Response", "Ping", "Close", "Eof"}
Message == [kind : MessageKinds, part : {"whole", "head", "tail"},
            serial : Nat, id : Nat, call : Nat]
Plain(k) == [kind |-> k, part |-> "whole", serial |-> 0, id |-> 0, call |-> 0]

\* The keys of klass->callbacks.  "Event" stands for the one event
\* (CurrentProgramSceneChanged, ...) that the action of a button listens to.
Key == {"Identified", "Connected", "Event", "emit:response"} \X Nat
EventKey(e)     == <<e, 0>>
ResponseKey(id) == <<"emit:response", id>>

\* A source of the main loop: the callback of owner "to", registered for
\* "key", is to be called with the message "serial", which answers "call".
Source == [key : Key, to : Plugins \cup Nat, serial : Nat, call : Nat]

ObsType ==
    /\ obs \in ObsPcs
    /\ wic \in WicStates
    /\ sock \in BOOLEAN /\ inst \in BOOLEAN /\ got \in BOOLEAN
    /\ opened \in BOOLEAN /\ helloLost \in BOOLEAN
    /\ tx \in Frame
    /\ message_buffer \in Seq(Nat)
    /\ sessions \in Nat

MainType ==
    /\ DOMAIN callbacks \subseteq Key
    /\ \A k \in DOMAIN callbacks : callbacks[k] \in Seq(Plugins \cup Nat)
    /\ idle \in Seq(Source)
    /\ obs_connected \in [Plugins -> BOOLEAN]
    /\ cloning \in Plugins \cup {NoPlugin}
    /\ lastSerial \in Nat

CallType ==
    /\ pc \in [Threads -> CallPcs]
    /\ job \in [Threads -> Job]
    /\ next_message_id \in Nat /\ calls \in Nat /\ userCalls \in Nat

PeerType ==
    /\ up \in Seq(Frame)
    /\ down \in Seq(Message)
    /\ peer \in {"gone", "handshake", "hello", "identified"}
    /\ faults \in Nat /\ events \in Nat /\ serial \in Nat

TypeOK == ObsType /\ MainType /\ CallType /\ PeerType

Init ==
    /\ obs = "init" /\ wic = "INIT" /\ sock = FALSE /\ inst = FALSE
    /\ tx = Control("None") /\ message_buffer = <<>>
    /\ got = FALSE /\ opened = FALSE /\ helloLost = FALSE
    /\ callbacks = [k \in {} |-> <<>>] /\ idle = <<>>
    /\ obs_connected = [p \in Plugins |-> FALSE] /\ cloning = NoPlugin
    /\ pc = [t \in Threads |-> "idle"] /\ job = [t \in Threads |-> NoJob]
    /\ next_message_id = 0 /\ calls = 0 /\ userCalls = 0
    /\ up = <<>> /\ down = <<>> /\ peer = "gone"
    /\ faults = 0 /\ events = 0 /\ sessions = 0 /\ serial = 0 /\ lastSerial = 0

----------------------------------------------------------------------------
\* Shared operations

Lookup(key) == IF key \in DOMAIN callbacks THEN callbacks[key] ELSE <<>>

\* Variant: a key that has a list already keeps it as it was.
RegisteredOnce(key, owner) ==
    [k \in DOMAIN callbacks \cup {key} |->
        IF k \in DOMAIN callbacks THEN callbacks[k] ELSE <<owner>>]

\* Appends owner to the list of key, creating the list if there is none.
Registered(key, owner) ==
    [k \in DOMAIN callbacks \cup {key} |->
        IF k = key THEN Append(Lookup(key), owner) ELSE callbacks[k]]

\* One idle source for each callback registered for key, in list order.
Emitted(key, m) ==
    [i \in 1..Len(Lookup(key)) |->
        [key |-> key, to |-> Lookup(key)[i], serial |-> m.serial, call |-> m.call]]

\* Variant: the newest source runs first.
ws_emitNewestFirst(key, m) == idle' = Emitted(key, m) \o idle

ws_emit(key, m) == idle' = idle \o Emitted(key, m)

\* write() sends whatever the shared buffer holds by now.  When another
\* thread has replaced the frame the sender put there, the other frame goes
\* out in its place, or a piece of it when their lengths differ.  Bytes for
\* a peer that is gone are lost.
transport_write(own) ==
    IF sock /\ peer # "gone"
    THEN \E f \in IF tx = own THEN {own} ELSE {tx, Control("Garbled")} :
            up' = Append(up, f)
    ELSE UNCHANGED up

\* transport_close: the socket is closed, and what it still held is lost.
Closed == sock' = FALSE /\ peer' = "gone" /\ up' = <<>> /\ down' = <<>>

----------------------------------------------------------------------------
(***************************************************************************)
(* The obs thread: the loop of obs_ws_main.                                *)
(***************************************************************************)

\* At "init" the thread starts, or sleeps (g_usleep) before it tries again.
\* wic_init clears the instance that klass->inst may still point to, and
\* leaves the text gathered in message_buffer alone.
wic_init ==
    /\ obs = "init"
    /\ obs' = "connect" /\ wic' = "INIT"
    /\ UNCHANGED <<sock, inst, tx, message_buffer, got, history,
                   mainVars, callVars, up, peerVars>>

transport_open_client ==
    /\ obs = "connect" /\ sessions < MaxSessions /\ sessions' = sessions + 1
    /\ obs' = "start" /\ sock' = TRUE /\ peer' = "handshake"
    /\ opened' = FALSE /\ helloLost' = FALSE
    /\ UNCHANGED <<wic, inst, tx, message_buffer, got, mainVars, callVars, up,
                   down, faults, events, serial>>

\* OBS is not running, or refuses the connection.
ConnectFails ==
    /\ obs = "connect" /\ faults < MaxFaults
    /\ obs' = "init" /\ faults' = faults + 1
    /\ UNCHANGED <<wic, sock, inst, tx, message_buffer, got, history,
                   mainVars, callVars, up, down, peer, events, serial>>

\* wic_start: the state changes before the handshake request is sent.
start_client ==
    /\ obs = "start" /\ wic = "INIT"
    /\ obs' = "sendHttp" /\ wic' = "PARSE_HANDSHAKE" /\ tx' = Control("Http")
    /\ UNCHANGED <<sock, inst, message_buffer, got, history,
                   mainVars, callVars, up, peerVars>>

\* A request thread has moved the instance out of INIT (allowed_to_send).
StartFails ==
    /\ obs = "start" /\ wic # "INIT"
    /\ obs' = "init" /\ Closed
    /\ UNCHANGED <<wic, inst, tx, message_buffer, got, history,
                   mainVars, callVars, faults, events, serial>>

SendHttp ==
    /\ obs = "sendHttp"
    /\ transport_write(Control("Http"))
    /\ obs' = "publish"
    /\ UNCHANGED <<wic, sock, inst, tx, message_buffer, got, history,
                   mainVars, callVars, peerVars>>

\* klass->inst = &inst, while the handshake is still under way.
PublishInst ==
    /\ obs = "publish"
    /\ obs' = "recv" /\ inst' = TRUE
    /\ UNCHANGED <<wic, sock, tx, message_buffer, got, history,
                   mainVars, callVars, up, peerVars>>

----------------------------------------------------------------------------
(***************************************************************************)
(* transport_recv and the callbacks of wic_parse.                          *)
(***************************************************************************)

Receiving == obs = "recv" /\ sock /\ down # <<>>

\* Variant: the loop goes on for as long as recv() does not return 0.
RecvEndOnEof ==
    /\ obs = "recv"
    /\ ~sock \/ (down # <<>> /\ Head(down).kind = "Eof")
    /\ got' = FALSE /\ wic' = "CLOSED"
    /\ IF wic \in {"OPEN", "READY"}
       THEN obs' = "onClose" /\ UNCHANGED <<sock, peer, up, down>>
       ELSE UNCHANGED obs /\ Closed
    /\ UNCHANGED <<inst, tx, message_buffer, history, mainVars, callVars,
                   faults, events, serial>>

\* recv() returned 0 or an error: wic_close_with_reason(ABNORMAL_2), which
\* writes no close frame and, unless the session was open, runs no on_close.
\* transport_recv returns false and the loop of obs_ws_main ends.
RecvEnd ==
    /\ obs = "recv"
    /\ ~sock \/ (down # <<>> /\ Head(down).kind = "Eof")
    /\ got' = FALSE /\ wic' = "CLOSED"
    /\ \/ wic \in {"OPEN", "READY"}  /\ obs' = "onClose" /\ UNCHANGED <<sock, peer, up, down>>
       \/ wic = "PARSE_HANDSHAKE"    /\ obs' = "init" /\ Closed
       \/ wic \in {"INIT", "CLOSED"} /\ obs' = "init" /\ UNCHANGED <<sock, peer, up, down>>
    /\ UNCHANGED <<inst, tx, message_buffer, history, mainVars,
                   callVars, faults, events, serial>>

\* The response to the handshake: on_response_complete sets READY before it
\* checks the status, the upgrade and the accept key.
on_response_complete ==
    /\ Receiving /\ wic = "PARSE_HANDSHAKE"
    /\ Head(down).kind \in {"Accept", "Reject"}
    /\ wic' = "READY" /\ down' = Tail(down)
    /\ obs' = IF Head(down).kind = "Accept" THEN "upgraded" ELSE "rejected"
    /\ UNCHANGED <<sock, inst, tx, message_buffer, got, history,
                   mainVars, callVars, up, peer, faults, events, serial>>

\* Variant: the state stays READY after on_open.
OnOpenStaysReady ==
    /\ obs = "upgraded"
    /\ obs' = "recv" /\ opened' = TRUE
    /\ UNCHANGED <<wic, sock, inst, tx, message_buffer, got, helloLost, sessions,
                   mainVars, callVars, up, peerVars>>

\* READY becomes OPEN.  on_open_handler, which only logs, is skipped when a
\* request thread has promoted the session already.
on_open_handler ==
    /\ obs = "upgraded"
    /\ obs' = "recv" /\ wic' = "OPEN" /\ opened' = TRUE
    /\ UNCHANGED <<sock, inst, tx, message_buffer, got, helloLost, sessions, mainVars,
                   callVars, up, peerVars>>

\* Variant: the failed check does not close the transport.
HandshakeFailureKeepsSocket ==
    /\ obs = "rejected"
    /\ obs' = "recv" /\ wic' = "CLOSED"
    /\ UNCHANGED <<sock, inst, tx, message_buffer, got, history, mainVars,
                   callVars, up, peerVars>>

\* http_parser reports the failed check: the transport is closed and the
\* state set, on_close_handler does not run, and klass->inst stays.
on_handshake_failure ==
    /\ obs = "rejected"
    /\ obs' = "recv" /\ wic' = "CLOSED" /\ Closed
    /\ UNCHANGED <<inst, tx, message_buffer, got, history, mainVars,
                   callVars, faults, events, serial>>

\* A text frame.  Fragments are gathered until the final one, and the text
\* parses only when it is one whole message.
Whole(m) ==
    \/ m.part = "whole" /\ message_buffer = <<>>
    \/ m.part = "tail" /\ message_buffer = <<m.serial>>

on_hello_handler(m) ==
    IF m.kind = "Hello" /\ Whole(m)
    THEN obs' = "sendIdentify" /\ tx' = Control("Identify")
    ELSE UNCHANGED <<obs, tx>>

DispatchOpCode(m) ==
    \/ Whole(m) /\ m.kind \in {"Identified", "Event"} /\ ws_emit(EventKey(m.kind), m)
    \/ Whole(m) /\ m.kind = "Response" /\ ws_emit(ResponseKey(m.id), m)
    \/ ~Whole(m) /\ UNCHANGED idle
    \/ m.kind = "Hello" /\ UNCHANGED idle

on_message_handler ==
    LET m == Head(down) IN
    /\ Receiving /\ wic = "OPEN"
    /\ m.kind \in {"Hello", "Identified", "Event", "Response"}
    /\ down' = Tail(down)
    /\ IF m.part = "head"
       THEN /\ message_buffer' = Append(message_buffer, m.serial)
            /\ UNCHANGED <<obs, tx, idle>>
       ELSE /\ message_buffer' = <<>>
            /\ on_hello_handler(m)
            /\ DispatchOpCode(m)
    /\ helloLost' = (helloLost \/ (m.kind = "Hello" /\ ~Whole(m)))
    /\ UNCHANGED <<wic, sock, inst, got, opened, sessions, callbacks, obs_connected, cloning,
                   lastSerial, callVars, up, peer, faults, events, serial>>

SendIdentify ==
    /\ obs = "sendIdentify"
    /\ transport_write(Control("Identify"))
    /\ obs' = "recv"
    /\ UNCHANGED <<wic, sock, inst, tx, message_buffer, got, history,
                   mainVars, callVars, peerVars>>

\* A ping is answered from the same transmit buffer.
send_pong_with_payload ==
    /\ Receiving /\ wic = "OPEN" /\ Head(down).kind = "Ping"
    /\ obs' = "sendPong" /\ tx' = Control("Pong") /\ down' = Tail(down)
    /\ UNCHANGED <<wic, sock, inst, message_buffer, got, history, mainVars,
                   callVars, up, peer, faults, events, serial>>

SendPong ==
    /\ obs = "sendPong"
    /\ transport_write(Control("Pong"))
    /\ obs' = "recv"
    /\ UNCHANGED <<wic, sock, inst, tx, message_buffer, got, history,
                   mainVars, callVars, peerVars>>

\* A close frame, or bytes that are no legal frame: CLOSED, and a close frame
\* in reply.
close_with_reason ==
    /\ Receiving /\ wic = "OPEN" /\ Head(down).kind \in {"Close", "Accept", "Reject"}
    /\ obs' = "sendClose" /\ wic' = "CLOSED" /\ tx' = Control("Close") /\ got' = TRUE
    /\ UNCHANGED <<sock, inst, message_buffer, history, mainVars,
                   callVars, up, peerVars>>

SendClose ==
    /\ obs = "sendClose"
    /\ transport_write(Control("Close"))
    /\ obs' = "onClose"
    /\ UNCHANGED <<wic, sock, inst, tx, message_buffer, got, history,
                   mainVars, callVars, peerVars>>

\* Variant: the close handler leaves klass->inst as it is.
OnCloseKeepsInst ==
    /\ obs = "onClose"
    /\ Closed
    /\ ws_emit(EventKey("Connected"), Plain("Close"))
    /\ obs' = IF got THEN "recv" ELSE "init"
    /\ UNCHANGED <<wic, inst, tx, message_buffer, got, history, callbacks,
                   obs_connected, cloning, lastSerial, callVars, faults, events,
                   serial>>

\* on_close_transport, then on_close_handler: emit "Connected", drop the
\* instance.  transport_recv then returns whether it had received data.
on_close_handler ==
    /\ obs = "onClose"
    /\ Closed
    /\ ws_emit(EventKey("Connected"), Plain("Close"))
    /\ inst' = FALSE
    /\ obs' = IF got THEN "recv" ELSE "init"
    /\ UNCHANGED <<wic, tx, message_buffer, got, history, callbacks,
                   obs_connected, cloning, lastSerial, callVars, faults, events,
                   serial>>

ObsThread ==
    \/ wic_init \/ transport_open_client \/ ConnectFails
    \/ start_client \/ StartFails \/ SendHttp \/ PublishInst
    \/ RecvEnd
    \/ on_response_complete \/ on_open_handler \/ on_handshake_failure
    \/ on_message_handler \/ SendIdentify
    \/ send_pong_with_payload \/ SendPong
    \/ close_with_reason \/ SendClose \/ on_close_handler

----------------------------------------------------------------------------
(***************************************************************************)
(* The requests: a thread begins one and goes through the steps of the     *)
(* request function and of ws_send.  The main thread begins one from a     *)
(* handler of the main loop, a pool thread while it executes a button.     *)
(***************************************************************************)

\* Thread t enters a request function.
Enter(t, idFirst, cb) ==
    /\ pc' = [pc EXCEPT ![t] = IF idFirst THEN "id" ELSE "inst"]
    /\ job' = [job EXCEPT ![t] =
                [id |-> 0, call |-> calls + 1, cb |-> cb, idFirst |-> idFirst]]
    /\ calls' = calls + 1

Begin(t, idFirst, cb) ==
    /\ pc[t] = "idle" /\ (t = Main => cloning = NoPlugin)
    /\ userCalls < MaxCalls /\ userCalls' = userCalls + 1
    /\ Enter(t, idFirst, cb)
    /\ UNCHANGED <<next_message_id, obsVars, mainVars, up, peerVars>>

obs_ws_get_scenes(t)                == Begin(t, FALSE, TRUE)
obs_ws_set_current_scene(t)         == Begin(t, TRUE, TRUE)
obs_ws_get_current_scene(t)         == \E cb \in BOOLEAN : Begin(t, TRUE, cb)
obs_ws_get_input_list(t)            == Begin(t, FALSE, TRUE)
obs_ws_toggle_input_mute(t)         == Begin(t, TRUE, TRUE)
obs_ws_get_input_mute(t)            == Begin(t, TRUE, TRUE)
obs_ws_toggle_record(t)             == Begin(t, FALSE, FALSE)
obs_ws_get_record_status(t)         == Begin(t, FALSE, TRUE)
obs_ws_set_scene_item_enabled(t)    == Begin(t, TRUE, FALSE)
obs_ws_get_scene_item_list(t)       == Begin(t, TRUE, TRUE)
obs_ws_set_record_chapter_marker(t) == Begin(t, TRUE, TRUE)
obs_ws_save_source_screenshot(t)    == Begin(t, TRUE, TRUE)

UserRequest(t) ==
    \/ obs_ws_get_scenes(t) \/ obs_ws_set_current_scene(t)
    \/ obs_ws_get_current_scene(t) \/ obs_ws_get_input_list(t)
    \/ obs_ws_toggle_input_mute(t) \/ obs_ws_get_input_mute(t)
    \/ obs_ws_toggle_record(t) \/ obs_ws_get_record_status(t)
    \/ obs_ws_set_scene_item_enabled(t) \/ obs_ws_get_scene_item_list(t)
    \/ obs_ws_set_record_chapter_marker(t) \/ obs_ws_save_source_screenshot(t)

Goto(t, label) == pc' = [pc EXCEPT ![t] = label]
Return(t)      == Goto(t, "idle") /\ job' = [job EXCEPT ![t] = NoJob]

\* ws_send registers the callback first, when there is one.
WsSend(j) == IF j.cb THEN "register" ELSE "check"

\* The preparation is over: how the id was taken no longer matters.
Prepared(t) == job' = [job EXCEPT ![t].idFirst = FALSE]

\* next_message_id++ is a load and a store.
LoadMessageId(t) ==
    /\ pc[t] = "id"
    /\ job' = [job EXCEPT ![t].id = next_message_id]
    /\ Goto(t, "bump")
    /\ UNCHANGED <<next_message_id, calls, userCalls, obsVars, mainVars, up, peerVars>>

\* Variants: the counter stays, or runs the wrong way.
SameMessageId(t) ==
    /\ pc[t] = "bump"
    /\ Goto(t, IF job[t].idFirst THEN "inst" ELSE WsSend(job[t]))
    /\ UNCHANGED <<next_message_id, job, calls, userCalls, obsVars, mainVars, up, peerVars>>

MessageIdDown(t) ==
    /\ pc[t] = "bump"
    /\ next_message_id' = job[t].id - 1
    /\ Goto(t, IF job[t].idFirst THEN "inst" ELSE WsSend(job[t]))
    /\ UNCHANGED <<job, calls, userCalls, obsVars, mainVars, up, peerVars>>

uwsc_message_id(t) ==
    /\ pc[t] = "bump"
    /\ next_message_id' = job[t].id + 1
    /\ Goto(t, IF job[t].idFirst THEN "inst" ELSE WsSend(job[t]))
    /\ UNCHANGED <<job, calls, userCalls, obsVars, mainVars, up, peerVars>>

\* inst = klass->inst, under the lock; with no instance the request is
\* dropped without a word to the caller.
ReadInst(t) ==
    /\ pc[t] = "inst"
    /\ IF inst
       THEN Goto(t, IF job[t].idFirst THEN WsSend(job[t]) ELSE "id") /\ Prepared(t)
       ELSE Return(t)
    /\ UNCHANGED <<next_message_id, calls, userCalls, obsVars, mainVars, up, peerVars>>

RegisterResponse(t) ==
    /\ pc[t] = "register"
    /\ callbacks' = Registered(ResponseKey(job[t].id), job[t].call)
    /\ Goto(t, "check")
    /\ UNCHANGED <<job, next_message_id, calls, userCalls, obsVars, idle,
                   obs_connected, cloning, lastSerial, up, peerVars>>

\* wic_send_text, through the pointer read earlier: refused (the status is
\* only printed) unless the state is OPEN.  A READY session is promoted first:
\* a load, a store, and a second load.
allowed_to_send(t) ==
    /\ pc[t] \in {"check", "recheck"}
    /\ \/ wic = "OPEN" /\ Goto(t, "put") /\ UNCHANGED job
       \/ wic = "READY" /\ pc[t] = "check" /\ Goto(t, "promote") /\ UNCHANGED job
       \/ wic # "OPEN" /\ ~(wic = "READY" /\ pc[t] = "check") /\ Return(t)
    /\ UNCHANGED <<next_message_id, calls, userCalls, obsVars, mainVars, up, peerVars>>

PromoteReady(t) ==
    /\ pc[t] = "promote"
    /\ wic' = "OPEN"
    /\ Goto(t, "recheck")
    /\ UNCHANGED <<obs, sock, inst, tx, message_buffer, got, history,
                   job, next_message_id, calls, userCalls, mainVars, up, peerVars>>

stream_put_frame(t) ==
    /\ pc[t] = "put"
    /\ tx' = Request(job[t])
    /\ Goto(t, "send")
    /\ UNCHANGED <<obs, wic, sock, inst, message_buffer, got, history,
                   job, next_message_id, calls, userCalls, mainVars, up, peerVars>>

on_send_handler(t) ==
    /\ pc[t] = "send"
    /\ transport_write(Request(job[t]))
    /\ Return(t)
    /\ UNCHANGED <<next_message_id, calls, userCalls, obsVars, mainVars, peerVars>>

RequestStep(t) ==
    \/ LoadMessageId(t) \/ uwsc_message_id(t) \/ ReadInst(t)
    \/ RegisterResponse(t) \/ allowed_to_send(t) \/ PromoteReady(t)
    \/ stream_put_frame(t) \/ on_send_handler(t)

----------------------------------------------------------------------------
(***************************************************************************)
(* The main loop: a button is created, or the oldest idle source runs.     *)
(* Neither happens while a handler of the main thread is sending.          *)
(***************************************************************************)

MainFree == pc[Main] = "idle" /\ cloning = NoPlugin

\* obs_plugin_clone: the action's init registers for its event ...
obs_plugin_clone(p) ==
    /\ MainFree
    /\ \A i \in DOMAIN Lookup(EventKey("Event")) : Lookup(EventKey("Event"))[i] # p
    /\ callbacks' = Registered(EventKey("Event"), p)
    /\ cloning' = p
    /\ UNCHANGED <<idle, obs_connected, lastSerial, obsVars, callVars, up, peerVars>>

\* ... and the button for "Identified".  With an instance published it is
\* called back at once.
obs_ws_register_callback ==
    /\ cloning # NoPlugin
    /\ callbacks' = Registered(EventKey("Identified"), cloning)
    /\ idle' = IF inst
               THEN Append(idle, [key |-> EventKey("Identified"), to |-> cloning,
                                  serial |-> 0, call |-> 0])
               ELSE idle
    /\ cloning' = NoPlugin
    /\ UNCHANGED <<obs_connected, lastSerial, callVars>>

\* "Identified": the button shows the connection and asks for the scene.
on_ws_connected(p) ==
    /\ obs_connected' = [obs_connected EXCEPT ![p] = TRUE]
    /\ Enter(Main, TRUE, FALSE)

invoke_callback_idle ==
    /\ MainFree /\ idle # <<>>
    /\ idle' = Tail(idle)
    /\ lastSerial' = IF Head(idle).serial = 0 THEN lastSerial ELSE Head(idle).serial
    /\ IF Head(idle).key = EventKey("Identified")
       THEN on_ws_connected(Head(idle).to)
       ELSE UNCHANGED <<obs_connected, pc, job, calls>>
    /\ UNCHANGED <<callbacks, cloning, next_message_id, userCalls>>

\* Neither step touches the session or the wire.
MainLoop ==
    /\ obs_ws_register_callback \/ invoke_callback_idle
    /\ UNCHANGED <<obsVars, up, peerVars>>

----------------------------------------------------------------------------
(***************************************************************************)
(* OBS Studio and the network (external).                                  *)
(***************************************************************************)

\* A message with the next serial number, whole or (wic delivers a message
\* larger than its receive buffer in pieces) as a head and a tail.
Sent(k, id, call) ==
    LET Part(q) == [kind |-> k, part |-> q, serial |-> serial + 1, id |-> id, call |-> call]
    IN  IF k \in {"Event", "Response"}
        THEN {<<Part("whole")>>, <<Part("head"), Part("tail")>>}
        ELSE {<<Part("whole")>>}

Send(k, id, call) ==
    /\ \E parts \in Sent(k, id, call) : down' = down \o parts
    /\ serial' = serial + 1

Hangup == down' = down \o <<Plain("Close"), Plain("Eof")>> /\ peer' = "gone"

\* OBS reads the next frame.  Before the session is identified any request
\* makes it close the connection, as does a frame it cannot parse.
PeerHandshake(f) ==
    /\ peer = "handshake"
    /\ IF f.kind = "Http"
       THEN /\ peer' = "hello" /\ serial' = serial + 1
            /\ down' = <<Plain("Accept"),
                         [kind |-> "Hello", part |-> "whole", serial |-> serial + 1,
                          id |-> 0, call |-> 0]>>
       ELSE /\ peer' = "gone" /\ down' = <<Plain("Reject"), Plain("Eof")>>
            /\ UNCHANGED serial

PeerHello(f) ==
    /\ peer = "hello"
    /\ \/ f.kind = "Identify" /\ peer' = "identified" /\ Send("Identified", 0, 0)
       \/ f.kind \in {"Pong", "Close"} /\ UNCHANGED <<peer, down, serial>>
       \/ f.kind \notin {"Identify", "Pong", "Close"} /\ Hangup /\ UNCHANGED serial

PeerIdentified(f) ==
    /\ peer = "identified"
    /\ \/ f.kind = "Request" /\ Send("Response", f.id, f.call) /\ UNCHANGED peer
       \/ f.kind \in {"Pong", "Close"} /\ UNCHANGED <<peer, down, serial>>
       \/ f.kind \notin {"Request", "Pong", "Close"} /\ Hangup /\ UNCHANGED serial

PeerReads ==
    /\ up # <<>>
    /\ PeerHandshake(Head(up)) \/ PeerHello(Head(up)) \/ PeerIdentified(Head(up))
    /\ up' = IF peer' = "gone" THEN <<>> ELSE Tail(up)
    /\ UNCHANGED <<obsVars, mainVars, callVars, faults, events>>

PeerEvent ==
    /\ events < MaxEvents /\ events' = events + 1
    /\ \/ peer = "identified" /\ Send("Event", 0, 0)
       \/ peer \in {"hello", "identified"} /\ Send("Ping", 0, 0)
    /\ UNCHANGED <<obsVars, mainVars, callVars, up, peer, faults>>

\* OBS refuses the handshake or closes the session, or the connection breaks
\* and what was still in flight may be lost.
PeerFault ==
    /\ peer # "gone" /\ faults < MaxFaults /\ faults' = faults + 1
    /\ \/ peer = "handshake" /\ peer' = "gone" /\ down' = <<Plain("Reject"), Plain("Eof")>>
       \/ peer # "handshake" /\ Hangup
       \/ /\ peer' = "gone"
          /\ \E n \in 0..Len(down) : down' = Append(SubSeq(down, 1, n), Plain("Eof"))
    /\ up' = <<>>
    /\ UNCHANGED <<obsVars, mainVars, callVars, events, serial>>

----------------------------------------------------------------------------
Next ==
    \/ ObsThread
    \/ \E t \in Threads : UserRequest(t) \/ RequestStep(t)
    \/ \E p \in Plugins : obs_plugin_clone(p)
    \/ MainLoop
    \/ PeerReads \/ PeerEvent \/ PeerFault

\* The obs thread, the threads inside a request and the main loop are
\* scheduled, recv() returns what has arrived, and OBS answers what it reads.
\* The user, the events and the faults owe nothing.
Fairness ==
    /\ WF_vars(ObsThread)
    /\ \A t \in Threads : WF_vars(RequestStep(t))
    /\ WF_vars(MainLoop)
    /\ WF_vars(PeerReads)

Spec     == Init /\ [][Next]_vars
FairSpec == Spec /\ Fairness

----------------------------------------------------------------------------
(***************************************************************************)
(* Properties.                                                             *)
(***************************************************************************)

\* The call of frame f is in the list of callbacks its answer will look up.
Awaited(f) ==
    f.kind = "Request" /\ f.cb =>
        LET list == Lookup(ResponseKey(f.id))
        IN  \E n \in DOMAIN list : list[n] = f.call

\* However the threads interleave, and even when two of them share a message
\* id or overwrite each other's frame, a request that wants an answer reaches
\* the wire only after its callback is registered: the answer cannot arrive
\* first and be thrown away (the order of ws_send).
RegisteredBeforeSent == \A i \in DOMAIN up : Awaited(up[i])

\* Whichever way the receive loop ends (end of file, failed or interrupted
\* handshake, close frame, wic_start failing), the socket has been closed by
\* the time obs_ws_main waits, so transport_open_client never loses one.
SocketClosedBetweenSessions == obs \in {"init", "connect"} => ~sock

\* A session that was open is over for the request threads before the obs
\* thread waits for the next one: no request is built for a session known to
\* be dead.  (After a failed handshake klass->inst does stay published.)
OpenedSessionIsWithdrawn == obs \in {"init", "connect"} /\ opened => ~inst

\* Answers and events run on the main thread in the order OBS sent them, over
\* all sessions: what was queued in an earlier session runs before what
\* arrives in a later one.
MessagesInOrder ==
    \A i \in DOMAIN idle : idle[i].serial # 0 =>
        /\ lastSerial <= idle[i].serial
        /\ \A j \in 1..(i - 1) : idle[j].serial <= idle[i].serial

\* A response runs the callback of the call it answers and no other, when
\* requests come from one thread (ids are then unique: uwsc_message_id).
ResponseToCaller ==
    \A i \in DOMAIN idle :
        idle[i].key[1] = "emit:response" => idle[i].to = idle[i].call

\* A lost connection is noticed, and the obs thread comes round to connecting
\* again, whatever the request threads do to the shared instance meanwhile.
ConnectionLost == sock /\ peer = "gone"
LostConnectionRetried == ConnectionLost ~> obs = "connect"

\* Once OBS and the network stop failing, the session ends up identified and
\* stays so, unless a fragment left in message_buffer by an earlier session
\* made the Hello unreadable (on_message_handler never resets it).
IdentifiedUnlessHelloLost == <>[](peer = "identified" \/ helloLost)

\* obs_ws_register_callback:657 says "Already connected" of a client that
\* has an instance: the session is then open.
AlreadyConnectedIsOpen ==
    [][obs_ws_register_callback /\ inst => wic = "OPEN"]_vars

\* ws_send:734 says "wic_send_text is thread-safe": a request reaches the
\* wire at most once.
NoRequestSentTwice ==
    \A i, j \in DOMAIN up :
        up[i].kind = "Request" /\ up[j].kind = "Request" /\ up[i].call = up[j].call => i = j

\* obs_plugin_render:153 has a "Default render for disconnected state": with
\* no connection and nothing left to run, no button shows itself connected.
DisconnectedIsShown ==
    obs = "init" /\ idle = <<>> /\ MainFree =>
        \A p \in Plugins : ~obs_connected[p]

----------------------------------------------------------------------------
(***************************************************************************)
(* Inductive invariants, from which ObsWsProofs derives the safety         *)
(* properties for all values of the constants.                             *)
(***************************************************************************)

\* Where the obs thread is tells what it still owns.  A request thread can
\* only move wic to OPEN, at any time, and no part depends on it not doing so.
SessionInv ==
    /\ SocketClosedBetweenSessions
    /\ OpenedSessionIsWithdrawn
    /\ obs \in {"sendHttp", "publish", "recv"} /\ sock => wic \notin {"INIT", "CLOSED"}
    /\ obs = "upgraded" => sock
    /\ obs \in {"sendIdentify", "sendPong"} => sock /\ wic = "OPEN"
    /\ obs \in {"start", "sendHttp", "publish", "rejected"} => ~opened
    /\ obs = "recv" /\ opened => wic # "PARSE_HANDSHAKE"
    /\ obs \in {"sendClose", "onClose"} => wic # "PARSE_HANDSHAKE"
    /\ obs = "recv" /\ opened /\ ~sock => ~inst

\* Whatever can still be written to the socket is a request whose callback is
\* registered: the frame in the shared buffer, the frames on their way, and
\* the request of every thread that has passed the registration.
RegisteredInv ==
    /\ Awaited(tx)
    /\ RegisteredBeforeSent
    /\ \A t \in Threads :
        pc[t] \in {"check", "promote", "recheck", "put", "send"} => Awaited(Request(job[t]))

\* The messages handed over, queued in the main loop and on their way from
\* OBS carry ascending serial numbers, in this order.
OrderInv ==
    /\ MessagesInOrder
    /\ lastSerial <= serial
    /\ \A k \in DOMAIN idle : idle[k].serial <= serial
    /\ \A i \in DOMAIN down : down[i].serial # 0 =>
        /\ lastSerial <= down[i].serial /\ down[i].serial <= serial
        /\ \A j \in 1..(i - 1) : down[j].serial <= down[i].serial
        /\ \A k \in DOMAIN idle : idle[k].serial <= down[i].serial

=============================================================================
