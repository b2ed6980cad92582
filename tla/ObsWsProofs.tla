---------------------------- MODULE ObsWsProofs ----------------------------
(***************************************************************************)
(* Proofs about ObsWs, for every number of threads, buttons, requests,     *)
(* faults and sessions.                                                    *)
(***************************************************************************)
EXTENDS MCObsCalls, SequenceTheorems, TLAPS

----------------------------------------------------------------------------
\* Typing of the shared operations.

LEMMA LookupType ==
    ASSUME TypeOK, NEW key
    PROVE  Lookup(key) \in Seq(Plugins \cup Nat)
  BY DEF Lookup, TypeOK, MainType

LEMMA RegisteredType ==
    ASSUME TypeOK, NEW key \in Key, NEW owner \in Plugins \cup Nat
    PROVE  /\ DOMAIN Registered(key, owner) \subseteq Key
           /\ \A k \in DOMAIN Registered(key, owner) :
                Registered(key, owner)[k] \in Seq(Plugins \cup Nat)
  BY LookupType DEF Registered, TypeOK, MainType

LEMMA EmittedType ==
    ASSUME TypeOK, NEW key \in Key, NEW m \in Message
    PROVE  Emitted(key, m) \in Seq(Source)
  <1> DEFINE list == Lookup(key)
             e(i) == [key |-> key, to |-> list[i], serial |-> m.serial, call |-> m.call]
  <1>1. list \in Seq(Plugins \cup Nat)
    BY LookupType
  <1>2. Len(list) \in Nat /\ \A i \in 1..Len(list) : list[i] \in Plugins \cup Nat
    BY <1>1
  <1>3. \A i \in 1..Len(list) : e(i) \in Source
    BY <1>2 DEF Source, Message
  <1>4. [i \in 1..Len(list) |-> e(i)] \in Seq(Source)
    BY <1>2, <1>3
  <1>. QED BY <1>4 DEF Emitted

LEMMA MessageType ==
    ASSUME TypeOK, down # <<>>
    PROVE  Head(down) \in Message /\ Tail(down) \in Seq(Message)
  BY DEF TypeOK, PeerType

LEMMA ControlType == \A k \in FrameKinds : Control(k) \in Frame
  BY DEF Control, Frame

LEMMA RequestType == \A j \in Job : Request(j) \in Frame
  BY DEF Request, Frame, Job, FrameKinds

LEMMA WriteType ==
    ASSUME TypeOK, NEW own \in Frame, transport_write(own)
    PROVE  up' \in Seq(Frame)
  <1>1. Control("Garbled") \in Frame
    BY ControlType DEF FrameKinds
  <1>2. \A f \in Frame : Append(up, f) \in Seq(Frame)
    BY DEF TypeOK, PeerType
  <1>. QED BY <1>1, <1>2 DEF transport_write, TypeOK, PeerType, ObsType

----------------------------------------------------------------------------
\* Type correctness: one lemma for each component of Next.

LEMMA StableTypes ==
    ASSUME TypeOK
    PROVE  /\ UNCHANGED obsVars => ObsType'
           /\ UNCHANGED mainVars => MainType'
           /\ UNCHANGED callVars => CallType'
           /\ UNCHANGED <<up, peerVars>> => PeerType'
  BY DEF TypeOK, ObsType, MainType, CallType, PeerType, history, obsVars,
         mainVars, callVars, peerVars

LEMMA ObsThreadType == TypeOK /\ ObsThread => TypeOK'
  <1> SUFFICES ASSUME TypeOK, ObsThread PROVE TypeOK'
    OBVIOUS
  <1> USE DEF history, obsVars, mainVars, callVars, peerVars
  <1>a. Control("Http") \in Frame /\ Control("Identify") \in Frame /\ Control("Pong") \in Frame
        /\ Control("Close") \in Frame
    BY ControlType DEF FrameKinds
  <1>1. CASE wic_init
    <2>1. ObsType'
      BY <1>1 DEF wic_init, TypeOK, ObsType, ObsPcs, WicStates
    <2>2. MainType'
      BY <1>1, StableTypes DEF wic_init
    <2>3. CallType'
      BY <1>1, StableTypes DEF wic_init
    <2>4. PeerType'
      BY <1>1, StableTypes DEF wic_init
    <2>. QED BY <2>1, <2>2, <2>3, <2>4 DEF TypeOK
  <1>2. CASE transport_open_client
    <2>1. sock' \in BOOLEAN /\ inst' \in BOOLEAN /\ got' \in BOOLEAN
      BY <1>2 DEF transport_open_client, TypeOK, ObsType
    <2>2. opened' \in BOOLEAN /\ helloLost' \in BOOLEAN
      BY <1>2 DEF transport_open_client
    <2>3. ObsType'
      BY <1>2, <2>1, <2>2 DEF transport_open_client, TypeOK, ObsType, ObsPcs
    <2>4. MainType' /\ CallType'
      BY <1>2, StableTypes DEF transport_open_client
    <2>5. PeerType'
      BY <1>2 DEF transport_open_client, TypeOK, PeerType
    <2>. QED BY <2>3, <2>4, <2>5 DEF TypeOK
  <1>3. CASE ConnectFails
    <2>1. ObsType'
      BY <1>3 DEF ConnectFails, TypeOK, ObsType, ObsPcs, WicStates
    <2>2. MainType'
      BY <1>3, StableTypes DEF ConnectFails
    <2>3. CallType'
      BY <1>3, StableTypes DEF ConnectFails
    <2>4. PeerType'
      BY <1>3 DEF ConnectFails, TypeOK, PeerType
    <2>. QED BY <2>1, <2>2, <2>3, <2>4 DEF TypeOK
  <1>4. CASE start_client
    <2>1. ObsType'
      BY <1>4, <1>a DEF start_client, TypeOK, ObsType, ObsPcs, WicStates
    <2>2. MainType'
      BY <1>4, StableTypes DEF start_client
    <2>3. CallType'
      BY <1>4, StableTypes DEF start_client
    <2>4. PeerType'
      BY <1>4, StableTypes DEF start_client
    <2>. QED BY <2>1, <2>2, <2>3, <2>4 DEF TypeOK
  <1>5. CASE StartFails
    <2>1. ObsType'
      BY <1>5 DEF StartFails, TypeOK, ObsType, ObsPcs, WicStates, Closed
    <2>2. MainType'
      BY <1>5, StableTypes DEF StartFails
    <2>3. CallType'
      BY <1>5, StableTypes DEF StartFails
    <2>4. PeerType'
      BY <1>5 DEF StartFails, TypeOK, PeerType, Closed
    <2>. QED BY <2>1, <2>2, <2>3, <2>4 DEF TypeOK
  <1>6. CASE SendHttp
    <2>1. ObsType'
      BY <1>6 DEF SendHttp, TypeOK, ObsType, ObsPcs, WicStates
    <2>2. MainType'
      BY <1>6, StableTypes DEF SendHttp
    <2>3. CallType'
      BY <1>6, StableTypes DEF SendHttp
    <2>4. PeerType'
      BY <1>6, <1>a, WriteType DEF SendHttp, TypeOK, PeerType
    <2>. QED BY <2>1, <2>2, <2>3, <2>4 DEF TypeOK
  <1>7. CASE PublishInst
    <2>1. ObsType'
      BY <1>7 DEF PublishInst, TypeOK, ObsType, ObsPcs, WicStates
    <2>2. MainType'
      BY <1>7, StableTypes DEF PublishInst
    <2>3. CallType'
      BY <1>7, StableTypes DEF PublishInst
    <2>4. PeerType'
      BY <1>7, StableTypes DEF PublishInst
    <2>. QED BY <2>1, <2>2, <2>3, <2>4 DEF TypeOK
  <1>8. CASE RecvEnd
    <2>1. ObsType'
      BY <1>8 DEF RecvEnd, TypeOK, ObsType, ObsPcs, WicStates, Closed
    <2>2. MainType'
      BY <1>8, StableTypes DEF RecvEnd
    <2>3. CallType'
      BY <1>8, StableTypes DEF RecvEnd
    <2>4. PeerType'
      <3>1. Closed \/ UNCHANGED <<peer, up, down>>
        BY <1>8 DEF RecvEnd
      <3>2. UNCHANGED <<faults, events, serial>>
        BY <1>8 DEF RecvEnd
      <3>. QED BY <3>1, <3>2, EmptySeq DEF TypeOK, PeerType, Closed
    <2>. QED BY <2>1, <2>2, <2>3, <2>4 DEF TypeOK
  <1>9. CASE on_response_complete
    <2>1. ObsType'
      BY <1>9 DEF on_response_complete, TypeOK, ObsType, ObsPcs, WicStates
    <2>2. MainType'
      BY <1>9, StableTypes DEF on_response_complete
    <2>3. CallType'
      BY <1>9, StableTypes DEF on_response_complete
    <2>4. PeerType'
      BY <1>9, MessageType DEF on_response_complete, TypeOK, PeerType, Receiving
    <2>. QED BY <2>1, <2>2, <2>3, <2>4 DEF TypeOK
  <1>10. CASE on_open_handler
    <2>1. ObsType'
      BY <1>10 DEF on_open_handler, TypeOK, ObsType, ObsPcs, WicStates
    <2>2. MainType'
      BY <1>10, StableTypes DEF on_open_handler
    <2>3. CallType'
      BY <1>10, StableTypes DEF on_open_handler
    <2>4. PeerType'
      BY <1>10, StableTypes DEF on_open_handler
    <2>. QED BY <2>1, <2>2, <2>3, <2>4 DEF TypeOK
  <1>11. CASE on_handshake_failure
    <2>1. ObsType'
      BY <1>11 DEF on_handshake_failure, TypeOK, ObsType, ObsPcs, WicStates, Closed
    <2>2. MainType'
      BY <1>11, StableTypes DEF on_handshake_failure
    <2>3. CallType'
      BY <1>11, StableTypes DEF on_handshake_failure
    <2>4. PeerType'
      BY <1>11 DEF on_handshake_failure, TypeOK, PeerType, Closed
    <2>. QED BY <2>1, <2>2, <2>3, <2>4 DEF TypeOK
  <1>12. CASE on_message_handler
    <2> DEFINE m == Head(down)
    <2>1. m \in Message /\ Tail(down) \in Seq(Message)
      BY <1>12, MessageType DEF on_message_handler, Receiving
    <2>2. message_buffer' \in Seq(Nat)
      <3>1. message_buffer' = Append(message_buffer, m.serial) \/ message_buffer' = <<>>
        BY <1>12 DEF on_message_handler
      <3>2. m.serial \in Nat
        BY <2>1 DEF Message
      <3>3. message_buffer \in Seq(Nat)
        BY DEF TypeOK, ObsType
      <3>4. Append(message_buffer, m.serial) \in Seq(Nat)
        BY <3>2, <3>3, AppendProperties
      <3>. QED BY <3>1, <3>4, EmptySeq
    <2>3. \A k \in Key : Emitted(k, m) \in Seq(Source)
      BY <2>1, EmittedType
    <2>4. EventKey("Identified") \in Key /\ EventKey("Event") \in Key /\ ResponseKey(m.id) \in Key
      BY <2>1 DEF EventKey, ResponseKey, Key, Message
    <2>5. idle' = idle \/ \E k \in Key : idle' = idle \o Emitted(k, m)
      BY <1>12, <2>4 DEF on_message_handler, DispatchOpCode, ws_emit
    <2>6. MainType'
      <3>1. idle' \in Seq(Source)
        <4>1. idle \in Seq(Source)
          BY DEF TypeOK, MainType
        <4>. HIDE DEF m
        <4>. QED BY <2>3, <2>5, <4>1, ConcatProperties
      <3>. QED BY <1>12, <3>1 DEF on_message_handler, TypeOK, MainType
    <2>7. obs' \in ObsPcs /\ tx' \in Frame
      BY <1>12, <1>a DEF on_message_handler, on_hello_handler, TypeOK, ObsType, ObsPcs
    <2>8. helloLost' \in BOOLEAN
      BY <1>12 DEF on_message_handler
    <2>9. ObsType'
      BY <1>12, <2>2, <2>7, <2>8 DEF on_message_handler, TypeOK, ObsType
    <2>10. CallType' /\ PeerType'
      BY <1>12, <2>1, StableTypes DEF on_message_handler, TypeOK, PeerType
    <2>. QED BY <2>6, <2>9, <2>10 DEF TypeOK
  <1>13. CASE SendIdentify
    <2>1. ObsType'
      BY <1>13 DEF SendIdentify, TypeOK, ObsType, ObsPcs, WicStates
    <2>2. MainType'
      BY <1>13, StableTypes DEF SendIdentify
    <2>3. CallType'
      BY <1>13, StableTypes DEF SendIdentify
    <2>4. PeerType'
      BY <1>13, <1>a, WriteType DEF SendIdentify, TypeOK, PeerType
    <2>. QED BY <2>1, <2>2, <2>3, <2>4 DEF TypeOK
  <1>14. CASE send_pong_with_payload
    <2>1. ObsType'
      BY <1>14, <1>a DEF send_pong_with_payload, TypeOK, ObsType, ObsPcs, WicStates
    <2>2. MainType'
      BY <1>14, StableTypes DEF send_pong_with_payload
    <2>3. CallType'
      BY <1>14, StableTypes DEF send_pong_with_payload
    <2>4. PeerType'
      BY <1>14, MessageType DEF send_pong_with_payload, TypeOK, PeerType, Receiving
    <2>. QED BY <2>1, <2>2, <2>3, <2>4 DEF TypeOK
  <1>15. CASE SendPong
    <2>1. ObsType'
      BY <1>15 DEF SendPong, TypeOK, ObsType, ObsPcs, WicStates
    <2>2. MainType'
      BY <1>15, StableTypes DEF SendPong
    <2>3. CallType'
      BY <1>15, StableTypes DEF SendPong
    <2>4. PeerType'
      BY <1>15, <1>a, WriteType DEF SendPong, TypeOK, PeerType
    <2>. QED BY <2>1, <2>2, <2>3, <2>4 DEF TypeOK
  <1>16. CASE close_with_reason
    <2>1. ObsType'
      BY <1>16, <1>a DEF close_with_reason, TypeOK, ObsType, ObsPcs, WicStates
    <2>2. MainType'
      BY <1>16, StableTypes DEF close_with_reason
    <2>3. CallType'
      BY <1>16, StableTypes DEF close_with_reason
    <2>4. PeerType'
      BY <1>16, StableTypes DEF close_with_reason
    <2>. QED BY <2>1, <2>2, <2>3, <2>4 DEF TypeOK
  <1>17. CASE SendClose
    <2>1. ObsType'
      BY <1>17 DEF SendClose, TypeOK, ObsType, ObsPcs, WicStates
    <2>2. MainType'
      BY <1>17, StableTypes DEF SendClose
    <2>3. CallType'
      BY <1>17, StableTypes DEF SendClose
    <2>4. PeerType'
      BY <1>17, <1>a, WriteType DEF SendClose, TypeOK, PeerType
    <2>. QED BY <2>1, <2>2, <2>3, <2>4 DEF TypeOK
  <1>18. CASE on_close_handler
    <2>0. Emitted(EventKey("Connected"), Plain("Close")) \in Seq(Source)
      <3>1. Plain("Close") \in Message /\ EventKey("Connected") \in Key
        BY DEF Plain, Message, MessageKinds, EventKey, Key
      <3>. QED BY <3>1, EmittedType
    <2>1. ObsType'
      BY <1>18 DEF on_close_handler, TypeOK, ObsType, ObsPcs, WicStates, Closed
    <2>2. MainType'
      BY <1>18, <2>0 DEF on_close_handler, TypeOK, MainType, ws_emit
    <2>3. CallType'
      BY <1>18, StableTypes DEF on_close_handler
    <2>4. PeerType'
      BY <1>18 DEF on_close_handler, TypeOK, PeerType, Closed
    <2>. QED BY <2>1, <2>2, <2>3, <2>4 DEF TypeOK
  <1>. QED
    BY <1>1, <1>2, <1>3, <1>4, <1>5, <1>6, <1>7, <1>8, <1>9, <1>10, <1>11, <1>12,
       <1>13, <1>14, <1>15, <1>16, <1>17, <1>18 DEF ObsThread

LEMMA EnterType ==
    ASSUME TypeOK, NEW t \in Threads, NEW idFirst \in BOOLEAN, NEW cb \in BOOLEAN,
           Enter(t, idFirst, cb)
    PROVE  /\ pc' \in [Threads -> CallPcs]
           /\ job' \in [Threads -> Job]
           /\ calls' \in Nat
  BY DEF Enter, TypeOK, CallType, Job, CallPcs

LEMMA UserRequestType == ASSUME TypeOK, NEW t \in Threads, UserRequest(t) PROVE TypeOK'
  <1>1. PICK idFirst \in BOOLEAN, cb \in BOOLEAN : Begin(t, idFirst, cb)
    BY DEF UserRequest, obs_ws_get_scenes, obs_ws_set_current_scene,
           obs_ws_get_current_scene, obs_ws_get_input_list, obs_ws_toggle_input_mute,
           obs_ws_get_input_mute, obs_ws_toggle_record, obs_ws_get_record_status,
           obs_ws_set_scene_item_enabled, obs_ws_get_scene_item_list,
           obs_ws_set_record_chapter_marker, obs_ws_save_source_screenshot
  <1>2. CallType'
    BY <1>1, EnterType DEF Begin, TypeOK, CallType
  <1>3. ObsType' /\ MainType' /\ PeerType'
    BY <1>1, StableTypes DEF Begin
  <1>. QED BY <1>2, <1>3 DEF TypeOK

LEMMA GotoType ==
    ASSUME TypeOK, NEW t \in Threads, NEW label \in CallPcs
    PROVE  /\ Goto(t, label) => pc' \in [Threads -> CallPcs]
           /\ Return(t) => pc' \in [Threads -> CallPcs] /\ job' \in [Threads -> Job]
  <1>1. NoJob \in Job /\ "idle" \in CallPcs
    BY DEF NoJob, Job, CallPcs
  <1>2. \A l \in CallPcs : Goto(t, l) => pc' \in [Threads -> CallPcs]
    BY DEF Goto, TypeOK, CallType
  <1>. QED BY <1>1, <1>2 DEF Return, TypeOK, CallType

LEMMA RequestStepType == ASSUME TypeOK, NEW t \in Threads, RequestStep(t) PROVE TypeOK'
  <1> USE DEF history, obsVars, mainVars, callVars, peerVars
  <1>a. pc \in [Threads -> CallPcs] /\ job \in [Threads -> Job] /\ job[t] \in Job
    BY DEF TypeOK, CallType
  <1>b. WsSend(job[t]) \in CallPcs
    BY DEF WsSend, CallPcs
  <1>1. CASE LoadMessageId(t)
    <2>1. CallType'
      BY <1>1, <1>a, GotoType DEF LoadMessageId, TypeOK, CallType, CallPcs, Job
    <2>. QED BY <1>1, <2>1, StableTypes DEF LoadMessageId, TypeOK
  <1>2. CASE uwsc_message_id(t)
    <2>1. job[t].id + 1 \in Nat
      BY <1>a DEF Job
    <2>2. CallType'
      BY <1>2, <1>a, <1>b, <2>1, GotoType DEF uwsc_message_id, TypeOK, CallType, CallPcs
    <2>. QED BY <1>2, <2>2, StableTypes DEF uwsc_message_id, TypeOK
  <1>3. CASE ReadInst(t)
    <2>1. Prepared(t) => job' \in [Threads -> Job]
      BY <1>a DEF Prepared, Job
    <2>2. CallType'
      BY <1>3, <1>b, <2>1, GotoType DEF ReadInst, TypeOK, CallType, CallPcs
    <2>. QED BY <1>3, <2>2, StableTypes DEF ReadInst, TypeOK
  <1>4. CASE RegisterResponse(t)
    <2>1. ResponseKey(job[t].id) \in Key /\ job[t].call \in Plugins \cup Nat
      BY <1>a DEF ResponseKey, Key, Job
    <2>2. MainType'
      BY <1>4, <2>1, RegisteredType DEF RegisterResponse, TypeOK, MainType
    <2>3. CallType'
      BY <1>4, GotoType DEF RegisterResponse, TypeOK, CallType, CallPcs
    <2>. QED BY <1>4, <2>2, <2>3, StableTypes DEF RegisterResponse, TypeOK
  <1>5. CASE allowed_to_send(t)
    <2>1. CallType'
      BY <1>5, <1>a, GotoType DEF allowed_to_send, TypeOK, CallType, CallPcs
    <2>. QED BY <1>5, <2>1, StableTypes DEF allowed_to_send, TypeOK
  <1>6. CASE PromoteReady(t)
    <2>1. CallType'
      BY <1>6, GotoType DEF PromoteReady, TypeOK, CallType, CallPcs
    <2>2. ObsType'
      BY <1>6 DEF PromoteReady, TypeOK, ObsType, WicStates
    <2>. QED BY <1>6, <2>1, <2>2, StableTypes DEF PromoteReady, TypeOK
  <1>7. CASE stream_put_frame(t)
    <2>1. CallType'
      BY <1>7, GotoType DEF stream_put_frame, TypeOK, CallType, CallPcs
    <2>2. ObsType'
      BY <1>7, <1>a, RequestType DEF stream_put_frame, TypeOK, ObsType
    <2>. QED BY <1>7, <2>1, <2>2, StableTypes DEF stream_put_frame, TypeOK
  <1>8. CASE on_send_handler(t)
    <2>1. CallType'
      BY <1>8, GotoType DEF on_send_handler, TypeOK, CallType, CallPcs
    <2>2. PeerType'
      BY <1>8, <1>a, RequestType, WriteType DEF on_send_handler, TypeOK, PeerType
    <2>. QED BY <1>8, <2>1, <2>2, StableTypes DEF on_send_handler, TypeOK
  <1>. QED BY <1>1, <1>2, <1>3, <1>4, <1>5, <1>6, <1>7, <1>8 DEF RequestStep

LEMMA CloneType == ASSUME TypeOK, NEW p \in Plugins, obs_plugin_clone(p) PROVE TypeOK'
  <1>1. EventKey("Event") \in Key
    BY DEF EventKey, Key
  <1>2. MainType'
    BY <1>1, RegisteredType DEF obs_plugin_clone, TypeOK, MainType
  <1>. QED BY <1>2, StableTypes DEF obs_plugin_clone, TypeOK

LEMMA MainLoopType == TypeOK /\ MainLoop => TypeOK'
  <1> SUFFICES ASSUME TypeOK, MainLoop PROVE TypeOK'
    OBVIOUS
  <1> USE DEF history, obsVars, mainVars, callVars, peerVars
  <1>0. UNCHANGED <<obsVars, up, peerVars>>
    BY DEF MainLoop
  <1>1. CASE obs_ws_register_callback
    <2> DEFINE s == [key |-> EventKey("Identified"), to |-> cloning, serial |-> 0, call |-> 0]
    <2>1. cloning \in Plugins /\ EventKey("Identified") \in Key
      BY <1>1 DEF obs_ws_register_callback, TypeOK, MainType, EventKey, Key
    <2>2. s \in Source
      BY <2>1 DEF Source
    <2>3. idle' = Append(idle, s) \/ idle' = idle
      BY <1>1 DEF obs_ws_register_callback
    <2>4. idle' \in Seq(Source)
      <3>. HIDE DEF s
      <3>. QED BY <2>2, <2>3, AppendProperties DEF TypeOK, MainType
    <2>5. MainType'
      BY <1>0, <1>1, <2>1, <2>4, RegisteredType DEF obs_ws_register_callback, TypeOK, MainType
    <2>. QED BY <1>0, <1>1, <2>5, StableTypes DEF obs_ws_register_callback, TypeOK
  <1>2. CASE invoke_callback_idle
    <2>1. Head(idle) \in Source /\ Tail(idle) \in Seq(Source)
      BY <1>2 DEF invoke_callback_idle, TypeOK, MainType
    <2>2. lastSerial' \in Nat
      BY <1>2, <2>1 DEF invoke_callback_idle, Source, TypeOK, MainType
    <2>3. CASE Head(idle).key = EventKey("Identified")
      <3>1. Main \in Threads
        BY DEF Threads
      <3>2. on_ws_connected(Head(idle).to)
        BY <1>2, <2>3 DEF invoke_callback_idle
      <3>3. CallType'
        BY <1>2, <3>1, <3>2, EnterType DEF invoke_callback_idle, on_ws_connected, TypeOK, CallType
      <3>4. obs_connected' \in [Plugins -> BOOLEAN]
        BY <3>2 DEF on_ws_connected, TypeOK, MainType
      <3>5. MainType'
        BY <1>0, <1>2, <2>1, <2>2, <3>4 DEF invoke_callback_idle, TypeOK, MainType
      <3>. QED BY <1>0, <1>2, <3>3, <3>5, StableTypes DEF invoke_callback_idle, TypeOK
    <2>4. CASE Head(idle).key # EventKey("Identified")
      <3>1. UNCHANGED <<obs_connected, pc, job, calls>>
        BY <1>2, <2>4 DEF invoke_callback_idle
      <3>2. MainType'
        BY <1>2, <2>1, <2>2, <3>1 DEF invoke_callback_idle, TypeOK, MainType
      <3>. QED BY <1>0, <1>2, <3>1, <3>2, StableTypes DEF invoke_callback_idle, TypeOK
    <2>. QED BY <2>3, <2>4
  <1>. QED BY <1>1, <1>2 DEF MainLoop

LEMMA ShortSeqType ==
    ASSUME NEW S, NEW a \in S, NEW b \in S
    PROVE  <<a>> \in Seq(S) /\ <<a, b>> \in Seq(S)
  OBVIOUS

LEMMA SendType ==
    ASSUME TypeOK, NEW k \in MessageKinds, NEW id \in Nat, NEW call \in Nat,
           Send(k, id, call)
    PROVE  down' \in Seq(Message) /\ serial' \in Nat
  <1>1. serial + 1 \in Nat
    BY DEF TypeOK, PeerType
  <1>2. \A parts \in Sent(k, id, call) : parts \in Seq(Message)
    <2> DEFINE Part(q) == [kind |-> k, part |-> q, serial |-> serial + 1,
                           id |-> id, call |-> call]
    <2>1. Part("whole") \in Message /\ Part("head") \in Message /\ Part("tail") \in Message
      BY <1>1 DEF Message
    <2>2. \A parts \in Sent(k, id, call) :
            parts = <<Part("whole")>> \/ parts = <<Part("head"), Part("tail")>>
      BY DEF Sent
    <2>. HIDE DEF Part
    <2>. QED BY <2>1, <2>2, ShortSeqType
  <1>3. PICK parts \in Sent(k, id, call) : down' = down \o parts
    BY DEF Send
  <1>4. down \in Seq(Message) /\ parts \in Seq(Message)
    BY <1>2 DEF TypeOK, PeerType
  <1>. QED BY <1>1, <1>3, <1>4, ConcatProperties DEF Send

LEMMA PlainType == \A k \in MessageKinds : Plain(k) \in Message
  BY DEF Plain, Message

LEMMA HangupType ==
    ASSUME TypeOK, Hangup
    PROVE  down' \in Seq(Message)
  <1> DEFINE end == <<Plain("Close"), Plain("Eof")>>
  <1>1. end \in Seq(Message) /\ down \in Seq(Message)
    BY PlainType DEF MessageKinds, TypeOK, PeerType
  <1>2. down' = down \o end
    BY DEF Hangup
  <1>. HIDE DEF end
  <1>. QED BY <1>1, <1>2, ConcatProperties

LEMMA PeerReadsType == TypeOK /\ PeerReads => TypeOK'
  <1> SUFFICES ASSUME TypeOK, PeerReads PROVE TypeOK'
    OBVIOUS
  <1> DEFINE f == Head(up)
  <1> USE DEF peerVars
  <1>1. f \in Frame /\ Tail(up) \in Seq(Frame)
    BY DEF PeerReads, TypeOK, PeerType
  <1>2. down \in Seq(Message) /\ serial \in Nat
    BY DEF TypeOK, PeerType
  <1>3. up' \in Seq(Frame)
    BY <1>1, EmptySeq DEF PeerReads
  <1>4. f.id \in Nat /\ f.call \in Nat
    BY <1>1 DEF Frame
  <1>5. Hangup => down' \in Seq(Message) /\ peer' = "gone"
    BY HangupType DEF Hangup
  <1> HIDE DEF f
  <1>6. /\ down' \in Seq(Message) /\ serial' \in Nat
        /\ peer' \in {"gone", "handshake", "hello", "identified"}
    <2>1. CASE PeerHandshake(f)
      <3> DEFINE hello == [kind |-> "Hello", part |-> "whole", serial |-> serial + 1,
                           id |-> 0, call |-> 0]
      <3>1. hello \in Message
        BY <1>2 DEF Message, MessageKinds
      <3>2. Plain("Accept") \in Message /\ Plain("Reject") \in Message /\ Plain("Eof") \in Message
        BY PlainType DEF MessageKinds
      <3>3. \/ down' = <<Plain("Accept"), hello>> /\ serial' = serial + 1 /\ peer' = "hello"
            \/ down' = <<Plain("Reject"), Plain("Eof")>> /\ serial' = serial /\ peer' = "gone"
        BY <2>1 DEF PeerHandshake
      <3>. HIDE DEF hello
      <3>4. <<Plain("Accept"), hello>> \in Seq(Message)
            /\ <<Plain("Reject"), Plain("Eof")>> \in Seq(Message)
        BY <3>1, <3>2, ShortSeqType
      <3>5. down' \in Seq(Message)
        BY <3>3, <3>4
      <3>6. serial' \in Nat /\ peer' \in {"gone", "handshake", "hello", "identified"}
        BY <1>2, <3>3
      <3>. QED BY <3>5, <3>6
    <2>2. CASE PeerHello(f)
      <3>1. Send("Identified", 0, 0) => down' \in Seq(Message) /\ serial' \in Nat
        BY SendType DEF MessageKinds
      <3>. QED BY <2>2, <1>2, <1>5, <3>1 DEF PeerHello
    <2>3. CASE PeerIdentified(f)
      <3>1. Send("Response", f.id, f.call) => down' \in Seq(Message) /\ serial' \in Nat
        BY <1>4, SendType DEF MessageKinds
      <3>. QED BY <2>3, <1>2, <1>5, <3>1 DEF PeerIdentified
    <2>. QED BY <2>1, <2>2, <2>3 DEF PeerReads, f
  <1>7. PeerType'
    BY <1>3, <1>6 DEF PeerReads, TypeOK, PeerType
  <1>8. ObsType' /\ MainType' /\ CallType'
    BY StableTypes DEF PeerReads
  <1>. QED BY <1>7, <1>8 DEF TypeOK

LEMMA PeerEventType == TypeOK /\ PeerEvent => TypeOK'
  <1> SUFFICES ASSUME TypeOK, PeerEvent PROVE TypeOK'
    OBVIOUS
  <1>1. Send("Event", 0, 0) \/ Send("Ping", 0, 0)
    BY DEF PeerEvent
  <1>2. down' \in Seq(Message) /\ serial' \in Nat
    BY <1>1, SendType DEF MessageKinds
  <1>3. PeerType'
    BY <1>2 DEF PeerEvent, TypeOK, PeerType
  <1>. QED BY <1>3, StableTypes DEF PeerEvent, TypeOK

LEMMA PeerFaultType == TypeOK /\ PeerFault => TypeOK'
  <1> SUFFICES ASSUME TypeOK, PeerFault PROVE TypeOK'
    OBVIOUS
  <1>1. Plain("Reject") \in Message /\ Plain("Eof") \in Message
    BY PlainType DEF MessageKinds
  <1>2. down \in Seq(Message)
    BY DEF TypeOK, PeerType
  <1>3. \A n \in 0..Len(down) : Append(SubSeq(down, 1, n), Plain("Eof")) \in Seq(Message)
    <2>1. \A n \in 0..Len(down) : SubSeq(down, 1, n) \in Seq(Message)
      BY <1>2
    <2>. QED BY <1>1, <2>1, AppendProperties
  <1>4. /\ peer' = "gone"
        /\ \/ down' = <<Plain("Reject"), Plain("Eof")>>
           \/ Hangup
           \/ \E n \in 0..Len(down) : down' = Append(SubSeq(down, 1, n), Plain("Eof"))
    BY DEF PeerFault, Hangup
  <1>5. down' \in Seq(Message)
    BY <1>1, <1>3, <1>4, HangupType, ShortSeqType
  <1>6. PeerType'
    BY <1>4, <1>5, EmptySeq DEF PeerFault, TypeOK, PeerType
  <1>. QED BY <1>6, StableTypes DEF PeerFault, TypeOK

LEMMA NextType == TypeOK /\ [Next]_vars => TypeOK'
  <1> SUFFICES ASSUME TypeOK, [Next]_vars PROVE TypeOK'
    OBVIOUS
  <1>1. CASE UNCHANGED vars
    BY <1>1, StableTypes DEF vars, TypeOK
  <1>. QED
    BY <1>1, ObsThreadType, UserRequestType, RequestStepType, CloneType,
       MainLoopType, PeerReadsType, PeerEventType, PeerFaultType DEF Next

LEMMA InitType == Init => TypeOK
  <1> SUFFICES ASSUME Init PROVE TypeOK
    OBVIOUS
  <1>1. ObsType
    BY ControlType, EmptySeq DEF Init, ObsType, ObsPcs, WicStates, FrameKinds
  <1>2. MainType
    BY EmptySeq DEF Init, MainType
  <1>3. CallType
    BY DEF Init, CallType, CallPcs, Job, NoJob
  <1>4. PeerType
    BY EmptySeq DEF Init, PeerType
  <1>. QED BY <1>1, <1>2, <1>3, <1>4 DEF TypeOK

\* Every variable keeps its type, for any threads, buttons and bounds: no
\* message, frame, request or registration the code builds is malformed, and
\* the state machine of obs_ws_main and wic never leaves its states.
THEOREM TypeCorrect == Spec => []TypeOK
  BY InitType, NextType, PTL DEF Spec

----------------------------------------------------------------------------
(***************************************************************************)
(* The session.  Only the obs thread moves obs, sock, inst and opened; the *)
(* request threads reach into it with wic' = "OPEN" alone.                 *)
(***************************************************************************)

LEMMA SessionObsThread == SessionInv /\ ObsThread => SessionInv'
  <1> SUFFICES ASSUME SessionInv, ObsThread PROVE SessionInv'
    OBVIOUS
  <1> USE DEF SessionInv, SocketClosedBetweenSessions, OpenedSessionIsWithdrawn, history, obsVars
  <1>1. CASE wic_init
    BY <1>1 DEF wic_init
  <1>2. CASE transport_open_client
    BY <1>2 DEF transport_open_client
  <1>3. CASE ConnectFails
    BY <1>3 DEF ConnectFails
  <1>4. CASE start_client
    BY <1>4 DEF start_client
  <1>5. CASE StartFails
    BY <1>5 DEF StartFails, Closed
  <1>6. CASE SendHttp
    BY <1>6 DEF SendHttp
  <1>7. CASE PublishInst
    BY <1>7 DEF PublishInst
  <1>8. CASE RecvEnd
    BY <1>8 DEF RecvEnd, Closed
  <1>9. CASE on_response_complete
    BY <1>9 DEF on_response_complete, Receiving
  <1>10. CASE on_open_handler
    BY <1>10 DEF on_open_handler
  <1>11. CASE on_handshake_failure
    BY <1>11 DEF on_handshake_failure, Closed
  <1>12. CASE on_message_handler
    BY <1>12 DEF on_message_handler, Receiving, on_hello_handler
  <1>13. CASE SendIdentify
    BY <1>13 DEF SendIdentify
  <1>14. CASE send_pong_with_payload
    BY <1>14 DEF send_pong_with_payload, Receiving
  <1>15. CASE SendPong
    BY <1>15 DEF SendPong
  <1>16. CASE close_with_reason
    BY <1>16 DEF close_with_reason, Receiving
  <1>17. CASE SendClose
    BY <1>17 DEF SendClose
  <1>18. CASE on_close_handler
    <2>1. obs' \in {"recv", "init"}
      BY <1>18 DEF on_close_handler
    <2>2. ~sock' /\ ~inst'
      BY <1>18 DEF on_close_handler, Closed
    <2>3. obs = "onClose" /\ wic' = wic
      BY <1>18 DEF on_close_handler
    <2>. QED BY <2>1, <2>2, <2>3
  <1>. HIDE DEF SessionInv, history, obsVars
  <1>. QED
    BY <1>1, <1>2, <1>3, <1>4, <1>5, <1>6, <1>7, <1>8, <1>9, <1>10, <1>11, <1>12,
       <1>13, <1>14, <1>15, <1>16, <1>17, <1>18 DEF ObsThread

\* A step of another component leaves obs, sock, inst and opened alone, and
\* wic too unless it promotes the session.
LEMMA SessionOthers ==
    ASSUME SessionInv, UNCHANGED <<obs, sock, inst, opened>>, wic' = wic \/ wic' = "OPEN"
    PROVE  SessionInv'
  BY DEF SessionInv, SocketClosedBetweenSessions, OpenedSessionIsWithdrawn

LEMMA SessionRequests ==
    ASSUME SessionInv, NEW t \in Threads, UserRequest(t) \/ RequestStep(t)
    PROVE  SessionInv'
  <1>1. CASE UserRequest(t)
    <2>1. UNCHANGED obsVars
      BY <1>1 DEF UserRequest, Begin, obs_ws_get_scenes, obs_ws_set_current_scene,
         obs_ws_get_current_scene, obs_ws_get_input_list, obs_ws_toggle_input_mute,
         obs_ws_get_input_mute, obs_ws_toggle_record, obs_ws_get_record_status,
         obs_ws_set_scene_item_enabled, obs_ws_get_scene_item_list,
         obs_ws_set_record_chapter_marker, obs_ws_save_source_screenshot
    <2>. QED BY <2>1, SessionOthers DEF obsVars, history
  <1>2. CASE RequestStep(t)
    <2>1. UNCHANGED <<obs, sock, inst, opened>> /\ (wic' = wic \/ wic' = "OPEN")
      BY <1>2 DEF RequestStep, LoadMessageId, uwsc_message_id, ReadInst, RegisterResponse,
         allowed_to_send, PromoteReady, stream_put_frame, on_send_handler, obsVars, history
    <2>. QED BY <2>1, SessionOthers
  <1>. QED BY <1>1, <1>2

LEMMA SessionNext == SessionInv /\ [Next]_vars => SessionInv'
  <1> SUFFICES ASSUME SessionInv, [Next]_vars PROVE SessionInv'
    OBVIOUS
  <1>1. ASSUME NEW p \in Plugins, obs_plugin_clone(p) PROVE UNCHANGED obsVars
    BY <1>1 DEF obs_plugin_clone
  <1>2. MainLoop => UNCHANGED obsVars
    BY DEF MainLoop
  <1>3. PeerReads \/ PeerEvent \/ PeerFault => UNCHANGED obsVars
    BY DEF PeerReads, PeerEvent, PeerFault
  <1>4. UNCHANGED vars => UNCHANGED obsVars
    BY DEF vars
  <1>5. UNCHANGED obsVars => SessionInv'
    BY SessionOthers DEF obsVars, history
  <1>. QED BY <1>1, <1>2, <1>3, <1>4, <1>5, SessionObsThread, SessionRequests DEF Next

LEMMA SessionInductive == Spec => []SessionInv
  <1>1. Init => SessionInv
    BY DEF Init, SessionInv, SocketClosedBetweenSessions, OpenedSessionIsWithdrawn
  <1>2. SessionInv /\ [Next]_vars => SessionInv'
    BY SessionNext
  <1>. QED BY <1>1, <1>2, PTL DEF Spec

\* Whichever of its exits the receive loop takes, and whatever the request
\* threads do to wic meanwhile, the socket is closed when obs_ws_main sleeps
\* or connects.
THEOREM SocketsAreClosed == Spec => []SocketClosedBetweenSessions
  <1>1. SessionInv => SocketClosedBetweenSessions
    BY DEF SessionInv
  <1>. QED BY <1>1, SessionInductive, PTL

\* A session whose handshake succeeded has been withdrawn from the request
\* threads when obs_ws_main sleeps or connects.
THEOREM OpenedSessionsAreWithdrawn == Spec => []OpenedSessionIsWithdrawn
  <1>1. SessionInv => OpenedSessionIsWithdrawn
    BY DEF SessionInv
  <1>. QED BY <1>1, SessionInductive, PTL

----------------------------------------------------------------------------
(***************************************************************************)
(* Registration.  Lists of callbacks only grow, so a frame that is awaited *)
(* once is awaited for ever; a step has only to show that every frame it   *)
(* puts in the buffer or on the wire, and the request of every thread past *)
(* the registration, is awaited already.                                   *)
(***************************************************************************)

Sending == {"check", "promote", "recheck", "put", "send"}

LEMMA AwaitedStable ==
    ASSUME UNCHANGED callbacks, NEW f, Awaited(f)
    PROVE  Awaited(f)'
  BY DEF Awaited, Lookup

LEMMA AwaitedMonotone ==
    ASSUME TypeOK, NEW key, NEW owner, callbacks' = Registered(key, owner),
           NEW f, Awaited(f)
    PROVE  Awaited(f)'
  <1> DEFINE k == ResponseKey(f.id)
             list == Lookup(k)
  <1>1. CASE f.kind = "Request" /\ f.cb
    <2>1. list \in Seq(Plugins \cup Nat)
      BY LookupType
    <2>2. PICK n \in DOMAIN list : list[n] = f.call
      BY <1>1 DEF Awaited
    <2>3. Lookup(k)' = IF k = key THEN Append(list, owner) ELSE list
      BY DEF Lookup, Registered
    <2>4. n \in DOMAIN Lookup(k)' /\ Lookup(k)'[n] = f.call
      BY <2>1, <2>2, <2>3
    <2>. QED BY <2>4 DEF Awaited
  <1>2. CASE ~(f.kind = "Request" /\ f.cb)
    BY <1>2 DEF Awaited
  <1>. QED BY <1>1, <1>2

LEMMA UnansweredAwaited ==
    ASSUME NEW f, f.kind # "Request" \/ ~f.cb
    PROVE  Awaited(f)
  BY DEF Awaited

LEMMA ControlAwaited == \A k \in FrameKinds \ {"Request"} : Awaited(Control(k))
  BY DEF Awaited, Control

LEMMA WriteAwaited ==
    ASSUME TypeOK, RegisteredInv, NEW own \in Frame, Awaited(own), transport_write(own)
    PROVE  \A i \in DOMAIN up' : Awaited(up'[i])
  <1>1. Awaited(Control("Garbled"))
    BY ControlAwaited DEF FrameKinds
  <1>2. Awaited(tx) /\ \A i \in DOMAIN up : Awaited(up[i])
    BY DEF RegisteredInv, RegisteredBeforeSent
  <1>3. up \in Seq(Frame)
    BY DEF TypeOK, PeerType
  <1>4. CASE UNCHANGED up
    BY <1>2, <1>4
  <1>5. CASE \E f \in {own, tx, Control("Garbled")} : up' = Append(up, f)
    <2>1. PICK f \in {own, tx, Control("Garbled")} : up' = Append(up, f)
      BY <1>5
    <2>2. Awaited(f)
      BY <1>1, <1>2
    <2>3. \A i \in DOMAIN up' : (i \in DOMAIN up /\ up'[i] = up[i]) \/ up'[i] = f
      BY <1>3, <2>1
    <2>. QED BY <1>2, <2>2, <2>3
  <1>. QED BY <1>4, <1>5 DEF transport_write

\* What a step that registers no answer has to show.
LEMMA RegisteredPreserved ==
    ASSUME TypeOK, RegisteredInv,
           \A f : Awaited(f) => Awaited(f)',
           Awaited(tx'),
           \A i \in DOMAIN up' : Awaited(up'[i]),
           \A t \in Threads : pc'[t] \in Sending => Awaited(Request(job'[t]))
    PROVE  RegisteredInv'
  BY DEF RegisteredInv, RegisteredBeforeSent, Sending

LEMMA RegisteredIdleThreads ==
    ASSUME RegisteredInv, UNCHANGED <<pc, job>>
    PROVE  \A t \in Threads : pc'[t] \in Sending => Awaited(Request(job'[t]))
  BY DEF RegisteredInv, Sending

LEMMA RegisteredObsThread == ASSUME TypeOK, RegisteredInv, ObsThread PROVE RegisteredInv'
  <1> DEFINE Own == FrameKinds \ {"Request"}
  <1> USE DEF history, mainVars, callVars, peerVars
  <1>1. UNCHANGED <<callbacks, pc, job>>
    BY DEF ObsThread, wic_init, transport_open_client, ConnectFails, start_client,
       StartFails, SendHttp, PublishInst, RecvEnd, on_response_complete,
       on_open_handler, on_handshake_failure, on_message_handler, SendIdentify,
       send_pong_with_payload, SendPong, close_with_reason, SendClose, on_close_handler
  <1>2. tx' = tx \/ \E k \in Own : tx' = Control(k)
    BY DEF ObsThread, wic_init, transport_open_client, ConnectFails, start_client,
       StartFails, SendHttp, PublishInst, RecvEnd, on_response_complete,
       on_open_handler, on_handshake_failure, on_message_handler, on_hello_handler,
       SendIdentify, send_pong_with_payload, SendPong, close_with_reason, SendClose,
       on_close_handler, FrameKinds
  <1>3. up' = up \/ up' = <<>> \/ \E k \in Own : transport_write(Control(k))
    BY DEF ObsThread, wic_init, transport_open_client, ConnectFails, start_client,
       StartFails, SendHttp, PublishInst, RecvEnd, on_response_complete,
       on_open_handler, on_handshake_failure, on_message_handler,
       SendIdentify, send_pong_with_payload, SendPong, close_with_reason, SendClose,
       on_close_handler, Closed, FrameKinds
  <1>4. \A f : Awaited(f) => Awaited(f)'
    BY <1>1, AwaitedStable
  <1>5. Awaited(tx')
    BY <1>2, ControlAwaited DEF RegisteredInv
  <1>6. \A i \in DOMAIN up' : Awaited(up'[i])
    <2>1. \A k \in Own : Control(k) \in Frame /\ Awaited(Control(k))
      BY ControlType, ControlAwaited
    <2>2. (\E k \in Own : transport_write(Control(k))) => \A i \in DOMAIN up' : Awaited(up'[i])
      BY <2>1, WriteAwaited
    <2>3. up' = up => \A i \in DOMAIN up' : Awaited(up'[i])
      BY DEF RegisteredInv, RegisteredBeforeSent
    <2>. QED BY <1>3, <2>2, <2>3
  <1>7. \A t \in Threads : pc'[t] \in Sending => Awaited(Request(job'[t]))
    BY <1>1, RegisteredIdleThreads
  <1>. QED BY <1>4, <1>5, <1>6, <1>7, RegisteredPreserved

LEMMA RegisteredMain ==
    ASSUME TypeOK, RegisteredInv, MainLoop \/ \E p \in Plugins : obs_plugin_clone(p)
    PROVE  RegisteredInv'
  <1> USE DEF history, obsVars, mainVars, callVars, peerVars
  <1>1. UNCHANGED <<tx, up>>
    BY DEF MainLoop, obs_ws_register_callback, invoke_callback_idle, obs_plugin_clone
  <1>2. \A f : Awaited(f) => Awaited(f)'
    <2>1. UNCHANGED callbacks \/ \E key, owner : callbacks' = Registered(key, owner)
      BY DEF MainLoop, obs_ws_register_callback, invoke_callback_idle, obs_plugin_clone
    <2>. QED BY <2>1, AwaitedStable, AwaitedMonotone
  <1>3. \A t \in Threads : pc'[t] \in Sending => Awaited(Request(job'[t]))
    <2>1. UNCHANGED <<pc, job>> \/ Enter(Main, TRUE, FALSE)
      BY DEF MainLoop, obs_ws_register_callback, invoke_callback_idle, on_ws_connected,
         obs_plugin_clone
    <2>2. ASSUME Enter(Main, TRUE, FALSE), NEW t \in Threads, pc'[t] \in Sending
          PROVE  pc[t] \in Sending /\ job'[t] = job[t]
      BY <2>2 DEF Enter, Sending, TypeOK, CallType
    <2>. QED BY <2>1, <2>2, RegisteredIdleThreads DEF RegisteredInv, Sending
  <1>. QED BY <1>1, <1>2, <1>3, RegisteredPreserved DEF RegisteredInv, RegisteredBeforeSent

LEMMA RegisteredPeer ==
    ASSUME TypeOK, RegisteredInv, PeerReads \/ PeerEvent \/ PeerFault
    PROVE  RegisteredInv'
  <1> USE DEF history, obsVars, mainVars, callVars, peerVars
  <1>1. UNCHANGED <<tx, callbacks, pc, job>>
    BY DEF PeerReads, PeerEvent, PeerFault
  <1>2. \A i \in DOMAIN up' : \E j \in DOMAIN up : up'[i] = up[j]
    <2>1. up' = <<>> \/ up' = up \/ (up # <<>> /\ up' = Tail(up))
      <3>1. CASE PeerReads
        BY <3>1 DEF PeerReads
      <3>2. CASE PeerEvent
        BY <3>2 DEF PeerEvent
      <3>3. CASE PeerFault
        BY <3>3 DEF PeerFault
      <3>. QED BY <3>1, <3>2, <3>3
    <2>2. up \in Seq(Frame)
      BY DEF TypeOK, PeerType
    <2>. QED BY <2>1, <2>2
  <1>3. \A i \in DOMAIN up' : Awaited(up'[i])
    BY <1>2 DEF RegisteredInv, RegisteredBeforeSent
  <1>4. \A f : Awaited(f) => Awaited(f)'
    BY <1>1, AwaitedStable
  <1>. QED BY <1>1, <1>3, <1>4, RegisteredIdleThreads, RegisteredPreserved DEF RegisteredInv

LEMMA RegisteredUserRequest ==
    ASSUME TypeOK, RegisteredInv, NEW t \in Threads, UserRequest(t)
    PROVE  RegisteredInv'
  <1>1. PICK idFirst \in BOOLEAN, cb \in BOOLEAN : Begin(t, idFirst, cb)
    BY DEF UserRequest, obs_ws_get_scenes, obs_ws_set_current_scene,
           obs_ws_get_current_scene, obs_ws_get_input_list, obs_ws_toggle_input_mute,
           obs_ws_get_input_mute, obs_ws_toggle_record, obs_ws_get_record_status,
           obs_ws_set_scene_item_enabled, obs_ws_get_scene_item_list,
           obs_ws_set_record_chapter_marker, obs_ws_save_source_screenshot
  <1>2. UNCHANGED <<tx, up, callbacks>> /\ Enter(t, idFirst, cb)
    BY <1>1 DEF Begin, obsVars, mainVars
  <1>3. ASSUME NEW u \in Threads, pc'[u] \in Sending
        PROVE  pc[u] \in Sending /\ job'[u] = job[u]
    BY <1>2, <1>3 DEF Enter, Sending, TypeOK, CallType
  <1>4. \A f : Awaited(f) => Awaited(f)'
    BY <1>2, AwaitedStable
  <1>. QED
    BY <1>2, <1>3, <1>4, RegisteredPreserved DEF RegisteredInv, RegisteredBeforeSent, Sending

\* The one step that makes a request awaited: RegisterResponse.
LEMMA RegisteredResponse ==
    ASSUME TypeOK, RegisteredInv, NEW t \in Threads, RegisterResponse(t)
    PROVE  RegisteredInv'
  <1> DEFINE key == ResponseKey(job[t].id)
             own == Request(job[t])
  <1>1. callbacks' = Registered(key, job[t].call) /\ UNCHANGED <<job, tx, up>>
    BY DEF RegisterResponse, obsVars
  <1>2. \A f : Awaited(f) => Awaited(f)'
    BY <1>1, AwaitedMonotone
  <1>3. Awaited(tx)' /\ RegisteredBeforeSent'
    BY <1>1, <1>2 DEF RegisteredInv, RegisteredBeforeSent
  <1>4. Awaited(Request(job[t]))'
    <2>1. Lookup(key) \in Seq(Plugins \cup Nat)
      BY LookupType
    <2>2. Lookup(key)' = Append(Lookup(key), job[t].call)
      BY <1>1 DEF Lookup, Registered
    <2>3. \E n \in DOMAIN Lookup(key)' : Lookup(key)'[n] = job[t].call
      BY <2>1, <2>2
    <2>. QED BY <1>1, <2>3 DEF Awaited, Request
  <1>5. ASSUME NEW u \in Threads, pc'[u] \in Sending
        PROVE  Awaited(Request(job[u]))'
    <2>1. CASE u = t
      BY <1>4, <2>1
    <2>2. CASE u # t
      <3>1. pc[u] \in Sending
        BY <1>5, <2>2 DEF RegisterResponse, Goto, TypeOK, CallType
      <3>. QED BY <1>1, <1>2, <3>1 DEF RegisteredInv, Sending
    <2>. QED BY <2>1, <2>2
  <1>. QED BY <1>3, <1>5 DEF RegisteredInv, Sending

LEMMA RegisteredRequestStep ==
    ASSUME TypeOK, RegisteredInv, NEW t \in Threads, RequestStep(t)
    PROVE  RegisteredInv'
  <1>1. CASE RegisterResponse(t)
    BY <1>1, RegisteredResponse
  <1>2. CASE RequestStep(t) /\ ~RegisterResponse(t)
    <2> USE DEF history, obsVars, mainVars
    <2>a. pc \in [Threads -> CallPcs] /\ job \in [Threads -> Job] /\ job[t] \in Job
      BY DEF TypeOK, CallType
    <2>b. pc[t] \in Sending => Awaited(Request(job[t]))
      BY DEF RegisteredInv, Sending
    <2>1. \A f : Awaited(f) => Awaited(f)'
      <3>1. UNCHANGED callbacks
        BY <1>2 DEF RequestStep, LoadMessageId, uwsc_message_id, ReadInst, allowed_to_send,
           PromoteReady, stream_put_frame, on_send_handler
      <3>. QED BY <3>1, AwaitedStable
    <2>2. Awaited(tx')
      <3>1. tx' = tx \/ (pc[t] = "put" /\ tx' = Request(job[t]))
        <4>1. CASE stream_put_frame(t)
          BY <4>1 DEF stream_put_frame
        <4>2. CASE ~stream_put_frame(t)
          BY <1>2, <4>2 DEF RequestStep, LoadMessageId, uwsc_message_id, ReadInst,
             allowed_to_send, PromoteReady, on_send_handler
        <4>. QED BY <4>1, <4>2
      <3>. QED BY <2>b, <3>1 DEF RegisteredInv, Sending
    <2>3. \A i \in DOMAIN up' : Awaited(up'[i])
      <3>1. UNCHANGED up \/ (pc[t] = "send" /\ transport_write(Request(job[t])))
        <4>1. CASE on_send_handler(t)
          BY <4>1 DEF on_send_handler
        <4>2. CASE ~on_send_handler(t)
          BY <1>2, <4>2 DEF RequestStep, LoadMessageId, uwsc_message_id, ReadInst,
             allowed_to_send, PromoteReady, stream_put_frame
        <4>. QED BY <4>1, <4>2
      <3>2. CASE UNCHANGED up
        BY <3>2 DEF RegisteredInv, RegisteredBeforeSent
      <3>3. CASE pc[t] = "send" /\ transport_write(Request(job[t]))
        BY <2>a, <2>b, <3>3, RequestType, WriteAwaited DEF Sending
      <3>. QED BY <3>1, <3>2, <3>3
    <2>4. ASSUME NEW u \in Threads, pc'[u] \in Sending
          PROVE  Awaited(Request(job'[u]))
      <3>1. CASE u # t
        <4>1. pc'[u] = pc[u] /\ job'[u] = job[u]
          BY <1>2, <2>a, <3>1 DEF RequestStep, LoadMessageId, uwsc_message_id, ReadInst,
             allowed_to_send, PromoteReady, stream_put_frame, on_send_handler, Goto,
             Return, Prepared
        <4>. QED BY <2>4, <4>1 DEF RegisteredInv, Sending
      <3>2. CASE u = t
        <4>1. \/ pc[t] \in Sending /\ job'[t] = job[t]
              \/ pc[t] \in {"bump", "inst"} /\ ~job[t].cb /\ job'[t].cb = job[t].cb
          <5>1. CASE LoadMessageId(t)
            BY <2>a, <2>4, <3>2, <5>1 DEF LoadMessageId, Goto, Sending
          <5>2. CASE uwsc_message_id(t)
            BY <2>a, <2>4, <3>2, <5>2 DEF uwsc_message_id, Goto, WsSend, Sending
          <5>3. CASE ReadInst(t)
            BY <2>a, <2>4, <3>2, <5>3 DEF ReadInst, Goto, Return, Prepared, WsSend, Sending, Job
          <5>4. CASE allowed_to_send(t)
            BY <2>a, <2>4, <3>2, <5>4 DEF allowed_to_send, Goto, Return, Sending
          <5>5. CASE PromoteReady(t) \/ stream_put_frame(t)
            BY <2>a, <2>4, <3>2, <5>5 DEF PromoteReady, stream_put_frame, Goto, Sending
          <5>6. CASE on_send_handler(t)
            BY <2>a, <2>4, <3>2, <5>6 DEF on_send_handler, Goto, Return, Sending
          <5>. QED BY <1>2, <5>1, <5>2, <5>3, <5>4, <5>5, <5>6 DEF RequestStep
        <4>. QED BY <2>b, <3>2, <4>1 DEF Awaited, Request
      <3>. QED BY <3>1, <3>2
    <2>. HIDE DEF history, obsVars, mainVars
    <2>. QED BY <2>1, <2>2, <2>3, <2>4, RegisteredPreserved
  <1>. QED BY <1>1, <1>2

LEMMA RegisteredInductive == Spec => []RegisteredInv
  <1>1. Init => RegisteredInv
    BY DEF Init, RegisteredInv, RegisteredBeforeSent, Awaited, Control
  <1>2. TypeOK /\ RegisteredInv /\ [Next]_vars => RegisteredInv'
    <2> SUFFICES ASSUME TypeOK, RegisteredInv, [Next]_vars PROVE RegisteredInv'
      OBVIOUS
    <2>1. CASE UNCHANGED vars
      <3>1. UNCHANGED <<tx, up, callbacks, pc, job>>
        BY <2>1 DEF vars, obsVars, mainVars, callVars
      <3>2. \A f : Awaited(f) => Awaited(f)'
        BY <3>1, AwaitedStable
      <3>. QED
        BY <3>1, <3>2, RegisteredIdleThreads, RegisteredPreserved
           DEF RegisteredInv, RegisteredBeforeSent
    <2>. QED
      BY <2>1, RegisteredObsThread, RegisteredUserRequest, RegisteredRequestStep,
         RegisteredMain, RegisteredPeer DEF Next
  <1>. QED BY <1>1, <1>2, TypeCorrect, PTL DEF Spec

\* Every request on the wire that wants an answer has its callback registered,
\* for any number of threads, even when ids collide and frames are overwritten
\* in the shared buffer.
THEOREM AnswersAreAwaited == Spec => []RegisteredBeforeSent
  <1>1. RegisteredInv => RegisteredBeforeSent
    BY DEF RegisteredInv
  <1>. QED BY <1>1, RegisteredInductive, PTL

----------------------------------------------------------------------------
(***************************************************************************)
(* Order.  OBS appends messages with the next serial number, the network   *)
(* loses a suffix of what is in flight, the obs thread moves the oldest    *)
(* message to the end of the idle queue, and the main loop takes the       *)
(* oldest source: each step keeps the whole pipeline in ascending order.   *)
(***************************************************************************)

LEMMA OrderTypes ==
    ASSUME TypeOK
    PROVE  /\ lastSerial \in Nat /\ serial \in Nat
           /\ idle \in Seq(Source) /\ down \in Seq(Message)
           /\ \A k \in DOMAIN idle : idle[k].serial \in Nat
           /\ \A i \in DOMAIN down : down[i].serial \in Nat
  <1>1. idle \in Seq(Source) /\ down \in Seq(Message) /\ lastSerial \in Nat /\ serial \in Nat
    BY DEF TypeOK, MainType, PeerType
  <1>2. (\A s \in Source : s.serial \in Nat) /\ (\A m \in Message : m.serial \in Nat)
    BY DEF Source, Message
  <1>. QED BY <1>1, <1>2

LEMMA OrderStable ==
    ASSUME OrderInv, UNCHANGED <<idle, lastSerial, down, serial>>
    PROVE  OrderInv'
  BY DEF OrderInv, MessagesInOrder

\* OBS and the network: a prefix of what was on its way, then only messages
\* without a serial number or with the newest one.
LEMMA OrderSent ==
    ASSUME TypeOK, OrderInv, NEW n \in 0..Len(down),
           UNCHANGED <<idle, lastSerial>>, serial' \in {serial, serial + 1},
           down' \in Seq(Message),
           n <= Len(down'), \A i \in 1..n : down'[i] = down[i],
           \A i \in (n + 1)..Len(down') : down'[i].serial \in {0, serial'}
    PROVE  OrderInv'
  <1>1. /\ lastSerial \in Nat /\ serial \in Nat /\ serial' \in Nat /\ serial <= serial'
        /\ Len(down) \in Nat /\ Len(down') \in Nat /\ n \in Nat
        /\ \A k \in DOMAIN idle : idle[k].serial \in Nat
        /\ \A i \in 1..Len(down) : down[i].serial \in Nat
    BY OrderTypes
  <1>2. MessagesInOrder' /\ lastSerial' <= serial'
    BY <1>1 DEF OrderInv, MessagesInOrder
  <1>3. \A k \in DOMAIN idle : idle[k].serial <= serial
    BY DEF OrderInv
  <1>4. \A k \in DOMAIN idle' : idle'[k].serial <= serial'
    BY <1>1, <1>3
  <1>5. \A i \in 1..Len(down) : down[i].serial <= serial
    BY <1>1 DEF OrderInv
  <1>6. ASSUME NEW i \in 1..Len(down'), down'[i].serial # 0
        PROVE  /\ lastSerial <= down'[i].serial /\ down'[i].serial <= serial'
               /\ \A j \in 1..(i - 1) : down'[j].serial <= down'[i].serial
               /\ \A k \in DOMAIN idle : idle[k].serial <= down'[i].serial
    <2>1. CASE i <= n
      <3>1. i \in DOMAIN down /\ down'[i] = down[i] /\ \A j \in 1..(i - 1) : down'[j] = down[j]
        BY <1>1, <2>1
      <3>. QED BY <1>1, <1>6, <3>1 DEF OrderInv
    <2>2. CASE n < i
      <3>1. down'[i].serial = serial'
        BY <1>1, <1>6, <2>2
      <3>2. \A j \in 1..(i - 1) : down'[j].serial <= serial'
        BY <1>1, <1>5
      <3>. QED BY <1>1, <1>3, <3>1, <3>2 DEF OrderInv
    <2>. QED BY <1>1, <2>1, <2>2
  <1>7. DOMAIN down' = 1..Len(down')
    OBVIOUS
  <1>. QED BY <1>2, <1>4, <1>6, <1>7 DEF OrderInv

\* The obs thread takes the oldest message and queues a source for each
\* callback, all with its serial number (or with none).
LEMMA OrderReceived ==
    ASSUME TypeOK, OrderInv, down # <<>>, down' = Tail(down),
           UNCHANGED <<lastSerial, serial>>,
           NEW e \in Seq(Source), idle' = idle \o e,
           \A i \in DOMAIN e : e[i].serial = Head(down).serial
    PROVE  OrderInv'
  <1> DEFINE h == Head(down).serial
             s(k) == idle[k].serial
  <1>1. /\ lastSerial \in Nat /\ serial \in Nat /\ h \in Nat
        /\ Len(down) \in Nat /\ Len(idle) \in Nat /\ Len(e) \in Nat
        /\ \A k \in 1..Len(idle) : s(k) \in Nat
        /\ \A i \in 1..Len(down) : down[i].serial \in Nat
    BY OrderTypes
  <1>2. h = down[1].serial /\ 1 \in DOMAIN down
    BY OrderTypes
  <1>3. h # 0 => /\ lastSerial <= h /\ h <= serial
                 /\ \A k \in 1..Len(idle) : s(k) <= h
    BY <1>1, <1>2 DEF OrderInv
  <1>4. /\ Len(idle') = Len(idle) + Len(e)
        /\ \A k \in 1..Len(idle) : idle'[k].serial = s(k)
        /\ \A k \in (Len(idle) + 1)..Len(idle') : idle'[k].serial = h
        /\ DOMAIN idle' = 1..Len(idle')
    BY OrderTypes
  <1>5. /\ Len(down') = Len(down) - 1 /\ DOMAIN down' = 1..Len(down')
        /\ \A i \in 1..Len(down') : down'[i] = down[i + 1]
    BY OrderTypes
  <1>6. \A k \in 1..Len(idle') : idle'[k].serial \in Nat /\ idle'[k].serial <= serial
    BY <1>1, <1>3, <1>4 DEF OrderInv
  <1>7. MessagesInOrder'
    <2> SUFFICES ASSUME NEW i \in 1..Len(idle'), idle'[i].serial # 0
                 PROVE  /\ lastSerial <= idle'[i].serial
                        /\ \A j \in 1..(i - 1) : idle'[j].serial <= idle'[i].serial
      BY <1>4 DEF MessagesInOrder
    <2>1. CASE i <= Len(idle)
      BY <1>1, <1>4, <2>1 DEF OrderInv, MessagesInOrder
    <2>2. CASE Len(idle) < i
      <3>1. idle'[i].serial = h /\ h # 0
        BY <1>1, <1>4, <2>2
      <3>2. ASSUME NEW j \in 1..(i - 1) PROVE idle'[j].serial <= h
        <4>1. CASE j \in 1..Len(idle)
          BY ONLY <1>3, <1>4, <3>1, <4>1
        <4>2. CASE j \in (Len(idle) + 1)..Len(idle')
          BY ONLY <1>1, <1>4, <4>2
        <4>. QED BY <1>1, <1>4, <4>1, <4>2
      <3>. QED BY <1>3, <3>1, <3>2
    <2>. QED BY <1>1, <1>4, <2>1, <2>2
  <1>8. ASSUME NEW i \in 1..Len(down'), down'[i].serial # 0
        PROVE  /\ lastSerial <= down'[i].serial /\ down'[i].serial <= serial
               /\ \A j \in 1..(i - 1) : down'[j].serial <= down'[i].serial
               /\ \A k \in 1..Len(idle') : idle'[k].serial <= down'[i].serial
    <2> DEFINE d == down[i + 1].serial
    <2>1. i + 1 \in 1..Len(down) /\ down'[i].serial = d /\ d # 0
      BY <1>1, <1>5, <1>8
    <2>2. /\ lastSerial <= d /\ d <= serial /\ h <= d
          /\ \A j \in 1..i : down[j].serial <= d
          /\ \A k \in 1..Len(idle) : s(k) <= d
      <3>1. i + 1 \in DOMAIN down /\ (i + 1) - 1 = i /\ 1 \in 1..i /\ DOMAIN idle = 1..Len(idle)
        BY <2>1, OrderTypes
      <3>2. /\ lastSerial <= d /\ d <= serial
            /\ \A j \in 1..((i + 1) - 1) : down[j].serial <= d
            /\ \A k \in DOMAIN idle : idle[k].serial <= d
        BY <2>1, <3>1 DEF OrderInv
      <3>. QED BY <1>2, <3>1, <3>2
    <2>3. \A j \in 1..(i - 1) : down'[j].serial <= d
      BY <1>1, <1>5, <2>2
    <2>4. \A k \in 1..Len(idle') : idle'[k].serial <= d
      BY <1>1, <1>4, <2>2
    <2>. QED BY <2>1, <2>2, <2>3, <2>4
  <1>. QED BY <1>4, <1>5, <1>6, <1>7, <1>8 DEF OrderInv

\* A source without a serial number joins the queue, and what is on its way
\* from OBS stays or is lost.
LEMMA OrderQueued ==
    ASSUME TypeOK, OrderInv, UNCHANGED <<lastSerial, serial>>,
           down' = down \/ down' = <<>>,
           NEW e \in Seq(Source), idle' = idle \o e, \A i \in DOMAIN e : e[i].serial = 0
    PROVE  OrderInv'
  <1>1. /\ lastSerial \in Nat /\ serial \in Nat
        /\ Len(idle) \in Nat /\ Len(e) \in Nat
        /\ \A k \in 1..Len(idle) : idle[k].serial \in Nat
        /\ \A i \in DOMAIN down : down[i].serial \in Nat
    BY OrderTypes
  <1>2. /\ Len(idle') = Len(idle) + Len(e)
        /\ \A k \in 1..Len(idle) : idle'[k] = idle[k]
        /\ \A k \in (Len(idle) + 1)..Len(idle') : idle'[k].serial = 0
        /\ DOMAIN idle' = 1..Len(idle') /\ DOMAIN idle = 1..Len(idle)
    BY OrderTypes
  <1>3. \A k \in 1..Len(idle') : idle'[k].serial = 0 \/ (k \in DOMAIN idle /\ idle'[k] = idle[k])
    BY <1>1, <1>2
  <1>4. MessagesInOrder'
    <2> SUFFICES ASSUME NEW i \in 1..Len(idle'), idle'[i].serial # 0
                 PROVE  /\ lastSerial <= idle'[i].serial
                        /\ \A j \in 1..(i - 1) : idle'[j].serial <= idle'[i].serial
      BY <1>2 DEF MessagesInOrder
    <2>1. i <= Len(idle) /\ i \in DOMAIN idle
      BY <1>1, <1>2
    <2>. QED BY <1>1, <1>2, <2>1 DEF OrderInv, MessagesInOrder
  <1>5. \A k \in 1..Len(idle') : idle'[k].serial <= serial
    BY <1>1, <1>3 DEF OrderInv
  <1>6. \A i \in DOMAIN down' : i \in DOMAIN down /\ down' = down
    OBVIOUS
  <1>7. ASSUME NEW i \in DOMAIN down, down[i].serial # 0, NEW k \in 1..Len(idle')
        PROVE  idle'[k].serial <= down[i].serial
    BY <1>1, <1>3, <1>7 DEF OrderInv
  <1>8. ASSUME NEW i \in DOMAIN down', down'[i].serial # 0
        PROVE  /\ lastSerial <= down'[i].serial /\ down'[i].serial <= serial
               /\ \A j \in 1..(i - 1) : down'[j].serial <= down'[i].serial
               /\ \A k \in 1..Len(idle') : idle'[k].serial <= down'[i].serial
    BY <1>6, <1>7, <1>8 DEF OrderInv
  <1>9. lastSerial' <= serial'
    BY DEF OrderInv
  <1>. QED BY <1>2, <1>4, <1>5, <1>8, <1>9 DEF OrderInv

\* The main loop runs the oldest source.
LEMMA OrderRun ==
    ASSUME TypeOK, OrderInv, idle # <<>>, idle' = Tail(idle), UNCHANGED <<down, serial>>,
           lastSerial' = IF Head(idle).serial = 0 THEN lastSerial ELSE Head(idle).serial
    PROVE  OrderInv'
  <1>1. /\ lastSerial \in Nat /\ serial \in Nat /\ Len(idle) \in Nat
        /\ \A k \in 1..Len(idle) : idle[k].serial \in Nat
        /\ \A i \in DOMAIN down : down[i].serial \in Nat
        /\ DOMAIN idle = 1..Len(idle)
    BY OrderTypes
  <1>2. /\ Len(idle') = Len(idle) - 1 /\ DOMAIN idle' = 1..Len(idle')
        /\ \A k \in 1..Len(idle') : idle'[k] = idle[k + 1] /\ k + 1 \in DOMAIN idle
        /\ 1 \in DOMAIN idle /\ Head(idle) = idle[1]
    BY OrderTypes
  <1>3. lastSerial' = lastSerial \/ (lastSerial' = idle[1].serial /\ idle[1].serial # 0)
    BY <1>2
  <1>4. ASSUME NEW k \in 1..Len(idle'), idle'[k].serial # 0
        PROVE  /\ lastSerial' <= idle'[k].serial
               /\ \A j \in 1..(k - 1) : idle'[j].serial <= idle'[k].serial
    <2>1. idle'[k] = idle[k + 1] /\ k + 1 \in DOMAIN idle /\ idle[k + 1].serial # 0
      BY <1>2, <1>4
    <2>2. /\ lastSerial <= idle[k + 1].serial
          /\ \A j \in 1..((k + 1) - 1) : idle[j].serial <= idle[k + 1].serial
      BY <2>1 DEF OrderInv, MessagesInOrder
    <2>3. idle[1].serial <= idle[k + 1].serial
      BY <1>1, <2>2
    <2>4. \A j \in 1..(k - 1) : idle'[j].serial <= idle[k + 1].serial
      BY <1>1, <1>2, <2>2
    <2>. QED BY <1>3, <2>1, <2>2, <2>3, <2>4
  <1>5. lastSerial' <= serial
    BY <1>2, <1>3 DEF OrderInv
  <1>6. \A k \in 1..Len(idle') : idle'[k].serial <= serial
    BY <1>2 DEF OrderInv
  <1>7. ASSUME NEW i \in DOMAIN down, down[i].serial # 0
        PROVE  /\ lastSerial' <= down[i].serial /\ down[i].serial <= serial
               /\ \A j \in 1..(i - 1) : down[j].serial <= down[i].serial
               /\ \A k \in 1..Len(idle') : idle'[k].serial <= down[i].serial
    BY <1>2, <1>3, <1>7 DEF OrderInv
  <1>. QED BY <1>2, <1>4, <1>5, <1>6, <1>7 DEF OrderInv, MessagesInOrder

LEMMA OrderLost ==
    ASSUME OrderInv, UNCHANGED <<idle, lastSerial, serial>>, down' = <<>>
    PROVE  OrderInv'
  BY DEF OrderInv, MessagesInOrder

LEMMA OrderSkipped ==
    ASSUME TypeOK, OrderInv, down # <<>>, down' = Tail(down),
           UNCHANGED <<idle, lastSerial, serial>>
    PROVE  OrderInv'
  <1> DEFINE e == <<>>
  <1>1. idle' = idle \o e
    BY OrderTypes
  <1>2. e \in Seq(Source) /\ \A i \in DOMAIN e : e[i].serial = Head(down).serial
    BY EmptySeq
  <1>. HIDE DEF e
  <1>. QED BY <1>1, <1>2, OrderReceived

LEMMA EmittedSerials ==
    ASSUME TypeOK, NEW key \in Key, NEW m \in Message
    PROVE  \A i \in DOMAIN Emitted(key, m) : Emitted(key, m)[i].serial = m.serial
  BY LookupType DEF Emitted

LEMMA OrderObsThread == ASSUME TypeOK, OrderInv, ObsThread PROVE OrderInv'
  <1> USE DEF history, mainVars, peerVars
  <1>1. CASE wic_init \/ transport_open_client \/ ConnectFails \/ start_client \/ SendHttp
             \/ PublishInst \/ on_open_handler \/ SendIdentify \/ SendPong
             \/ close_with_reason \/ SendClose
    <2>1. UNCHANGED <<idle, lastSerial, down, serial>>
      BY <1>1 DEF wic_init, transport_open_client, ConnectFails, start_client, SendHttp,
         PublishInst, on_open_handler, SendIdentify, SendPong, close_with_reason, SendClose
    <2>. QED BY <2>1, OrderStable
  <1>2. CASE StartFails \/ on_handshake_failure \/ RecvEnd
    <2>1. UNCHANGED <<idle, lastSerial, serial>> /\ (down' = <<>> \/ down' = down)
      BY <1>2 DEF StartFails, on_handshake_failure, RecvEnd, Closed
    <2>. QED BY <2>1, OrderLost, OrderStable
  <1>3. CASE on_response_complete \/ send_pong_with_payload
    <2>1. UNCHANGED <<idle, lastSerial, serial>> /\ down # <<>> /\ down' = Tail(down)
      BY <1>3 DEF on_response_complete, send_pong_with_payload, Receiving
    <2>. QED BY <2>1, OrderSkipped
  <1>4. CASE on_message_handler
    <2> DEFINE m == Head(down)
    <2>1. m \in Message /\ down # <<>> /\ down' = Tail(down) /\ UNCHANGED <<lastSerial, serial>>
      BY <1>4, MessageType DEF on_message_handler, Receiving
    <2>2. EventKey("Identified") \in Key /\ EventKey("Event") \in Key /\ ResponseKey(m.id) \in Key
      BY <2>1 DEF EventKey, ResponseKey, Key, Message
    <2>3. idle' = idle \/ \E k \in Key : idle' = idle \o Emitted(k, m)
      BY <1>4, <2>2 DEF on_message_handler, DispatchOpCode, ws_emit
    <2>4. CASE idle' = idle
      BY <2>1, <2>4, OrderSkipped
    <2>5. ASSUME NEW k \in Key, idle' = idle \o Emitted(k, m)
          PROVE  OrderInv'
      <3>1. Emitted(k, m) \in Seq(Source)
        BY <2>1, EmittedType
      <3>2. \A i \in DOMAIN Emitted(k, m) : Emitted(k, m)[i].serial = m.serial
        BY <2>1, EmittedSerials
      <3>. QED BY <2>1, <2>5, <3>1, <3>2, OrderReceived
    <2>. QED BY <2>3, <2>4, <2>5
  <1>5. CASE on_close_handler
    <2> DEFINE e == Emitted(EventKey("Connected"), Plain("Close"))
    <2>1. EventKey("Connected") \in Key /\ Plain("Close") \in Message /\ Plain("Close").serial = 0
      BY PlainType DEF EventKey, Key, MessageKinds, Plain
    <2>2. e \in Seq(Source) /\ \A i \in DOMAIN e : e[i].serial = 0
      BY <2>1, EmittedType, EmittedSerials
    <2>3. idle' = idle \o e /\ down' = <<>> /\ UNCHANGED <<lastSerial, serial>>
      BY <1>5 DEF on_close_handler, ws_emit, Closed
    <2>. HIDE DEF e
    <2>. QED BY <2>2, <2>3, OrderQueued
  <1>. QED BY <1>1, <1>2, <1>3, <1>4, <1>5 DEF ObsThread

LEMMA OrderMain ==
    ASSUME TypeOK, OrderInv, MainLoop
    PROVE  OrderInv'
  <1> USE DEF obsVars, peerVars
  <1>0. UNCHANGED <<down, serial>>
    BY DEF MainLoop
  <1>1. CASE obs_ws_register_callback
    <2> DEFINE src == [key |-> EventKey("Identified"), to |-> cloning, serial |-> 0, call |-> 0]
    <2>1. src \in Source /\ src.serial = 0
      BY <1>1 DEF obs_ws_register_callback, TypeOK, MainType, EventKey, Key, Source
    <2>2. UNCHANGED <<lastSerial, down, serial>> /\ (idle' = idle \/ idle' = Append(idle, src))
      BY <1>0, <1>1 DEF obs_ws_register_callback
    <2>. HIDE DEF src
    <2>3. Append(idle, src) = idle \o <<src>>
      BY <2>1, OrderTypes, AppendIsConcat
    <2>4. <<src>> \in Seq(Source) /\ \A i \in DOMAIN <<src>> : <<src>>[i].serial = 0
      BY <2>1
    <2>. QED BY <2>2, <2>3, <2>4, OrderQueued, OrderStable
  <1>2. CASE invoke_callback_idle
    <2>1. /\ idle # <<>> /\ idle' = Tail(idle) /\ UNCHANGED <<down, serial>>
          /\ lastSerial' = IF Head(idle).serial = 0 THEN lastSerial ELSE Head(idle).serial
      BY <1>0, <1>2 DEF invoke_callback_idle
    <2>. QED BY <2>1, OrderRun
  <1>. QED BY <1>1, <1>2 DEF MainLoop

\* What OBS sends follows what is on its way.
LEMMA OrderAppended ==
    ASSUME TypeOK, OrderInv, UNCHANGED <<idle, lastSerial>>, serial' \in {serial, serial + 1},
           NEW parts \in Seq(Message), down' = down \o parts,
           \A i \in DOMAIN parts : parts[i].serial \in {0, serial'}
    PROVE  OrderInv'
  <1>1. Len(down) \in Nat /\ Len(parts) \in Nat /\ down \in Seq(Message)
    BY OrderTypes
  <1>2. down' \in Seq(Message) /\ Len(down') = Len(down) + Len(parts)
    BY <1>1
  <1>3. \A i \in 1..Len(down) : down'[i] = down[i]
    BY <1>1
  <1>4. \A i \in (Len(down) + 1)..Len(down') : down'[i].serial \in {0, serial'}
    BY <1>1, <1>2
  <1>5. Len(down) \in 0..Len(down) /\ Len(down) <= Len(down')
    BY <1>1, <1>2
  <1>. QED BY <1>2, <1>3, <1>4, <1>5, OrderSent

LEMMA OrderSend ==
    ASSUME TypeOK, OrderInv, UNCHANGED <<idle, lastSerial>>,
           NEW k \in MessageKinds, NEW id \in Nat, NEW call \in Nat, Send(k, id, call)
    PROVE  OrderInv'
  <1> DEFINE Part(q) == [kind |-> k, part |-> q, serial |-> serial + 1, id |-> id, call |-> call]
  <1>1. PICK parts \in Sent(k, id, call) : down' = down \o parts
    BY DEF Send
  <1>2. parts = <<Part("whole")>> \/ parts = <<Part("head"), Part("tail")>>
    BY DEF Sent
  <1>3. \A q \in {"whole", "head", "tail"} : Part(q) \in Message /\ Part(q).serial = serial + 1
    BY OrderTypes DEF Message
  <1>4. serial' = serial + 1
    BY DEF Send
  <1>. HIDE DEF Part
  <1>5. parts \in Seq(Message) /\ \A i \in DOMAIN parts : parts[i].serial = serial + 1
    <2>1. CASE parts = <<Part("whole")>>
      BY <1>3, <2>1
    <2>2. CASE parts = <<Part("head"), Part("tail")>>
      BY <1>3, <2>2
    <2>. QED BY <1>2, <2>1, <2>2
  <1>. QED BY <1>1, <1>4, <1>5, OrderAppended

LEMMA OrderHangup ==
    ASSUME TypeOK, OrderInv, UNCHANGED <<idle, lastSerial, serial>>, Hangup
    PROVE  OrderInv'
  <1> DEFINE parts == <<Plain("Close"), Plain("Eof")>>
  <1>1. Plain("Close") \in Message /\ Plain("Eof") \in Message
    BY PlainType DEF MessageKinds
  <1>2. parts \in Seq(Message) /\ \A i \in DOMAIN parts : parts[i].serial = 0
    BY <1>1 DEF Plain
  <1>3. down' = down \o parts
    BY DEF Hangup
  <1>. HIDE DEF parts
  <1>. QED BY <1>2, <1>3, OrderAppended

LEMMA OrderPeerReads == ASSUME TypeOK, OrderInv, PeerReads PROVE OrderInv'
  <1> DEFINE f == Head(up)
  <1>1. UNCHANGED <<idle, lastSerial>>
    BY DEF PeerReads, mainVars
  <1>2. f.id \in Nat /\ f.call \in Nat
    <2>1. f \in Frame
      BY DEF PeerReads, TypeOK, PeerType
    <2>. QED BY <2>1 DEF Frame
  <1>3. PeerHandshake(f) \/ PeerHello(f) \/ PeerIdentified(f)
    BY DEF PeerReads
  <1>. HIDE DEF f
  <1>4. CASE PeerHandshake(f)
    <2> DEFINE hello == [kind |-> "Hello", part |-> "whole", serial |-> serial + 1,
                         id |-> 0, call |-> 0]
               started == <<Plain("Accept"), hello>>
               refused == <<Plain("Reject"), Plain("Eof")>>
    <2>1. \/ down' = started /\ serial' = serial + 1
          \/ down' = refused /\ serial' = serial
      BY <1>4 DEF PeerHandshake
    <2>2. hello \in Message /\ hello.serial = serial + 1
      BY OrderTypes DEF Message, MessageKinds
    <2>3. /\ Plain("Accept") \in Message /\ Plain("Reject") \in Message /\ Plain("Eof") \in Message
          /\ \A k \in MessageKinds : Plain(k).serial = 0
      BY PlainType DEF MessageKinds, Plain
    <2>. HIDE DEF hello
    <2>4. /\ started \in Seq(Message) /\ Len(started) = 2
          /\ \A i \in 1..2 : started[i].serial \in {0, serial + 1}
      BY <2>2, <2>3 DEF MessageKinds
    <2>5. /\ refused \in Seq(Message) /\ Len(refused) = 2
          /\ \A i \in 1..2 : refused[i].serial \in {0, serial}
      BY <2>3 DEF MessageKinds
    <2>. HIDE DEF started, refused
    <2>6. /\ down' \in Seq(Message) /\ Len(down') = 2 /\ serial' \in {serial, serial + 1}
          /\ \A i \in (0 + 1)..Len(down') : down'[i].serial \in {0, serial'}
      BY <2>1, <2>4, <2>5
    <2>7. 0 \in 0..Len(down) /\ 0 <= Len(down')
      BY <2>6, OrderTypes
    <2>8. \A i \in 1..0 : down'[i] = down[i]
      OBVIOUS
    <2>. QED BY <1>1, <2>6, <2>7, <2>8, OrderSent
  <1>5. CASE PeerHello(f)
    <2>1. Send("Identified", 0, 0) \/ UNCHANGED <<down, serial>> \/ (Hangup /\ UNCHANGED serial)
      BY <1>5 DEF PeerHello
    <2>. QED BY <1>1, <2>1, OrderSend, OrderHangup, OrderStable DEF MessageKinds
  <1>6. CASE PeerIdentified(f)
    <2>1. \/ Send("Response", f.id, f.call)
          \/ UNCHANGED <<down, serial>>
          \/ Hangup /\ UNCHANGED serial
      BY <1>6 DEF PeerIdentified
    <2>. QED BY <1>1, <1>2, <2>1, OrderSend, OrderHangup, OrderStable DEF MessageKinds
  <1>. QED BY <1>3, <1>4, <1>5, <1>6

LEMMA OrderPeerFault == ASSUME TypeOK, OrderInv, PeerFault PROVE OrderInv'
  <1>1. UNCHANGED <<idle, lastSerial, serial>>
    BY DEF PeerFault, mainVars
  <1>2. /\ Plain("Reject") \in Message /\ Plain("Eof") \in Message
        /\ Plain("Reject").serial = 0 /\ Plain("Eof").serial = 0
    BY PlainType DEF MessageKinds, Plain
  <1>3. CASE down' = <<Plain("Reject"), Plain("Eof")>>
    <2>1. /\ down' \in Seq(Message) /\ Len(down') = 2
          /\ \A i \in (0 + 1)..Len(down') : down'[i].serial \in {0, serial'}
      BY <1>2, <1>3
    <2>2. 0 \in 0..Len(down) /\ 0 <= Len(down')
      BY <2>1, OrderTypes
    <2>3. \A i \in 1..0 : down'[i] = down[i]
      OBVIOUS
    <2>. QED BY <1>1, <2>1, <2>2, <2>3, OrderSent
  <1>4. CASE Hangup
    BY <1>1, <1>4, OrderHangup
  <1>5. ASSUME NEW n \in 0..Len(down), down' = Append(SubSeq(down, 1, n), Plain("Eof"))
        PROVE  OrderInv'
    <2> DEFINE kept == SubSeq(down, 1, n)
    <2>1. /\ kept \in Seq(Message) /\ Len(kept) = n
          /\ \A i \in 1..n : kept[i] = down[i]
      BY <1>5, OrderTypes
    <2>. HIDE DEF kept
    <2>2. down' = Append(kept, Plain("Eof"))
      BY <1>5 DEF kept
    <2>3. n \in Nat
      BY OrderTypes
    <2>4. down' \in Seq(Message) /\ Len(down') = n + 1 /\ down'[n + 1] = Plain("Eof")
      BY <1>2, <2>1, <2>2, AppendProperties
    <2>5. \A i \in 1..n : down'[i] = down[i]
      BY <1>2, <2>1, <2>2, <2>3, AppendProperties
    <2>6. \A i \in (n + 1)..Len(down') : down'[i].serial \in {0, serial'}
      BY <1>2, <2>3, <2>4
    <2>7. n <= Len(down')
      BY <2>3, <2>4
    <2>. QED BY <1>1, <2>4, <2>5, <2>6, <2>7, OrderSent
  <1>. QED BY <1>3, <1>4, <1>5 DEF PeerFault

LEMMA OrderInductive == Spec => []OrderInv
  <1>1. Init => OrderInv
    BY DEF Init, OrderInv, MessagesInOrder
  <1>2. TypeOK /\ OrderInv /\ [Next]_vars => OrderInv'
    <2> SUFFICES ASSUME TypeOK, OrderInv, [Next]_vars PROVE OrderInv'
      OBVIOUS
    <2>1. CASE UNCHANGED vars
      BY <2>1, OrderStable DEF vars, mainVars, peerVars
    <2>2. ASSUME NEW t \in Threads, UserRequest(t) PROVE OrderInv'
      <3>1. UNCHANGED <<idle, lastSerial, down, serial>>
        BY <2>2 DEF UserRequest, Begin, obs_ws_get_scenes, obs_ws_set_current_scene,
           obs_ws_get_current_scene, obs_ws_get_input_list, obs_ws_toggle_input_mute,
           obs_ws_get_input_mute, obs_ws_toggle_record, obs_ws_get_record_status,
           obs_ws_set_scene_item_enabled, obs_ws_get_scene_item_list,
           obs_ws_set_record_chapter_marker, obs_ws_save_source_screenshot, mainVars, peerVars
      <3>. QED BY <3>1, OrderStable
    <2>3. ASSUME NEW t \in Threads, RequestStep(t) PROVE OrderInv'
      <3>1. UNCHANGED <<idle, lastSerial, down, serial>>
        BY <2>3 DEF RequestStep, LoadMessageId, uwsc_message_id, ReadInst, RegisterResponse,
           allowed_to_send, PromoteReady, stream_put_frame, on_send_handler, mainVars, peerVars
      <3>. QED BY <3>1, OrderStable
    <2>4. ASSUME NEW p \in Plugins, obs_plugin_clone(p) PROVE OrderInv'
      BY <2>4, OrderStable DEF obs_plugin_clone, peerVars
    <2>5. ASSUME PeerEvent PROVE OrderInv'
      <3>1. UNCHANGED <<idle, lastSerial>> /\ (Send("Event", 0, 0) \/ Send("Ping", 0, 0))
        BY <2>5 DEF PeerEvent, mainVars
      <3>. QED BY <3>1, OrderSend DEF MessageKinds
    <2>. QED
      BY <2>1, <2>2, <2>3, <2>4, <2>5, OrderObsThread, OrderMain, OrderPeerReads,
         OrderPeerFault DEF Next
  <1>. QED BY <1>1, <1>2, TypeCorrect, PTL DEF Spec

\* Callbacks run in the order in which OBS sent what they answer, over all
\* sessions and for any number of them.
THEOREM CallbacksInOrder == Spec => []MessagesInOrder
  <1>1. OrderInv => MessagesInOrder
    BY DEF OrderInv
  <1>. QED BY <1>1, OrderInductive, PTL

----------------------------------------------------------------------------
(***************************************************************************)
(* Answers.  While the pool sends nothing, a message id is taken by one    *)
(* call.  Every frame on its way and every response carries an id whose    *)
(* list holds that call alone (Good), and the id the main thread has taken *)
(* and not registered yet (Pending) is on nothing that is on its way, so   *)
(* that the registration spoils none of them: what is Good stays Good.     *)
(***************************************************************************)

PoolIdle == \A t \in Pool : pc[t] = "idle"

Pending == pc[Main] = "register" \/ (pc[Main] = "inst" /\ job[Main].idFirst)
Good(id, call) ==
    /\ id < next_message_id
    /\ Pending => id # job[Main].id
    /\ \A n \in DOMAIN Lookup(ResponseKey(id)) : Lookup(ResponseKey(id))[n] = call
GoodFrame(f)   == f.kind = "Request" => Good(f.id, f.call)
GoodMessage(m) == m.kind = "Response" => Good(m.id, m.call)

WireInv ==
    /\ GoodFrame(tx)
    /\ \A i \in DOMAIN up : GoodFrame(up[i])
    /\ \A i \in DOMAIN down : GoodMessage(down[i])
UnusedInv == \A id \in Nat : next_message_id <= id => Lookup(ResponseKey(id)) = <<>>
CallerInv ==
    /\ pc[Main] = "bump" => job[Main].id = next_message_id
    /\ Pending => /\ job[Main].id < next_message_id
                  /\ Lookup(ResponseKey(job[Main].id)) = <<>>
    /\ pc[Main] \in Sending => Good(job[Main].id, job[Main].call)
AnswerInv == WireInv /\ UnusedInv /\ CallerInv /\ ResponseToCaller

\* What a step does to the ids, and what the rest of the invariant asks of it.
IdsKept ==
    /\ \A id \in Nat, call \in Nat : Good(id, call) => Good(id, call)'
    /\ UnusedInv' /\ CallerInv'

LEMMA LoneTypes ==
    ASSUME TypeOK
    PROVE  /\ Main \in Threads /\ job[Main] \in Job /\ job[Main].id \in Nat
           /\ job[Main].call \in Nat /\ next_message_id \in Nat
           /\ tx \in Frame /\ up \in Seq(Frame) /\ down \in Seq(Message) /\ idle \in Seq(Source)
           /\ \A f \in Frame : f.id \in Nat /\ f.call \in Nat
           /\ \A m \in Message : m.id \in Nat /\ m.call \in Nat
           /\ pc \in [Threads -> CallPcs] /\ job \in [Threads -> Job]
  BY DEF TypeOK, ObsType, MainType, CallType, PeerType, Threads, Job, Frame, Message

LEMMA SameIds ==
    ASSUME AnswerInv, UNCHANGED <<pc, job, next_message_id>>,
           \A id \in Nat : Lookup(ResponseKey(id))' = Lookup(ResponseKey(id)), TypeOK
    PROVE  IdsKept
  <1>1. Pending' <=> Pending
    BY DEF Pending
  <1>2. \A id \in Nat, call \in Nat : Good(id, call)' <=> Good(id, call)
    BY <1>1 DEF Good
  <1>3. UnusedInv'
    BY DEF AnswerInv, UnusedInv
  <1>4. CallerInv'
    BY <1>1, <1>2, LoneTypes DEF AnswerInv, CallerInv
  <1>. QED BY <1>2, <1>3, <1>4 DEF IdsKept

LEMMA OtherKeys ==
    ASSUME NEW id \in Nat, NEW e \in {"Identified", "Connected", "Event"}, NEW owner,
           callbacks' = Registered(EventKey(e), owner)
    PROVE  Lookup(ResponseKey(id))' = Lookup(ResponseKey(id))
  <1>1. EventKey(e) # ResponseKey(id)
    BY DEF EventKey, ResponseKey
  <1>. QED BY <1>1 DEF Lookup, Registered

\* A step that puts nothing new on the wire.
LEMMA WireKept ==
    ASSUME TypeOK, AnswerInv, IdsKept,
           tx' = tx \/ \E k \in FrameKinds \ {"Request"} : tx' = Control(k),
           \A i \in DOMAIN up' : \/ \E j \in DOMAIN up : up'[i] = up[j]
                                 \/ up'[i] = tx
                                 \/ \E k \in FrameKinds \ {"Request"} : up'[i] = Control(k),
           \A i \in DOMAIN down' : \/ \E j \in DOMAIN down : down'[i] = down[j]
                                   \/ down'[i].kind # "Response"
    PROVE  WireInv'
  <1>1. \A f \in Frame : GoodFrame(f) => GoodFrame(f)'
    BY LoneTypes DEF IdsKept, GoodFrame
  <1>2. \A m \in Message : GoodMessage(m) => GoodMessage(m)'
    BY LoneTypes DEF IdsKept, GoodMessage
  <1>3. \A k \in FrameKinds \ {"Request"} : GoodFrame(Control(k))'
    BY DEF GoodFrame, Control
  <1>4. tx \in Frame /\ (\A i \in DOMAIN up : up[i] \in Frame)
        /\ (\A i \in DOMAIN down : down[i] \in Message)
    BY LoneTypes
  <1>5. GoodFrame(tx)' /\ \A f : f = tx => GoodFrame(f)'
    <2>1. ASSUME NEW f, f = tx PROVE GoodFrame(f)'
      BY <1>1, <1>4, <2>1 DEF AnswerInv, WireInv
    <2>2. ASSUME NEW f, f = tx' PROVE GoodFrame(f)'
      BY <1>3, <2>1, <2>2
    <2>. QED BY <2>1, <2>2 DEF GoodFrame
  <1>6. ASSUME NEW i \in DOMAIN up' PROVE GoodFrame(up[i])'
    <2>1. \A j \in DOMAIN up : \A f : f = up[j] => GoodFrame(f)'
      BY <1>1, <1>4 DEF AnswerInv, WireInv
    <2>2. \A f : f = up'[i] => GoodFrame(f)'
      BY <1>3, <1>5, <2>1
    <2>. QED BY <2>2 DEF GoodFrame
  <1>7. ASSUME NEW i \in DOMAIN down' PROVE GoodMessage(down[i])'
    <2>1. \A j \in DOMAIN down : \A m : m = down[j] => GoodMessage(m)'
      BY <1>2, <1>4 DEF AnswerInv, WireInv
    <2>2. \A m : m = down'[i] => GoodMessage(m)'
      BY <2>1 DEF GoodMessage
    <2>. QED BY <2>2 DEF GoodMessage
  <1>. QED BY <1>5, <1>6, <1>7 DEF WireInv

\* Sources run as they were queued; what is queued for a response is for its call.
LEMMA QueueKept ==
    ASSUME TypeOK, AnswerInv, NEW e \in Seq(Source),
           \/ idle' = idle \o e
           \/ idle # <<>> /\ idle' = Tail(idle),
           \A i \in DOMAIN e : e[i].key[1] = "emit:response" => e[i].to = e[i].call
    PROVE  ResponseToCaller'
  <1>1. idle \in Seq(Source) /\ Len(idle) \in Nat /\ Len(e) \in Nat
    BY LoneTypes
  <1>2. \A i \in DOMAIN idle' : (\E j \in DOMAIN idle : idle'[i] = idle[j])
                             \/ (\E j \in DOMAIN e : idle'[i] = e[j])
    <2>1. CASE idle' = idle \o e
      BY <1>1, <2>1
    <2>2. CASE idle # <<>> /\ idle' = Tail(idle)
      BY <1>1, <2>2
    <2>. QED BY <2>1, <2>2
  <1>. QED BY <1>2 DEF AnswerInv, ResponseToCaller

LEMMA EmittedFor ==
    ASSUME TypeOK, NEW key \in Key, NEW m \in Message,
           key[1] = "emit:response" =>
             \A n \in DOMAIN Lookup(key) : Lookup(key)[n] = m.call
    PROVE  \A i \in DOMAIN Emitted(key, m) :
             Emitted(key, m)[i].key[1] = "emit:response" =>
               Emitted(key, m)[i].to = Emitted(key, m)[i].call
  <1>1. Lookup(key) \in Seq(Plugins \cup Nat)
    BY LookupType
  <1>2. \A i \in DOMAIN Emitted(key, m) :
          /\ Emitted(key, m)[i].key = key /\ Emitted(key, m)[i].to = Lookup(key)[i]
          /\ Emitted(key, m)[i].call = m.call /\ i \in DOMAIN Lookup(key)
    BY <1>1 DEF Emitted
  <1>. QED BY <1>2

LEMMA LoneObsThread == ASSUME TypeOK, AnswerInv, ObsThread PROVE AnswerInv'
  <1> USE DEF history, mainVars, callVars, peerVars
  <1>1. UNCHANGED <<callbacks, pc, job, next_message_id>>
    BY DEF ObsThread, wic_init, transport_open_client, ConnectFails, start_client,
       StartFails, SendHttp, PublishInst, RecvEnd, on_response_complete,
       on_open_handler, on_handshake_failure, on_message_handler, SendIdentify,
       send_pong_with_payload, SendPong, close_with_reason, SendClose, on_close_handler
  <1>2. IdsKept
    BY <1>1, SameIds DEF Lookup
  <1>3. tx' = tx \/ \E k \in FrameKinds \ {"Request"} : tx' = Control(k)
    BY DEF ObsThread, wic_init, transport_open_client, ConnectFails, start_client,
       StartFails, SendHttp, PublishInst, RecvEnd, on_response_complete,
       on_open_handler, on_handshake_failure, on_message_handler, on_hello_handler,
       SendIdentify, send_pong_with_payload, SendPong, close_with_reason, SendClose,
       on_close_handler, FrameKinds
  <1>4. up' = up \/ up' = <<>> \/ \E k \in FrameKinds \ {"Request"} : transport_write(Control(k))
    BY DEF ObsThread, wic_init, transport_open_client, ConnectFails, start_client,
       StartFails, SendHttp, PublishInst, RecvEnd, on_response_complete,
       on_open_handler, on_handshake_failure, on_message_handler,
       SendIdentify, send_pong_with_payload, SendPong, close_with_reason, SendClose,
       on_close_handler, Closed, FrameKinds
  <1>5. \A i \in DOMAIN up' : \/ \E j \in DOMAIN up : up'[i] = up[j]
                              \/ up'[i] = tx
                              \/ \E k \in FrameKinds \ {"Request"} : up'[i] = Control(k)
    <2>1. CASE up' = up \/ up' = <<>>
      BY <2>1
    <2>2. ASSUME NEW k \in FrameKinds \ {"Request"}, transport_write(Control(k))
          PROVE  \A i \in DOMAIN up' : \/ \E j \in DOMAIN up : up'[i] = up[j]
                                       \/ up'[i] = tx
                                       \/ \E l \in FrameKinds \ {"Request"} : up'[i] = Control(l)
      <3>1. up' = up \/ \E f : /\ f = tx \/ f = Control(k) \/ f = Control("Garbled")
                               /\ up' = Append(up, f)
        BY <2>2 DEF transport_write
      <3>2. up \in Seq(Frame) /\ "Garbled" \in FrameKinds \ {"Request"}
        BY LoneTypes DEF FrameKinds
      <3>. QED BY <3>1, <3>2
    <2>. QED BY <1>4, <2>1, <2>2
  <1>6. down' = down \/ down' = <<>> \/ (down # <<>> /\ down' = Tail(down))
    BY DEF ObsThread, wic_init, transport_open_client, ConnectFails, start_client,
       StartFails, SendHttp, PublishInst, RecvEnd, on_response_complete, Receiving,
       on_open_handler, on_handshake_failure, on_message_handler,
       SendIdentify, send_pong_with_payload, SendPong, close_with_reason, SendClose,
       on_close_handler, Closed
  <1>7. \A i \in DOMAIN down' : \E j \in DOMAIN down : down'[i] = down[j]
    <2>1. down \in Seq(Message)
      BY LoneTypes
    <2>2. CASE down # <<>> /\ down' = Tail(down)
      BY <2>1, <2>2
    <2>3. CASE down' = down \/ down' = <<>>
      BY <2>3
    <2>. QED BY <1>6, <2>2, <2>3
  <1>8. WireInv'
    BY <1>2, <1>3, <1>5, <1>7, WireKept
  <1>9. ResponseToCaller'
    <2>1. CASE on_message_handler
      <3> DEFINE m == Head(down)
      <3>1. m \in Message /\ down # <<>>
        BY <2>1, MessageType DEF on_message_handler, Receiving
      <3>2. idle' = idle \/ \E k \in {EventKey("Identified"), EventKey("Event")} :
                              idle' = idle \o Emitted(k, m)
            \/ (m.kind = "Response" /\ idle' = idle \o Emitted(ResponseKey(m.id), m))
        BY <2>1 DEF on_message_handler, DispatchOpCode, ws_emit
      <3>3. GoodMessage(m)
        BY <3>1, LoneTypes DEF AnswerInv, WireInv
      <3>. HIDE DEF m
      <3>4. ASSUME NEW k \in {EventKey("Identified"), EventKey("Event")},
                   idle' = idle \o Emitted(k, m)
            PROVE  ResponseToCaller'
        <4>1. k \in Key /\ k[1] # "emit:response"
          BY DEF EventKey, Key
        <4>. QED BY <3>1, <3>4, <4>1, EmittedType, EmittedFor, QueueKept
      <3>5. CASE m.kind = "Response" /\ idle' = idle \o Emitted(ResponseKey(m.id), m)
        <4>1. ResponseKey(m.id) \in Key
          BY <3>1, LoneTypes DEF ResponseKey, Key
        <4>2. \A n \in DOMAIN Lookup(ResponseKey(m.id)) : Lookup(ResponseKey(m.id))[n] = m.call
          BY <3>3, <3>5 DEF GoodMessage, Good
        <4>. QED BY <3>1, <3>5, <4>1, <4>2, EmittedType, EmittedFor, QueueKept
      <3>6. CASE idle' = idle
        BY <3>6 DEF AnswerInv, ResponseToCaller
      <3>. QED BY <3>2, <3>4, <3>5, <3>6
    <2>2. CASE on_close_handler
      <3> DEFINE k == EventKey("Connected")
                 m == Plain("Close")
      <3>1. k \in Key /\ k[1] # "emit:response" /\ m \in Message
        BY PlainType DEF EventKey, Key, MessageKinds
      <3>2. idle' = idle \o Emitted(k, m)
        BY <2>2 DEF on_close_handler, ws_emit
      <3>. HIDE DEF k, m
      <3>. QED BY <3>1, <3>2, EmittedType, EmittedFor, QueueKept
    <2>3. CASE UNCHANGED idle
      BY <2>3 DEF AnswerInv, ResponseToCaller
    <2>4. on_message_handler \/ on_close_handler \/ UNCHANGED idle
      BY DEF ObsThread, wic_init, transport_open_client, ConnectFails, start_client,
         StartFails, SendHttp, PublishInst, RecvEnd, on_response_complete,
         on_open_handler, on_handshake_failure, SendIdentify,
         send_pong_with_payload, SendPong, close_with_reason, SendClose
    <2>. QED BY <2>1, <2>2, <2>3, <2>4
  <1>. QED BY <1>2, <1>8, <1>9 DEF AnswerInv, IdsKept

\* The main thread enters a request: no id is taken yet.
LEMMA LoneEnter ==
    ASSUME TypeOK, AnswerInv, NEW idFirst \in BOOLEAN, NEW cb \in BOOLEAN,
           Enter(Main, idFirst, cb), UNCHANGED <<callbacks, next_message_id>>
    PROVE  IdsKept
  <1>1. /\ pc'[Main] = IF idFirst THEN "id" ELSE "inst"
        /\ job'[Main].idFirst = idFirst
    BY LoneTypes DEF Enter
  <1>2. ~Pending' /\ pc'[Main] \notin Sending /\ pc'[Main] # "bump"
    BY <1>1 DEF Pending, Sending
  <1>3. \A id \in Nat, call \in Nat : Good(id, call) => Good(id, call)'
    BY <1>2 DEF Good, Lookup
  <1>. QED BY <1>2, <1>3 DEF IdsKept, AnswerInv, UnusedInv, CallerInv, Lookup

\* A step that leaves the wire and the queue alone.
LEMMA StillWire ==
    ASSUME TypeOK, AnswerInv, IdsKept, UNCHANGED <<tx, up, down, idle>>
    PROVE  AnswerInv'
  <1>1. WireInv'
    BY WireKept
  <1>. QED BY <1>1 DEF AnswerInv, IdsKept, ResponseToCaller

LEMMA LoneMain ==
    ASSUME TypeOK, AnswerInv, MainLoop \/ \E p \in Plugins : obs_plugin_clone(p)
    PROVE  AnswerInv'
  <1> USE DEF obsVars, mainVars, callVars, peerVars
  <1>1. CASE \E p \in Plugins : obs_plugin_clone(p)
    <2>1. PICK p \in Plugins : obs_plugin_clone(p)
      BY <1>1
    <2>2. /\ UNCHANGED <<pc, job, next_message_id, tx, up, down, idle>>
          /\ callbacks' = Registered(EventKey("Event"), p)
      BY <2>1 DEF obs_plugin_clone
    <2>3. IdsKept
      BY <2>2, OtherKeys, SameIds
    <2>. QED BY <2>2, <2>3, StillWire
  <1>2. CASE MainLoop /\ obs_ws_register_callback
    <2> DEFINE src == [key |-> EventKey("Identified"), to |-> cloning, serial |-> 0, call |-> 0]
    <2>1. /\ UNCHANGED <<pc, job, next_message_id, tx, up, down>>
          /\ callbacks' = Registered(EventKey("Identified"), cloning)
          /\ idle' = idle \/ idle' = Append(idle, src)
      BY <1>2 DEF MainLoop, obs_ws_register_callback
    <2>2. IdsKept
      BY <2>1, OtherKeys, SameIds
    <2>3. WireInv'
      BY <2>1, <2>2, WireKept
    <2>4. src \in Source /\ src.key[1] # "emit:response"
      BY <1>2 DEF obs_ws_register_callback, TypeOK, MainType, EventKey, Key, Source
    <2>. HIDE DEF src
    <2>5. ResponseToCaller'
      <3>1. CASE idle' = Append(idle, src)
        <4>1. Append(idle, src) = idle \o <<src>>
          BY <2>4, LoneTypes, AppendIsConcat
        <4>2. <<src>> \in Seq(Source) /\ \A i \in DOMAIN <<src>> : <<src>>[i] = src
          BY <2>4
        <4>. QED BY <2>4, <3>1, <4>1, <4>2, QueueKept
      <3>2. CASE idle' = idle
        BY <3>2 DEF AnswerInv, ResponseToCaller
      <3>. QED BY <2>1, <3>1, <3>2
    <2>. QED BY <2>2, <2>3, <2>5 DEF AnswerInv, IdsKept
  <1>3. CASE MainLoop /\ invoke_callback_idle
    <2>1. /\ UNCHANGED <<callbacks, next_message_id, tx, up, down>>
          /\ idle # <<>> /\ idle' = Tail(idle)
          /\ UNCHANGED <<pc, job>> \/ Enter(Main, TRUE, FALSE)
      BY <1>3 DEF MainLoop, invoke_callback_idle, on_ws_connected
    <2>2. IdsKept
      <3>1. CASE UNCHANGED <<pc, job>>
        BY <2>1, <3>1, SameIds DEF Lookup
      <3>2. CASE Enter(Main, TRUE, FALSE)
        BY <2>1, <3>2, LoneEnter
      <3>. QED BY <2>1, <3>1, <3>2
    <2>3. WireInv'
      BY <2>1, <2>2, WireKept
    <2>4. <<>> \in Seq(Source) /\ DOMAIN <<>> = {}
      BY EmptySeq
    <2>5. ResponseToCaller'
      BY <2>1, <2>4, QueueKept
    <2>. QED BY <2>2, <2>3, <2>5 DEF AnswerInv, IdsKept
  <1>. QED BY <1>1, <1>2, <1>3 DEF MainLoop

LEMMA LoneUserRequest ==
    ASSUME TypeOK, AnswerInv, UserRequest(Main)
    PROVE  AnswerInv'
  <1>1. PICK idFirst \in BOOLEAN, cb \in BOOLEAN : Begin(Main, idFirst, cb)
    BY DEF UserRequest, obs_ws_get_scenes, obs_ws_set_current_scene,
           obs_ws_get_current_scene, obs_ws_get_input_list, obs_ws_toggle_input_mute,
           obs_ws_get_input_mute, obs_ws_toggle_record, obs_ws_get_record_status,
           obs_ws_set_scene_item_enabled, obs_ws_get_scene_item_list,
           obs_ws_set_record_chapter_marker, obs_ws_save_source_screenshot
  <1>2. /\ UNCHANGED <<tx, up, down, idle, callbacks, next_message_id>>
        /\ Enter(Main, idFirst, cb)
    BY <1>1 DEF Begin, obsVars, mainVars, peerVars
  <1>. QED BY <1>2, LoneEnter, StillWire

\* A response carries the id and the call of the request it answers.
LEMMA LoneAnswered ==
    ASSUME TypeOK, AnswerInv, IdsKept, UNCHANGED tx,
           NEW f \in Frame, f.kind = "Request", GoodFrame(f), Send("Response", f.id, f.call),
           \A i \in DOMAIN up' : \E j \in DOMAIN up : up'[i] = up[j]
    PROVE  WireInv'
  <1>0. PICK n \in Nat : n = serial
    BY DEF TypeOK, PeerType
  <1> DEFINE Part(q) == [kind |-> "Response", part |-> q, serial |-> n + 1,
                         id |-> f.id, call |-> f.call]
  <1>1. PICK parts \in Sent("Response", f.id, f.call) : down' = down \o parts
    BY DEF Send
  <1>2. parts = <<Part("whole")>> \/ parts = <<Part("head"), Part("tail")>>
    BY <1>0, <1>1 DEF Sent
  <1>3. f.id \in Nat /\ f.call \in Nat /\ down \in Seq(Message)
    BY LoneTypes DEF TypeOK, PeerType
  <1>4. Good(f.id, f.call)'
    BY <1>3 DEF IdsKept, GoodFrame
  <1>5. \A q \in {"whole", "head", "tail"} : Part(q) \in Message /\ GoodMessage(Part(q))'
    BY <1>3, <1>4 DEF GoodMessage, Message, MessageKinds
  <1>. HIDE DEF Part
  <1>6. /\ parts \in Seq(Message)
        /\ \A i \in DOMAIN parts : \E q \in {"whole", "head", "tail"} : parts[i] = Part(q)
    <2>1. CASE parts = <<Part("whole")>>
      BY <1>5, <2>1
    <2>2. CASE parts = <<Part("head"), Part("tail")>>
      BY <1>5, <2>2
    <2>. QED BY <1>2, <2>1, <2>2
  <1>7. \A i \in DOMAIN down' : \/ \E j \in DOMAIN down : down'[i] = down[j]
                                \/ \E q \in {"whole", "head", "tail"} : down'[i] = Part(q)
    <2>1. \A i \in DOMAIN down' : \/ i \in DOMAIN down /\ down'[i] = down[i]
                                  \/ \E j \in DOMAIN parts : down'[i] = parts[j]
      BY <1>1, <1>3, <1>6
    <2>. QED BY <1>6, <2>1
  <1>8. ASSUME NEW i \in DOMAIN down' PROVE GoodMessage(down[i])'
    <2>1. \A m \in Message : GoodMessage(m) => GoodMessage(m)'
      BY LoneTypes DEF IdsKept, GoodMessage
    <2>2. \A j \in DOMAIN down : \A m : m = down[j] => GoodMessage(m)'
      BY <1>3, <2>1 DEF AnswerInv, WireInv
    <2>3. ASSUME NEW m, m = down'[i] PROVE GoodMessage(m)'
      <3>1. CASE \E j \in DOMAIN down : down'[i] = down[j]
        BY <2>2, <2>3, <3>1
      <3>2. CASE \E q \in {"whole", "head", "tail"} : down'[i] = Part(q)
        <4>1. PICK q \in {"whole", "head", "tail"} : down'[i] = Part(q)
          BY ONLY <3>2
        <4>2. GoodMessage(Part(q))' /\ m = Part(q)
          BY <1>5, <2>3, <4>1
        <4>. QED BY ONLY <4>2 DEF GoodMessage
      <3>. QED BY <1>7, <3>1, <3>2
    <2>. QED BY <2>3 DEF GoodMessage
  <1>9. GoodFrame(tx)' /\ \A i \in DOMAIN up' : GoodFrame(up[i])'
    <2>1. \A g \in Frame : GoodFrame(g) => GoodFrame(g)'
      BY LoneTypes DEF IdsKept, GoodFrame
    <2>2. \A j \in DOMAIN up : \A g : g = up[j] \/ g = tx => GoodFrame(g)'
      BY <2>1, LoneTypes DEF AnswerInv, WireInv
    <2>3. \A g : g = tx => GoodFrame(g)'
      BY <2>1, LoneTypes DEF AnswerInv, WireInv
    <2>4. ASSUME NEW g, g = tx' PROVE GoodFrame(g)'
      BY <2>3, <2>4
    <2>5. ASSUME NEW i \in DOMAIN up', NEW g, g = up'[i] PROVE GoodFrame(g)'
      BY <2>2, <2>5
    <2>. QED BY <2>4, <2>5 DEF GoodFrame
  <1>. QED BY <1>8, <1>9 DEF WireInv

LEMMA LonePeer ==
    ASSUME TypeOK, AnswerInv, PeerReads \/ PeerEvent \/ PeerFault
    PROVE  AnswerInv'
  <1> USE DEF history, obsVars, mainVars, callVars, peerVars
  <1>1. UNCHANGED <<tx, callbacks, pc, job, next_message_id, idle>>
    BY DEF PeerReads, PeerEvent, PeerFault
  <1>2. IdsKept
    BY <1>1, SameIds DEF Lookup
  <1>3. ResponseToCaller'
    BY <1>1 DEF AnswerInv, ResponseToCaller
  <1>a. down \in Seq(Message) /\ up \in Seq(Frame)
    BY LoneTypes
  <1>4. \A i \in DOMAIN up' : \E j \in DOMAIN up : up'[i] = up[j]
    <2>1. up' = <<>> \/ up' = up \/ (up # <<>> /\ up' = Tail(up))
      BY DEF PeerReads, PeerEvent, PeerFault
    <2>2. CASE up # <<>> /\ up' = Tail(up)
      BY <1>a, <2>2
    <2>3. CASE up' = <<>> \/ up' = up
      BY <2>3
    <2>. QED BY <2>1, <2>2, <2>3
  <1>. HIDE DEF history, obsVars, mainVars, callVars, peerVars
  <1>5. ASSUME NEW parts \in Seq(Message), down' = down \o parts,
               \A i \in DOMAIN parts : parts[i].kind # "Response"
        PROVE  WireInv'
    <2>1. \A i \in DOMAIN down' : \/ i \in DOMAIN down /\ down'[i] = down[i]
                                  \/ \E j \in DOMAIN parts : down'[i] = parts[j]
      BY <1>5, <1>a
    <2>2. \A i \in DOMAIN down' : \/ \E j \in DOMAIN down : down'[i] = down[j]
                                  \/ down'[i].kind # "Response"
      BY <1>5, <2>1
    <2>. QED BY <1>1, <1>2, <1>4, <2>2, WireKept
  <1>6. ASSUME NEW k \in {"Identified", "Event", "Ping"}, Send(k, 0, 0)
        PROVE  WireInv'
    <2> DEFINE Part(q) == [kind |-> k, part |-> q, serial |-> serial + 1, id |-> 0, call |-> 0]
    <2>1. PICK parts \in Sent(k, 0, 0) : down' = down \o parts
      BY <1>6 DEF Send
    <2>2. parts = <<Part("whole")>> \/ parts = <<Part("head"), Part("tail")>>
      BY <2>1 DEF Sent
    <2>3. \A q \in {"whole", "head", "tail"} :
            Part(q) \in Message /\ Part(q).kind # "Response"
      BY DEF TypeOK, PeerType, Message, MessageKinds
    <2>. HIDE DEF Part
    <2>4. parts \in Seq(Message) /\ \A i \in DOMAIN parts : parts[i].kind # "Response"
      <3>1. CASE parts = <<Part("whole")>>
        BY <2>3, <3>1
      <3>2. CASE parts = <<Part("head"), Part("tail")>>
        BY <2>3, <3>2
      <3>. QED BY <2>2, <3>1, <3>2
    <2>. QED BY <1>5, <2>1, <2>4
  <1>b. \A k \in MessageKinds : Plain(k) \in Message /\ Plain(k).kind = k
    BY PlainType DEF Plain
  <1>7. ASSUME Hangup PROVE WireInv'
    <2> DEFINE parts == <<Plain("Close"), Plain("Eof")>>
    <2>1. parts \in Seq(Message) /\ \A i \in DOMAIN parts : parts[i].kind # "Response"
      BY <1>b DEF MessageKinds
    <2>2. down' = down \o parts
      BY <1>7 DEF Hangup
    <2>. HIDE DEF parts
    <2>. QED BY <1>5, <2>1, <2>2
  <1>8. ASSUME NEW a \in Message, NEW b \in Message, a.kind # "Response", b.kind # "Response",
               down' = <<a, b>>
        PROVE  WireInv'
    <2>1. \A i \in DOMAIN down' : down'[i].kind # "Response"
      BY <1>8
    <2>. QED BY <1>1, <1>2, <1>4, <2>1, WireKept
  <1>9. ASSUME UNCHANGED down PROVE WireInv'
    BY <1>1, <1>2, <1>4, <1>9, WireKept
  <1>10. CASE PeerReads
    <2> DEFINE f == Head(up)
    <2>1. f \in Frame /\ f = up[1] /\ 1 \in DOMAIN up
      BY <1>10, <1>a DEF PeerReads
    <2>2. GoodFrame(f)
      BY <2>1 DEF AnswerInv, WireInv
    <2>3. PeerHandshake(f) \/ PeerHello(f) \/ PeerIdentified(f)
      BY <1>10 DEF PeerReads
    <2>. HIDE DEF f
    <2>4. ASSUME PeerHandshake(f) PROVE WireInv'
      <3> DEFINE hello == [kind |-> "Hello", part |-> "whole", serial |-> serial + 1,
                           id |-> 0, call |-> 0]
      <3>1. down' = <<Plain("Accept"), hello>> \/ down' = <<Plain("Reject"), Plain("Eof")>>
        BY <2>4 DEF PeerHandshake
      <3>2. hello \in Message /\ hello.kind # "Response"
        BY DEF TypeOK, PeerType, Message, MessageKinds
      <3>. HIDE DEF hello
      <3>. QED BY <1>8, <1>b, <3>1, <3>2 DEF MessageKinds
    <2>5. ASSUME PeerHello(f) PROVE WireInv'
      BY <1>6, <1>7, <1>9, <2>5 DEF PeerHello
    <2>6. ASSUME PeerIdentified(f) PROVE WireInv'
      <3>1. CASE f.kind = "Request" /\ Send("Response", f.id, f.call)
        BY <1>1, <1>2, <1>4, <2>1, <2>2, <3>1, LoneAnswered
      <3>. QED BY <1>7, <1>9, <2>6, <3>1 DEF PeerIdentified
    <2>7. WireInv'
      BY <2>3, <2>4, <2>5, <2>6
    <2>. QED BY <1>2, <1>3, <2>7 DEF AnswerInv, IdsKept
  <1>11. CASE PeerEvent
    <2>1. WireInv'
      BY <1>6, <1>11 DEF PeerEvent
    <2>. QED BY <1>2, <1>3, <2>1 DEF AnswerInv, IdsKept
  <1>12. CASE PeerFault
    <2>1. ASSUME NEW n \in 0..Len(down), down' = Append(SubSeq(down, 1, n), Plain("Eof"))
          PROVE  WireInv'
      <3> DEFINE kept == SubSeq(down, 1, n)
      <3>1. kept \in Seq(Message) /\ Len(kept) = n /\ \A i \in 1..n : kept[i] = down[i]
        BY <1>a, <2>1
      <3>. HIDE DEF kept
      <3>2. down' = Append(kept, Plain("Eof"))
        BY <2>1 DEF kept
      <3>3. \A i \in DOMAIN down' : i \in 1..n \/ down'[i] = Plain("Eof")
        BY <1>b, <3>1, <3>2 DEF MessageKinds
      <3>4. \A i \in 1..n : down'[i] = down[i] /\ i \in DOMAIN down
        BY <1>a, <1>b, <3>1, <3>2, AppendProperties DEF MessageKinds
      <3>5. \A i \in DOMAIN down' : \/ \E j \in DOMAIN down : down'[i] = down[j]
                                    \/ down'[i].kind # "Response"
        BY <1>b, <3>3, <3>4 DEF MessageKinds
      <3>. QED BY <1>1, <1>2, <1>4, <3>5, WireKept
    <2>2. WireInv'
      BY <1>7, <1>8, <1>12, <1>b, <2>1 DEF PeerFault, MessageKinds
    <2>. QED BY <1>2, <1>3, <2>2 DEF AnswerInv, IdsKept
  <1>. QED BY <1>10, <1>11, <1>12

LEMMA LoneGoto ==
    ASSUME TypeOK, NEW label, Goto(Main, label)
    PROVE  pc'[Main] = label
  BY LoneTypes DEF Goto

LEMMA LoneReturn ==
    ASSUME TypeOK, AnswerInv, Return(Main), UNCHANGED <<callbacks, next_message_id>>
    PROVE  IdsKept
  <1>1. pc'[Main] = "idle"
    BY LoneGoto DEF Return
  <1>2. ~Pending' /\ pc'[Main] \notin Sending /\ pc'[Main] # "bump"
    BY <1>1 DEF Pending, Sending
  <1>3. \A id \in Nat, call \in Nat : Good(id, call) => Good(id, call)'
    BY <1>2 DEF Good, Lookup
  <1>. QED BY <1>2, <1>3 DEF IdsKept, AnswerInv, UnusedInv, CallerInv, Lookup

\* The main thread reads the counter, and writes it back: the id is new.
LEMMA LoneLoad ==
    ASSUME TypeOK, AnswerInv, LoadMessageId(Main)
    PROVE  IdsKept
  <1>1. /\ UNCHANGED <<callbacks, next_message_id>>
        /\ pc'[Main] = "bump" /\ job'[Main].id = next_message_id
    BY LoneTypes, LoneGoto DEF LoadMessageId, mainVars, Job
  <1>2. ~Pending' /\ pc'[Main] \notin Sending
    BY <1>1 DEF Pending, Sending
  <1>3. \A id \in Nat, call \in Nat : Good(id, call) => Good(id, call)'
    BY <1>1, <1>2 DEF Good, Lookup
  <1>. QED BY <1>1, <1>2, <1>3 DEF IdsKept, AnswerInv, UnusedInv, CallerInv, Lookup

LEMMA LoneBump ==
    ASSUME TypeOK, AnswerInv, uwsc_message_id(Main)
    PROVE  IdsKept
  <1>1. /\ UNCHANGED <<callbacks, job>> /\ pc[Main] = "bump"
        /\ job[Main].id = next_message_id /\ next_message_id' = next_message_id + 1
        /\ pc'[Main] \in {"inst", "register", "check"}
    BY LoneTypes, LoneGoto DEF uwsc_message_id, mainVars, AnswerInv, CallerInv, WsSend
  <1>2. Lookup(ResponseKey(job[Main].id)) = <<>>
    BY <1>1, LoneTypes DEF AnswerInv, UnusedInv
  <1>3. ~Pending
    BY <1>1 DEF Pending
  <1>4. \A id \in Nat, call \in Nat : Good(id, call) => Good(id, call)'
    BY <1>1, LoneTypes DEF Good, Lookup
  <1>5. UnusedInv'
    BY <1>1, LoneTypes DEF AnswerInv, UnusedInv, Lookup
  <1>6. CallerInv'
    <2>1. Pending' => /\ job'[Main].id < next_message_id'
                      /\ Lookup(ResponseKey(job[Main].id))' = <<>>
      BY <1>1, <1>2, LoneTypes DEF Lookup
    <2>2. ASSUME pc'[Main] \in Sending PROVE Good(job[Main].id, job[Main].call)'
      <3>1. pc'[Main] = "check"
        BY <1>1, <2>2 DEF Sending
      <3>2. ~Pending'
        BY <3>1 DEF Pending
      <3>3. Lookup(ResponseKey(job[Main].id))' = <<>>
        BY <1>1, <1>2 DEF Lookup
      <3>. QED BY <1>1, <3>2, <3>3, LoneTypes DEF Good
    <2>. QED BY <1>1, <2>1, <2>2 DEF CallerInv
  <1>. QED BY <1>4, <1>5, <1>6 DEF IdsKept

LEMMA LoneReadInst ==
    ASSUME TypeOK, AnswerInv, ReadInst(Main)
    PROVE  IdsKept
  <1>1. UNCHANGED <<callbacks, next_message_id>> /\ pc[Main] = "inst"
    BY DEF ReadInst, mainVars
  <1>2. CASE Return(Main)
    BY <1>1, <1>2, LoneReturn
  <1>3. CASE ~Return(Main)
    <2>1. /\ Goto(Main, IF job[Main].idFirst THEN WsSend(job[Main]) ELSE "id")
          /\ Prepared(Main)
      BY <1>3 DEF ReadInst
    <2>2. /\ job'[Main].id = job[Main].id /\ job'[Main].call = job[Main].call
          /\ job'[Main].cb = job[Main].cb
      BY <2>1, LoneTypes DEF Prepared, Job
    <2>3. pc'[Main] = IF job[Main].idFirst THEN WsSend(job[Main]) ELSE "id"
      BY <2>1, LoneGoto
    <2>4. CASE job[Main].idFirst
      <3>1. Pending /\ pc'[Main] \in {"register", "check"}
        BY <1>1, <2>3, <2>4 DEF Pending, WsSend
      <3>2. job[Main].id < next_message_id /\ Lookup(ResponseKey(job[Main].id)) = <<>>
        BY <3>1 DEF AnswerInv, CallerInv
      <3>3. \A id \in Nat, call \in Nat : Good(id, call) => Good(id, call)'
        BY <1>1, <2>2, <3>1 DEF Good, Lookup
      <3>4. Lookup(ResponseKey(job[Main].id))' = <<>>
        BY <1>1, <2>2, <3>2 DEF Lookup
      <3>5. ASSUME pc'[Main] \in Sending PROVE Good(job[Main].id, job[Main].call)'
        <4>1. ~Pending'
          BY <3>1, <3>5 DEF Pending, Sending
        <4>. QED BY <1>1, <2>2, <3>2, <3>4, <4>1 DEF Good
      <3>6. CallerInv'
        BY <1>1, <2>2, <3>1, <3>2, <3>4, <3>5 DEF CallerInv
      <3>. QED BY <1>1, <3>3, <3>6 DEF IdsKept, AnswerInv, UnusedInv, Lookup
    <2>5. CASE ~job[Main].idFirst
      <3>1. ~Pending' /\ pc'[Main] \notin Sending /\ pc'[Main] # "bump"
        BY <2>3, <2>5 DEF Pending, Sending
      <3>2. \A id \in Nat, call \in Nat : Good(id, call) => Good(id, call)'
        BY <1>1, <3>1 DEF Good, Lookup
      <3>. QED BY <1>1, <3>1, <3>2 DEF IdsKept, AnswerInv, UnusedInv, CallerInv, Lookup
    <2>. QED BY <2>4, <2>5
  <1>. QED BY <1>2, <1>3

\* The registration: the list of the id was empty and now holds the caller.
LEMMA LoneRegister ==
    ASSUME TypeOK, AnswerInv, RegisterResponse(Main)
    PROVE  IdsKept
  <1> DEFINE key == ResponseKey(job[Main].id)
  <1>1. /\ UNCHANGED <<job, next_message_id>> /\ pc[Main] = "register"
        /\ callbacks' = Registered(key, job[Main].call)
        /\ pc'[Main] = "check"
    BY LoneGoto DEF RegisterResponse
  <1>2. Pending /\ ~Pending'
    BY <1>1 DEF Pending
  <1>3. job[Main].id < next_message_id /\ Lookup(key) = <<>>
    BY <1>2 DEF AnswerInv, CallerInv
  <1>4. Lookup(key)' = <<job[Main].call>>
    <2>1. Lookup(key)' = Append(Lookup(key), job[Main].call)
      BY <1>1 DEF Lookup, Registered
    <2>. QED BY <1>3, <2>1
  <1>5. \A id \in Nat : id # job[Main].id =>
          Lookup(ResponseKey(id))' = Lookup(ResponseKey(id))
    BY <1>1 DEF Lookup, Registered, ResponseKey
  <1>6. \A id \in Nat, call \in Nat : Good(id, call) => Good(id, call)'
    BY <1>1, <1>2, <1>5 DEF Good
  <1>7. UnusedInv'
    BY <1>1, <1>3, <1>5, LoneTypes DEF AnswerInv, UnusedInv
  <1>8. Good(job[Main].id, job[Main].call)'
    BY <1>1, <1>2, <1>3, <1>4 DEF Good
  <1>9. CallerInv'
    BY <1>1, <1>2, <1>8 DEF CallerInv
  <1>. QED BY <1>6, <1>7, <1>9 DEF IdsKept

\* From the registration on, the request goes through ws_send unchanged.
LEMMA LoneSending ==
    ASSUME TypeOK, AnswerInv, UNCHANGED <<callbacks, job, next_message_id>>,
           pc[Main] \in Sending, pc'[Main] \in Sending
    PROVE  IdsKept
  <1>1. ~Pending /\ ~Pending' /\ pc'[Main] # "bump"
    BY DEF Pending, Sending
  <1>2. \A id \in Nat, call \in Nat : Good(id, call) => Good(id, call)'
    BY <1>1 DEF Good, Lookup
  <1>3. Good(job[Main].id, job[Main].call)'
    BY <1>2, LoneTypes DEF AnswerInv, CallerInv
  <1>4. CallerInv'
    BY <1>1, <1>3 DEF CallerInv
  <1>. QED BY <1>2, <1>4 DEF IdsKept, AnswerInv, UnusedInv, Lookup

\* The frame the main thread builds and sends is that of its own request, and
\* so is the frame of the shared buffer.
LEMMA LoneWire ==
    ASSUME TypeOK, AnswerInv, IdsKept, UNCHANGED <<down, idle>>, pc[Main] \in Sending,
           tx' = tx \/ tx' = Request(job[Main]),
           up' = up \/ transport_write(Request(job[Main]))
    PROVE  AnswerInv'
  <1>0. PICK own : own = Request(job[Main])
    OBVIOUS
  <1>1. own \in Frame /\ GoodFrame(own)'
    <2>1. own.id = job[Main].id /\ own.call = job[Main].call
      BY <1>0 DEF Request
    <2>2. Good(own.id, own.call)
      BY <2>1 DEF AnswerInv, CallerInv
    <2>3. own \in Frame
      BY <1>0, LoneTypes, RequestType
    <2>. QED BY <2>2, <2>3, LoneTypes DEF IdsKept, GoodFrame
  <1>2. \A f \in Frame : GoodFrame(f) => GoodFrame(f)'
    BY LoneTypes DEF IdsKept, GoodFrame
  <1>3. \A m \in Message : GoodMessage(m) => GoodMessage(m)'
    BY LoneTypes DEF IdsKept, GoodMessage
  <1>4. PICK garbled : garbled = Control("Garbled")
    OBVIOUS
  <1>5. garbled \in Frame /\ GoodFrame(garbled)'
    BY <1>4, ControlType DEF GoodFrame, Control, FrameKinds
  <1>6. \A f : f = tx => GoodFrame(f)'
    BY <1>2, LoneTypes DEF AnswerInv, WireInv
  <1>7. \A f : f = tx' => GoodFrame(f)'
    BY <1>0, <1>1, <1>6
  <1>8. \A j \in DOMAIN up : \A f : f = up[j] => GoodFrame(f)'
    BY <1>2, LoneTypes DEF AnswerInv, WireInv
  <1>9. ASSUME NEW i \in DOMAIN up', NEW f, f = up'[i] PROVE GoodFrame(f)'
    <2>1. CASE up' = up
      BY <1>8, <1>9, <2>1
    <2>2. CASE up' # up
      <3>1. \E g : (g = tx \/ g = own \/ g = garbled) /\ up' = Append(up, g)
        BY <1>0, <1>4, <2>2 DEF transport_write
      <3>2. PICK g : (g = tx \/ g = own \/ g = garbled) /\ up' = Append(up, g)
        BY <3>1
      <3>3. g \in Frame /\ up \in Seq(Frame)
        BY <1>1, <1>5, <3>2, LoneTypes
      <3>4. (i \in DOMAIN up /\ up'[i] = up[i]) \/ up'[i] = g
        BY <3>2, <3>3
      <3>. QED BY <1>1, <1>5, <1>6, <1>8, <1>9, <3>2, <3>4
    <2>. QED BY <2>1, <2>2
  <1>10. ASSUME NEW i \in DOMAIN down', NEW m, m = down'[i] PROVE GoodMessage(m)'
    BY <1>3, <1>10, LoneTypes DEF AnswerInv, WireInv
  <1>11. WireInv'
    BY <1>7, <1>9, <1>10 DEF WireInv, GoodFrame, GoodMessage
  <1>. QED BY <1>11 DEF AnswerInv, IdsKept, ResponseToCaller

LEMMA LoneRequestStep ==
    ASSUME TypeOK, AnswerInv, RequestStep(Main)
    PROVE  AnswerInv'
  <1> USE DEF obsVars, mainVars, peerVars
  <1>1. CASE LoadMessageId(Main)
    BY <1>1, LoneLoad, StillWire DEF LoadMessageId
  <1>2. CASE uwsc_message_id(Main)
    BY <1>2, LoneBump, StillWire DEF uwsc_message_id
  <1>3. CASE ReadInst(Main)
    BY <1>3, LoneReadInst, StillWire DEF ReadInst
  <1>4. CASE RegisterResponse(Main)
    BY <1>4, LoneRegister, StillWire DEF RegisterResponse
  <1>5. CASE allowed_to_send(Main)
    <2>1. UNCHANGED <<callbacks, next_message_id, tx, up, down, idle>> /\ pc[Main] \in Sending
      BY <1>5 DEF allowed_to_send, Sending
    <2>2. Return(Main) \/ (UNCHANGED job /\ pc'[Main] \in Sending)
      BY <1>5, LoneGoto DEF allowed_to_send, Sending
    <2>. QED BY <2>1, <2>2, LoneReturn, LoneSending, StillWire
  <1>6. CASE PromoteReady(Main)
    <2>1. /\ UNCHANGED <<callbacks, job, next_message_id, tx, up, down, idle>>
          /\ pc[Main] \in Sending /\ pc'[Main] \in Sending
      BY <1>6, LoneGoto DEF PromoteReady, Sending
    <2>. QED BY <2>1, LoneSending, StillWire
  <1>7. CASE stream_put_frame(Main)
    <2>1. /\ UNCHANGED <<callbacks, job, next_message_id, up, down, idle>>
          /\ pc[Main] \in Sending /\ pc'[Main] \in Sending
          /\ tx' = Request(job[Main])
      BY <1>7, LoneGoto DEF stream_put_frame, Sending
    <2>. QED BY <2>1, LoneSending, LoneWire
  <1>8. CASE on_send_handler(Main)
    <2>1. /\ UNCHANGED <<callbacks, next_message_id, tx, down, idle>>
          /\ pc[Main] \in Sending /\ Return(Main)
          /\ transport_write(Request(job[Main]))
      BY <1>8 DEF on_send_handler, Sending
    <2>. QED BY <2>1, LoneReturn, LoneWire
  <1>. QED BY <1>1, <1>2, <1>3, <1>4, <1>5, <1>6, <1>7, <1>8 DEF RequestStep

\* With an idle pool before and after the step, the thread that takes it is
\* the main thread.
LEMMA LoneNext ==
    ASSUME TypeOK, AnswerInv, PoolIdle, PoolIdle', [Next]_vars
    PROVE  AnswerInv'
  <1>1. CASE UNCHANGED vars
    <2>1. UNCHANGED <<callbacks, pc, job, next_message_id, tx, up, down, idle>>
      BY <1>1 DEF vars, obsVars, mainVars, callVars, peerVars
    <2>2. IdsKept
      BY <2>1, SameIds DEF Lookup
    <2>. QED BY <2>1, <2>2, StillWire
  <1>2. ASSUME NEW t \in Threads, UserRequest(t) \/ RequestStep(t) PROVE t = Main
    <2>1. ASSUME t \in Pool PROVE FALSE
      <3>1. pc[t] = "idle" /\ pc'[t] = "idle"
        BY <2>1 DEF PoolIdle
      <3>2. ~RequestStep(t)
        BY <3>1 DEF RequestStep, LoadMessageId, uwsc_message_id, ReadInst, RegisterResponse,
           allowed_to_send, PromoteReady, stream_put_frame, on_send_handler
      <3>3. PICK idFirst \in BOOLEAN, cb \in BOOLEAN : Begin(t, idFirst, cb)
        BY <1>2, <3>2 DEF UserRequest, obs_ws_get_scenes, obs_ws_set_current_scene,
           obs_ws_get_current_scene, obs_ws_get_input_list, obs_ws_toggle_input_mute,
           obs_ws_get_input_mute, obs_ws_toggle_record, obs_ws_get_record_status,
           obs_ws_set_scene_item_enabled, obs_ws_get_scene_item_list,
           obs_ws_set_record_chapter_marker, obs_ws_save_source_screenshot
      <3>4. pc'[t] \in {"id", "inst"}
        BY <1>2, <3>3, LoneTypes DEF Begin, Enter
      <3>. QED BY <3>1, <3>4
    <2>. QED BY <2>1 DEF Threads
  <1>3. CASE Next
    BY <1>2, <1>3, LoneObsThread, LoneUserRequest, LoneRequestStep, LoneMain, LonePeer DEF Next
  <1>. QED BY <1>1, <1>3

LEMMA LoneInit == Init => AnswerInv
  <1> SUFFICES ASSUME Init PROVE AnswerInv
    OBVIOUS
  <1>1. /\ pc[Main] = "idle" /\ up = <<>> /\ down = <<>> /\ idle = <<>>
        /\ tx = Control("None") /\ callbacks = [k \in {} |-> <<>>]
    BY DEF Init, Threads
  <1>2. WireInv
    BY <1>1 DEF WireInv, GoodFrame, Control
  <1>3. UnusedInv
    BY <1>1 DEF UnusedInv, Lookup
  <1>4. CallerInv
    BY <1>1 DEF CallerInv, Pending, Sending
  <1>. QED BY <1>1, <1>2, <1>3, <1>4 DEF AnswerInv, ResponseToCaller

\* While only the main thread sends requests, a response runs the callback of
\* the call it answers and no other: for any number of calls, sessions, lost
\* connections and events, with every answer delivered at any later time.
THEOREM LoneCallerIsAnswered == Spec /\ []PoolIdle => []ResponseToCaller
  <1>1. AnswerInv => ResponseToCaller
    BY DEF AnswerInv
  <1>2. TypeOK /\ PoolIdle /\ PoolIdle' /\ AnswerInv /\ [Next]_vars => AnswerInv'
    BY LoneNext
  <1>. QED BY <1>1, <1>2, LoneInit, TypeCorrect, PTL DEF Spec

\* The same of the split model the run checks, where "alone" says whether the
\* pool stays idle.
SplitInv == TypeOK /\ (alone => PoolIdle /\ AnswerInv)

THEOREM ResponsesReachTheLoneCaller == SplitSpec => []ResponseToLoneCaller
  <1>1. SplitInit => SplitInv
    <2>1. Init => TypeOK
      BY InitType
    <2>2. Init => PoolIdle
      BY DEF Init, PoolIdle, Threads
    <2>. QED BY <2>1, <2>2, LoneInit DEF SplitInit, SplitInv
  <1>2. SplitInv /\ [SplitNext]_<<vars, alone>> => SplitInv'
    <2> SUFFICES ASSUME SplitInv, [SplitNext]_<<vars, alone>> PROVE SplitInv'
      OBVIOUS
    <2>1. [Next]_vars /\ UNCHANGED alone
      BY DEF SplitNext
    <2>2. TypeOK'
      BY <2>1, NextType DEF SplitInv
    <2>3. ASSUME alone' PROVE PoolIdle' /\ AnswerInv'
      <3>1. PoolIdle /\ AnswerInv /\ TypeOK
        BY <2>1, <2>3 DEF SplitInv
      <3>2. PoolIdle'
        <4>1. CASE SplitNext
          BY <2>1, <2>3, <4>1 DEF SplitNext, PoolIdle
        <4>2. CASE UNCHANGED <<vars, alone>>
          BY <3>1, <4>2 DEF vars, callVars, PoolIdle
        <4>. QED BY <4>1, <4>2
      <3>. QED BY <2>1, <3>1, <3>2, LoneNext
    <2>. QED BY <2>2, <2>3 DEF SplitInv
  <1>3. SplitInv => ResponseToLoneCaller
    BY DEF SplitInv, AnswerInv, ResponseToLoneCaller
  <1>. QED BY <1>1, <1>2, <1>3, PTL DEF SplitSpec

=============================================================================
