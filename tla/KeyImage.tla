------------------------------ MODULE KeyImage ------------------------------
(***************************************************************************)
(* How a change of a button reaches its key: deck_plugin.c draws it and    *)
(* sets the property "preview", GObject notifies the two handlers of       *)
(* deck_grid.c, and streamdeck.c writes the image to the device page by    *)
(* page.  The main thread and the threads of the pool do this at once.     *)
(*                                                                         *)
(* A picture is a version number: what is drawn on it is left out.  GObject *)
(* and the device are external.                                            *)
(***************************************************************************)
EXTENDS Integers

CONSTANTS
    PoolThreads, \* threads of klass->pool
    MainThread,        \* the GTK main thread
    Keys,        \* the keys that have a button
    NormalKeys,  \* those whose button's mode is not BUTTON_MODE_TOGGLE
    Payload,     \* max_packet_size - packet_header_size
    Sizes,       \* sizes an encoded image may have
    FirstPage,   \* number of the first page: 1 on the Original, 0 elsewhere
    PageMod,     \* 2^8 (Mini, Original) or 2^16 (Original V2, XL)
    MaxUpdates, MaxExecutions, MaxFailures   \* bounds

\* The sizes are such that the pages of an image can be numbered: at most 19254
\* bytes in pages of 1008 (Mini), 15606 in pages of 8175 (Original).
ASSUME KeyImageAssumption ==
    /\ MainThread \notin PoolThreads /\ NormalKeys \subseteq Keys
    /\ Payload \in Nat \ {0}
    /\ FirstPage \in {0, 1} /\ PageMod \in Nat /\ PageMod > FirstPage
    /\ Sizes \subseteq Nat \ {0}
    /\ \A s \in Sizes : s <= Payload * (PageMod - FirstPage)
    /\ MaxUpdates \in Nat /\ MaxExecutions \in Nat /\ MaxFailures \in Nat

VARIABLES
    look,      \* look[k]: what the button's state, label and images say it is
    surface,   \* surface[k]: priv->surface, the picture last drawn
    emission,  \* emission[k]: the emission of notify::preview
    th,        \* th[t]: where thread t is
    assembly,  \* assembly[k]: the image the device is receiving for key k
    shown,     \* shown[k]: the picture on key k of the device
    app,       \* app[k]: the picture in the window
    unsent,    \* history: the last picture could not be encoded
    updates, executions, failures

counters  == <<updates, executions, failures>>
device    == <<assembly, shown>>
imageVars == <<look, surface, emission, th, device, app, unsent, counters>>

Drawers == PoolThreads \cup {MainThread}
Torn    == -1
Picture == Nat

Emitting == {"device", "page", "sent", "app", "end"}
Places   == {"idle", "draw", "store", "notify"} \cup Emitting

\* The locals of the functions a thread is in; key is the button at work.
Locals == [pc : Places, key : Keys, image : Picture,
          size : Nat, page : Nat, remaining : Nat]

ImageTypeOK ==
    /\ look \in [Keys -> Picture] /\ surface \in [Keys -> Picture]
    /\ emission \in [Keys -> {"none", "run", "restart"}]
    /\ th \in [Drawers -> Locals]
    /\ assembly \in [Keys -> [image : Picture \cup {Torn}, bytes : Nat, page : Nat]]
    /\ shown \in [Keys -> Picture \cup {Torn}] /\ app \in [Keys -> Picture]
    /\ unsent \in [Keys -> BOOLEAN]
    /\ updates \in Nat /\ executions \in Nat /\ failures \in Nat

\* Every button has been drawn and written to its key: the end of deck_grid_constructed.
ImageInit ==
    /\ look = [k \in Keys |-> 0] /\ surface = [k \in Keys |-> 0]
    /\ emission = [k \in Keys |-> "none"]
    /\ \E k0 \in Keys :
         th = [t \in Drawers |-> [pc |-> "idle", key |-> k0, image |-> 0, size |-> 0,
                                  page |-> 0, remaining |-> 0]]
    /\ assembly = [k \in Keys |-> [image |-> 0, bytes |-> 0, page |-> 0]]
    /\ shown = [k \in Keys |-> 0] /\ app = [k \in Keys |-> 0]
    /\ unsent = [k \in Keys |-> FALSE]
    /\ updates = 0 /\ executions = 0 /\ failures = 0

IsAt(t, pc) == th[t].pc = pc
Move(t, pc) == th' = [th EXCEPT ![t].pc = pc]

----------------------------------------------------------------------------
(* Drawing: deck_plugin.c                                                  *)

\* A picture no button has shown yet.
NewLook == updates + executions + 1

\* Variant: the state is stored and the button is not drawn again.
deck_plugin_set_stateOnly(k) ==
    /\ IsAt(MainThread, "idle") /\ updates < MaxUpdates
    /\ look' = [look EXCEPT ![k] = NewLook]
    /\ updates' = updates + 1
    /\ UNCHANGED <<surface, emission, th, device, app, unsent, executions, failures>>

\* The main thread changes a button and has it drawn.  Events of OBS do it through
\* deck_plugin_set_state; the label, its colour and position and the timers of the
\* countdown and of the system monitor do the same.
deck_plugin_set_state(k) ==
    /\ IsAt(MainThread, "idle") /\ updates < MaxUpdates
    /\ look' = [look EXCEPT ![k] = NewLook]
    /\ updates' = updates + 1
    /\ th' = [th EXCEPT ![MainThread].pc = "draw", ![MainThread].key = k]
    /\ UNCHANGED <<surface, emission, device, app, unsent, executions, failures>>

\* A thread of the pool executes a button that is no toggle and resets it.  exec may
\* have changed the button: countdown_exec sets the label (and draws it, which is one
\* more such step).
process_plugin_exec(t, k) ==
    /\ IsAt(t, "idle") /\ executions < MaxExecutions
    /\ k \in NormalKeys
    /\ look' = look \/ look' = [look EXCEPT ![k] = NewLook]
    /\ executions' = executions + 1
    /\ th' = [th EXCEPT ![t].pc = "draw", ![t].key = k]
    /\ UNCHANGED <<surface, emission, device, app, unsent, updates, failures>>

\* Draws on a new surface what the button is now.
deck_plugin_set_current_state(t) ==
    /\ IsAt(t, "draw")
    /\ th' = [th EXCEPT ![t].pc = "store", ![t].image = look[th[t].key]]
    /\ UNCHANGED <<look, surface, emission, device, app, unsent, counters>>

\* g_object_set stores the surface ...
deck_plugin_set_property(t) ==
    /\ IsAt(t, "store")
    /\ surface' = [surface EXCEPT ![th[t].key] = th[t].image]
    /\ Move(t, "notify")
    /\ UNCHANGED <<look, emission, device, app, unsent, counters>>

\* ... and notifies.  "notify" is G_SIGNAL_NO_RECURSE: if another thread is in the
\* emission for this button, that emission starts again.
g_object_notify(t) ==
    /\ IsAt(t, "notify")
    /\ LET k == th[t].key IN
       IF emission[k] = "none"
       THEN /\ emission' = [emission EXCEPT ![k] = "run"]
            /\ Move(t, "device")
       ELSE /\ emission' = [emission EXCEPT ![k] = "restart"]
            /\ Move(t, "idle")
    /\ UNCHANGED <<look, surface, device, app, unsent, counters>>

\* A handler has returned: the emission starts again or goes on to pc.
HandlerReturns(t, here, pc, ends) ==
    /\ IsAt(t, here)
    /\ LET k == th[t].key IN
       IF emission[k] = "restart"
       THEN /\ emission' = [emission EXCEPT ![k] = "run"]
            /\ Move(t, "device")
       ELSE /\ emission' = [emission EXCEPT ![k] = ends]
            /\ Move(t, pc)
    /\ UNCHANGED <<look, surface, device, app, unsent, counters>>

EmissionContinues(t) == HandlerReturns(t, "sent", "app", "run")
EmissionEnds(t)      == HandlerReturns(t, "end", "idle", "none")

----------------------------------------------------------------------------
(* The handlers of deck_grid.c and the transfer of streamdeck.c            *)

\* Up to the call of write_image in generic_set_image.
on_deck_preview_update_device(t) ==
    /\ IsAt(t, "device")
    /\ LET k == th[t].key IN
       \/ /\ \E size \in Sizes :
               th' = [th EXCEPT ![t] = [pc |-> "page", key |-> k, image |-> surface[k],
                                        size |-> size, page |-> 0, remaining |-> size]]
          /\ unsent' = [unsent EXCEPT ![k] = FALSE]
          /\ UNCHANGED failures
       \/ /\ failures < MaxFailures                     \* gdk_pixbuf_save_to_buffer fails
          /\ failures' = failures + 1
          /\ Move(t, "sent")
          /\ unsent' = [unsent EXCEPT ![k] = TRUE]
    /\ UNCHANGED <<look, surface, emission, device, app, updates, executions>>

\* Variant: the longer one.
Longer(a, b) == IF a < b THEN b ELSE a

Shorter(a, b) == IF a < b THEN a ELSE b

\* Variants: pages numbered from 0 on every device; a full last page is not marked.
write_image_headerFromZero(key, this_length, bytes_remaining, page_number) ==
    [key |-> key, page |-> page_number % PageMod,
     last |-> this_length = bytes_remaining, length |-> this_length]

write_image_headerShortLast(key, this_length, bytes_remaining, page_number) ==
    [key |-> key, page |-> (page_number + FirstPage) % PageMod,
     last |-> this_length < Payload, length |-> this_length]

\* The header's fields, and the data as the interval of the image it holds.
\* The key is numbered from 0 or 1 and a length of 16 bits is there or not,
\* according to the device.
write_image_header(key, this_length, bytes_remaining, page_number) ==
    [key |-> key, page |-> (page_number + FirstPage) % PageMod,
     last |-> this_length = bytes_remaining, length |-> this_length]

\* External: the device appends a page to the one before it.  What it has is
\* torn unless the pages are those of one image, in order.
Appended(a, packet, image, from) ==
    [image |-> IF packet.page = FirstPage /\ from = 0 THEN image
               ELSE IF packet.page = a.page + 1 /\ a.image = image /\ a.bytes = from
               THEN image ELSE Torn,
     bytes |-> from + packet.length, page |-> packet.page]

\* One turn of the loop: a page, of which hid_write makes one report.
write_image(t) ==
    /\ IsAt(t, "page")
    /\ LET f == th[t]
           k == f.key
           this_length == Shorter(f.remaining, Payload)
           bytes_sent  == f.page * Payload
           packet == write_image_header(k, this_length, f.remaining, f.page)
           a == Appended(assembly[k], packet, f.image, bytes_sent)
       IN /\ assembly' = [assembly EXCEPT ![k] = a]
          /\ shown' = IF ~packet.last THEN shown
                      ELSE [shown EXCEPT ![k] = IF a.bytes = f.size THEN a.image ELSE Torn]
          /\ th' = [th EXCEPT ![t].remaining = f.remaining - this_length,
                              ![t].page = f.page + 1,
                              ![t].pc = IF f.remaining - this_length > 0 THEN "page" ELSE "sent"]
    /\ UNCHANGED <<look, surface, emission, app, unsent, counters>>

on_deck_preview_update_app(t) ==
    /\ IsAt(t, "app")
    /\ app' = [app EXCEPT ![th[t].key] = surface[th[t].key]]
    /\ Move(t, "end")
    /\ UNCHANGED <<look, surface, emission, device, unsent, counters>>

----------------------------------------------------------------------------
Step(t) ==
    \/ deck_plugin_set_current_state(t) \/ deck_plugin_set_property(t)
    \/ g_object_notify(t) \/ EmissionContinues(t) \/ EmissionEnds(t)
    \/ on_deck_preview_update_device(t) \/ write_image(t) \/ on_deck_preview_update_app(t)

ImageNext ==
    \/ \E k \in Keys : deck_plugin_set_state(k)
    \/ \E t \in PoolThreads, k \in Keys : process_plugin_exec(t, k)
    \/ \E t \in Drawers : Step(t)

ImageSpec == ImageInit /\ [][ImageNext]_imageVars

\* Threads that are drawing or writing are scheduled.
ImageFairness == \A t \in Drawers : WF_imageVars(Step(t))

----------------------------------------------------------------------------
(* Properties                                                              *)

\* No thread is busy with the button of key k.
Still(k) == \A t \in Drawers : IsAt(t, "idle") \/ th[t].key # k

\* The pages of two images never mix, whichever threads write: the device shows
\* whole images only (write_image, and the emission that serialises it).
NoTornImage == \A k \in Keys : shown[k] # Torn

\* When nothing is under way, the key and the window show the picture last drawn: a
\* notification that arrives during another one is not lost.
QuietFollowsSurface ==
    \A k \in Keys :
      Still(k) => /\ app[k] = surface[k]
                  /\ unsent[k] \/ shown[k] = surface[k]

\* A button only the main thread draws ends up on its key as it is (deck_plugin_set_state
\* stores the state before it draws).
ToggleShowsState ==
    \A k \in Keys \ NormalKeys : Still(k) => surface[k] = look[k]

\* The same of every button: "If plugin updates, send the new image to the device".
UpdateIsShown == \A k \in Keys : Still(k) => unsent[k] \/ shown[k] = look[k]

\* Every change reaches the device in the end: an emission that others restart ends.
DeviceCatchesUp ==
    \A k \in Keys : surface[k] # shown[k] ~> (surface[k] = shown[k] \/ unsent[k])

----------------------------------------------------------------------------
(* The inductive invariant                                                 *)

Owns(t, k) == th[t].pc \in Emitting /\ th[t].key = k

\* A button's emission, when there is one, is that of one thread.
EmissionInv ==
    \A k \in Keys :
      /\ \A t, u \in Drawers : Owns(t, k) /\ Owns(u, k) => t = u
      /\ emission[k] = "none" <=> \A t \in Drawers : ~Owns(t, k)

\* What write_image has sent is what the device has.
PageInv ==
    \A t \in Drawers : IsAt(t, "page") =>
      LET f == th[t] IN
      /\ f.size \in Sizes /\ f.remaining > 0
      /\ f.page * Payload + f.remaining = f.size
      /\ f.page > 0 => assembly[f.key] = [image |-> f.image, bytes |-> f.page * Payload,
                                          page |-> f.page - 1 + FirstPage]

TransferInv == ImageTypeOK /\ EmissionInv /\ PageInv /\ NoTornImage

\* A picture that is newer than what the emission is sending restarts it, or will.
Pending(k) == emission[k] = "restart" \/ \E t \in Drawers : IsAt(t, "notify") /\ th[t].key = k

OnDevice(k) == unsent[k] \/ shown[k] = surface[k]

\* What the emission has done so far it has done with the last picture.
Follows(k) ==
    /\ emission[k] = "none" => OnDevice(k) /\ app[k] = surface[k]
    /\ \A t \in Drawers : th[t].key = k =>
         /\ IsAt(t, "page") => th[t].image = surface[k] /\ ~unsent[k]
         /\ th[t].pc \in {"sent", "app", "end"} => OnDevice(k)
         /\ IsAt(t, "end") => app[k] = surface[k]

FollowInv == \A k \in Keys : Pending(k) \/ Follows(k)

\* Only the main thread draws a toggle, and it draws the state it has stored.
DrawnByMain(k) ==
    /\ \A t \in PoolThreads : th[t].key = k => IsAt(t, "idle")
    /\ IsAt(MainThread, "store") /\ th[MainThread].key = k => th[MainThread].image = look[k]
    /\ surface[k] = look[k] \/ (th[MainThread].pc \in {"draw", "store"} /\ th[MainThread].key = k)

DrawInv == \A k \in Keys \ NormalKeys : DrawnByMain(k)

=============================================================================
