--------------------------- MODULE KeyImageProofs ---------------------------
(* Theorems about KeyImage for every set of threads and keys, every device *)
(* (page size, numbering) and all image sizes.                             *)
EXTENDS KeyImage, TLAPS

\* A page that is still to be sent has a number the header can hold.
LEMMA PageFits ==
    ASSUME NEW p \in Nat, NEW r \in Nat \ {0}, NEW s \in Sizes, p * Payload + r = s
    PROVE  p + FirstPage < PageMod
<1> DEFINE m == PageMod - FirstPage
<1>1. m \in Nat /\ m > 0 /\ Payload \in Nat /\ s <= Payload * m
  BY KeyImageAssumption
<1>2. SUFFICES ASSUME p >= m PROVE FALSE
  BY KeyImageAssumption
<1>3. PICK d \in Nat : p = m + d
  <2>1. p - m \in Nat /\ p = m + (p - m)
    BY <1>1, <1>2
  <2> QED BY <2>1
<1>4. p * Payload = Payload * m + d * Payload /\ d * Payload \in Nat
  BY <1>1, <1>3
<1> HIDE DEF m
<1>5. Payload * m \in Nat
  BY <1>1
<1> QED BY <1>1, <1>4, <1>5, KeyImageAssumption

LEMMA ModSmall == \A a \in Nat, b \in Nat \ {0} : a < b => a % b = a
  OBVIOUS

\* Moving a thread on, to a button or not, keeps the type of th.
LEMMA GotoType ==
    ASSUME ImageTypeOK, NEW t \in Drawers, NEW pc \in Places, Move(t, pc)
    PROVE  th' \in [Drawers -> Locals]
<1>1. [th[t] EXCEPT !.pc = pc] \in Locals
  BY DEF ImageTypeOK, Locals
<1>2. th' = [th EXCEPT ![t] = [th[t] EXCEPT !.pc = pc]]
  BY DEF Move
<1> QED BY <1>1, <1>2 DEF ImageTypeOK

LEMMA EnterType ==
    ASSUME ImageTypeOK, NEW t \in Drawers, NEW pc \in Places, NEW k \in Keys,
           th' = [th EXCEPT ![t].pc = pc, ![t].key = k]
    PROVE  th' \in [Drawers -> Locals]
<1>1. [th[t] EXCEPT !.pc = pc, !.key = k] \in Locals
  BY DEF ImageTypeOK, Locals
<1>2. th' = [th EXCEPT ![t] = [th[t] EXCEPT !.pc = pc, !.key = k]]
  BY DEF ImageTypeOK
<1> QED BY <1>1, <1>2 DEF ImageTypeOK

LEMMA TypeInit == ImageInit => ImageTypeOK
  BY DEF ImageInit, ImageTypeOK, Locals, Places, Emitting, Picture

LEMMA TypeStep == ImageTypeOK /\ [ImageNext]_imageVars => ImageTypeOK'
<1> SUFFICES ASSUME ImageTypeOK, [ImageNext]_imageVars PROVE ImageTypeOK'
  OBVIOUS
<1> USE KeyImageAssumption
<1>0. MainThread \in Drawers /\ PoolThreads \subseteq Drawers
  BY DEF Drawers
<1>1. ASSUME NEW k \in Keys, deck_plugin_set_state(k) PROVE ImageTypeOK'
  <2>1. th' \in [Drawers -> Locals]
    BY <1>0, <1>1, EnterType DEF deck_plugin_set_state, Places
  <2>2. look' \in [Keys -> Picture] /\ updates' \in Nat
    BY <1>1 DEF deck_plugin_set_state, NewLook, ImageTypeOK, Picture
  <2> QED BY <1>1, <2>1, <2>2 DEF deck_plugin_set_state, ImageTypeOK, device
<1>2. ASSUME NEW t \in PoolThreads, NEW k \in Keys, process_plugin_exec(t, k) PROVE ImageTypeOK'
  <2>1. th' \in [Drawers -> Locals]
    BY <1>0, <1>2, EnterType DEF process_plugin_exec, Places
  <2>2. look' \in [Keys -> Picture] /\ executions' \in Nat
    BY <1>2 DEF process_plugin_exec, NewLook, ImageTypeOK, Picture
  <2> QED BY <1>2, <2>1, <2>2 DEF process_plugin_exec, ImageTypeOK, device
<1>3. ASSUME NEW t \in Drawers, Step(t) PROVE ImageTypeOK'
  <2>0. th[t] \in Locals /\ th[t].key \in Keys /\ th[t].image \in Picture
    BY DEF ImageTypeOK, Locals
  <2>1. CASE deck_plugin_set_current_state(t)
    <3>1. look[th[t].key] \in Picture
      BY <2>0 DEF ImageTypeOK
    <3>2. th' \in [Drawers -> Locals]
      BY <2>0, <2>1, <3>1 DEF deck_plugin_set_current_state, ImageTypeOK, Locals, Places
    <3> QED BY <2>1, <3>2 DEF deck_plugin_set_current_state, ImageTypeOK, device, counters
  <2>2. CASE deck_plugin_set_property(t)
    <3>1. th' \in [Drawers -> Locals]
      BY <2>2, GotoType DEF deck_plugin_set_property, Places
    <3>2. surface' \in [Keys -> Picture]
      BY <2>0, <2>2 DEF deck_plugin_set_property, ImageTypeOK
    <3> QED BY <2>2, <3>1, <3>2 DEF deck_plugin_set_property, ImageTypeOK, device, counters
  <2>3. CASE g_object_notify(t)
    <3>1. th' \in [Drawers -> Locals]
      BY <2>3, GotoType DEF g_object_notify, Places, Emitting
    <3>2. emission' \in [Keys -> {"none", "run", "restart"}]
      BY <2>0, <2>3 DEF g_object_notify, ImageTypeOK
    <3> QED BY <2>3, <3>1, <3>2 DEF g_object_notify, ImageTypeOK, device, counters
  <2>4. CASE EmissionContinues(t)
    <3>1. th' \in [Drawers -> Locals]
      BY <2>4, GotoType DEF EmissionContinues, HandlerReturns, Places, Emitting
    <3>2. emission' \in [Keys -> {"none", "run", "restart"}]
      BY <2>0, <2>4 DEF EmissionContinues, HandlerReturns, ImageTypeOK
    <3> QED BY <2>4, <3>1, <3>2 DEF EmissionContinues, HandlerReturns, ImageTypeOK, device, counters
  <2>5. CASE EmissionEnds(t)
    <3>1. th' \in [Drawers -> Locals]
      BY <2>5, GotoType DEF EmissionEnds, HandlerReturns, Places, Emitting
    <3>2. emission' \in [Keys -> {"none", "run", "restart"}]
      BY <2>0, <2>5 DEF EmissionEnds, HandlerReturns, ImageTypeOK
    <3> QED BY <2>5, <3>1, <3>2 DEF EmissionEnds, HandlerReturns, ImageTypeOK, device, counters
  <2>6. CASE on_deck_preview_update_device(t)
    <3>0. surface[th[t].key] \in Picture /\ Sizes \subseteq Nat
      BY <2>0 DEF ImageTypeOK
    <3>1. th' \in [Drawers -> Locals]
      BY <2>0, <2>6, <3>0 DEF on_deck_preview_update_device, ImageTypeOK, Locals, Places, Emitting, Move
    <3>2. unsent' \in [Keys -> BOOLEAN]
      BY <2>0, <2>6 DEF on_deck_preview_update_device, ImageTypeOK
    <3>3. failures' \in Nat
      BY <2>6 DEF on_deck_preview_update_device, ImageTypeOK
    <3> QED BY <2>6, <3>1, <3>2, <3>3 DEF on_deck_preview_update_device, ImageTypeOK, device
  <2>7. CASE write_image(t)
    <3> DEFINE f == th[t]
               l == Shorter(f.remaining, Payload)
               packet == write_image_header(f.key, l, f.remaining, f.page)
               a == Appended(assembly[f.key], packet, f.image, f.page * Payload)
    <3>1. l \in Nat /\ f.remaining - l \in Nat /\ f.page * Payload \in Nat /\ f.page + 1 \in Nat
      BY <2>0 DEF Shorter, Locals
    <3>2. packet.page \in Nat /\ packet.length = l
      BY <2>0, <3>1 DEF write_image_header, Locals
    <3> HIDE DEF packet
    <3>3. a \in [image : Picture \cup {Torn}, bytes : Nat, page : Nat]
      BY <2>0, <3>1, <3>2 DEF Appended, Locals
    <3> USE DEF packet
    <3>4. assembly' = [assembly EXCEPT ![f.key] = a]
      BY <2>7 DEF write_image
    <3>5. shown' = shown \/ \E x \in Picture \cup {Torn} : shown' = [shown EXCEPT ![f.key] = x]
      <4>1. shown' = IF ~packet.last THEN shown
                     ELSE [shown EXCEPT ![f.key] = IF a.bytes = f.size THEN a.image ELSE Torn]
        BY <2>7 DEF write_image
      <4>2. (IF a.bytes = f.size THEN a.image ELSE Torn) \in Picture \cup {Torn}
        BY <3>3
      <4> QED BY <4>1, <4>2
    <3>6. th' = [th EXCEPT ![t].remaining = f.remaining - l, ![t].page = f.page + 1,
                           ![t].pc = IF f.remaining - l > 0 THEN "page" ELSE "sent"]
      BY <2>7 DEF write_image
    <3>7. UNCHANGED <<look, surface, emission, app, unsent, counters>>
      BY <2>7 DEF write_image
    <3> HIDE DEF a, l, packet
    <3>8. th' \in [Drawers -> Locals]
      BY <2>0, <3>1, <3>6 DEF ImageTypeOK, Locals, Places, Emitting
    <3>9. assembly' \in [Keys -> [image : Picture \cup {Torn}, bytes : Nat, page : Nat]]
      BY <2>0, <3>3, <3>4 DEF ImageTypeOK
    <3>10. shown' \in [Keys -> Picture \cup {Torn}]
      BY <2>0, <3>5 DEF ImageTypeOK
    <3> QED BY <3>7, <3>8, <3>9, <3>10 DEF ImageTypeOK, counters
  <2>8. CASE on_deck_preview_update_app(t)
    BY <2>0, <2>8 DEF on_deck_preview_update_app, ImageTypeOK, Locals, Places, Emitting, IsAt, Move, device, counters
  <2> QED BY <1>3, <2>1, <2>2, <2>3, <2>4, <2>5, <2>6, <2>7, <2>8 DEF Step
<1>4. CASE UNCHANGED imageVars
  BY <1>4 DEF imageVars, ImageTypeOK, device, counters
<1> QED BY <1>1, <1>2, <1>3, <1>4 DEF ImageNext

THEOREM TypeCorrect == ImageSpec => []ImageTypeOK
BY TypeInit, TypeStep, PTL DEF ImageSpec

----------------------------------------------------------------------------
(* NoTornImage: one thread at a time is in the emission of a button, so the *)
(* device's last page of a key is the one that thread sent.                 *)

\* The page write_image sends continues what the device has.
LEMMA WritePage ==
    ASSUME TransferInv, NEW t \in Drawers, write_image(t),
           NEW k, k = th[t].key, NEW l, l = Shorter(th[t].remaining, Payload)
    PROVE  /\ k \in Keys /\ th[t].image \in Picture
           /\ l \in Nat /\ l > 0 /\ l <= th[t].remaining
           /\ l # th[t].remaining => l = Payload
           /\ assembly' = [assembly EXCEPT ![k] =
                             [image |-> th[t].image, bytes |-> th[t].page * Payload + l,
                              page |-> th[t].page + FirstPage]]
           /\ shown' = IF l = th[t].remaining
                       THEN [shown EXCEPT ![k] = th[t].image] ELSE shown
<1> DEFINE f == th[t]
<1>1. /\ f \in Locals /\ k \in Keys /\ f.image \in Nat /\ f.page \in Nat /\ f.remaining \in Nat
      /\ Payload \in Nat \ {0} /\ IsAt(t, "page")
  BY KeyImageAssumption DEF TransferInv, ImageTypeOK, Locals, Picture, write_image
<1>2. /\ f.size \in Sizes /\ f.remaining > 0 /\ f.page * Payload + f.remaining = f.size
      /\ f.page > 0 => assembly[k] = [image |-> f.image, bytes |-> f.page * Payload,
                                      page |-> f.page - 1 + FirstPage]
  BY <1>1 DEF TransferInv, PageInv
<1>3. l \in Nat /\ l > 0 /\ l <= f.remaining /\ (l # f.remaining => l = Payload)
  BY <1>1, <1>2 DEF Shorter
<1>4. f.page + FirstPage < PageMod
  <2>1. f.page \in Nat /\ f.remaining \in Nat \ {0} /\ f.size \in Sizes
    BY <1>1, <1>2
  <2> HIDE DEF f
  <2> QED BY <1>2, <2>1, PageFits
<1>5. (f.page + FirstPage) % PageMod = f.page + FirstPage
  BY <1>1, <1>4, ModSmall, KeyImageAssumption
<1> DEFINE packet == write_image_header(k, l, f.remaining, f.page)
           a == Appended(assembly[k], packet, f.image, f.page * Payload)
<1>6. packet.page = f.page + FirstPage /\ packet.last = (l = f.remaining) /\ packet.length = l
  BY <1>5 DEF write_image_header
<1>7. f.page * Payload \in Nat /\ (f.page = 0 => f.page * Payload = 0)
  BY <1>1
<1> HIDE DEF packet
<1>8. a = [image |-> f.image, bytes |-> f.page * Payload + l, page |-> f.page + FirstPage]
  <2>1. CASE f.page = 0
    <3> DEFINE b == f.page * Payload
    <3>1. b = 0 /\ packet.page = FirstPage
      BY <1>6, <1>7, <2>1, KeyImageAssumption
    <3> HIDE DEF b
    <3>2. Appended(assembly[k], packet, f.image, b)
            = [image |-> f.image, bytes |-> b + packet.length, page |-> packet.page]
      BY <3>1 DEF Appended
    <3> QED BY <1>6, <3>2 DEF b
  <2>2. CASE f.page > 0
    <3> DEFINE b == f.page * Payload
    <3> HIDE DEF b
    <3>1. /\ assembly[k].image = f.image /\ assembly[k].bytes = b
          /\ assembly[k].page = f.page - 1 + FirstPage
      BY <1>2, <2>2 DEF b
    <3>2. packet.page = assembly[k].page + 1
      BY <1>1, <1>6, <3>1, KeyImageAssumption
    <3>3. Appended(assembly[k], packet, f.image, b)
            = [image |-> f.image, bytes |-> b + packet.length, page |-> packet.page]
      BY <3>1, <3>2 DEF Appended
    <3> QED BY <1>6, <3>3 DEF b
  <2> QED BY <1>1, <2>1, <2>2
<1>9. f.page * Payload + l = f.size <=> l = f.remaining
  BY <1>1, <1>2, <1>3, <1>7
<1>10. assembly' = [assembly EXCEPT ![k] = a]
  BY DEF write_image, packet
<1>11. shown' = IF ~packet.last THEN shown
                ELSE [shown EXCEPT ![k] = IF a.bytes = f.size THEN a.image ELSE Torn]
  BY DEF write_image, packet
<1> HIDE DEF a
<1>12. a.image = f.image /\ (a.bytes = f.size <=> l = f.remaining)
  BY <1>8, <1>9
<1>13. shown' = IF l = f.remaining THEN [shown EXCEPT ![k] = f.image] ELSE shown
  BY <1>6, <1>11, <1>12
<1>14. assembly' = [assembly EXCEPT ![k] =
                      [image |-> f.image, bytes |-> f.page * Payload + l,
                       page |-> f.page + FirstPage]]
  BY <1>8, <1>10, Zenon
<1>15. k \in Keys /\ f.image \in Picture
  BY <1>1 DEF Picture
<1> QED BY <1>3, <1>13, <1>14, <1>15, Zenon

\* An action that moves no thread into or out of an emission.
LEMMA EmissionKept ==
    ASSUME EmissionInv,
           \A k \in Keys, t \in Drawers : Owns(t, k)' <=> Owns(t, k),
           \A k \in Keys : emission'[k] = "none" <=> emission[k] = "none"
    PROVE  EmissionInv'
BY DEF EmissionInv

\* A step of a thread moves that thread only, and leaves it at its button.
LEMMA OthersStay ==
    ASSUME ImageTypeOK, NEW t \in Drawers, Step(t)
    PROVE  /\ \A u \in Drawers : u # t => th'[u] = th[u]
           /\ th'[t].key = th[t].key
<1>0. t \in DOMAIN th /\ th[t] \in Locals
  BY DEF ImageTypeOK
<1>1. CASE deck_plugin_set_current_state(t)
  BY <1>0, <1>1 DEF deck_plugin_set_current_state, ImageTypeOK, Locals
<1>2. CASE deck_plugin_set_property(t)
  BY <1>0, <1>2 DEF deck_plugin_set_property, ImageTypeOK, Locals, Move
<1>3. CASE g_object_notify(t)
  BY <1>0, <1>3 DEF g_object_notify, ImageTypeOK, Locals, Move
<1>4. CASE EmissionContinues(t) \/ EmissionEnds(t)
  BY <1>0, <1>4 DEF EmissionContinues, EmissionEnds, HandlerReturns, ImageTypeOK, Locals, Move
<1>5. CASE on_deck_preview_update_device(t)
  BY <1>0, <1>5 DEF on_deck_preview_update_device, ImageTypeOK, Locals, Move
<1>6. CASE write_image(t)
  <2>1. PICK r, p, c : th' = [th EXCEPT ![t].remaining = r, ![t].page = p, ![t].pc = c]
    BY <1>6 DEF write_image
  <2> QED BY <1>0, <2>1 DEF ImageTypeOK, Locals
<1>7. CASE on_deck_preview_update_app(t)
  BY <1>0, <1>7 DEF on_deck_preview_update_app, ImageTypeOK, Locals, Move
<1> QED BY <1>1, <1>2, <1>3, <1>4, <1>5, <1>6, <1>7 DEF Step

\* The main thread and the pool take a button from "idle" only.
LEMMA OthersStayIdle ==
    ASSUME ImageTypeOK, NEW t \in Drawers, NEW k \in Keys, IsAt(t, "idle"),
           th' = [th EXCEPT ![t].pc = "draw", ![t].key = k]
    PROVE  /\ \A u \in Drawers : u # t => th'[u] = th[u]
           /\ th'[t].pc = "draw" /\ th'[t].key = k
BY DEF ImageTypeOK, Locals

LEMMA EmissionStep == TransferInv /\ [ImageNext]_imageVars => EmissionInv'
<1> SUFFICES ASSUME TransferInv, [ImageNext]_imageVars PROVE EmissionInv'
  OBVIOUS
<1>0. ImageTypeOK /\ EmissionInv
  BY DEF TransferInv
<1>1. ASSUME NEW t \in Drawers, NEW k \in Keys, IsAt(t, "idle"), UNCHANGED emission,
             th' = [th EXCEPT ![t].pc = "draw", ![t].key = k]
      PROVE  EmissionInv'
  <2>1. \A j \in Keys, u \in Drawers : Owns(u, j)' <=> Owns(u, j)
    BY <1>0, <1>1, OthersStayIdle DEF Owns, IsAt, Emitting
  <2> QED BY <1>0, <1>1, <2>1, EmissionKept
<1>2. ASSUME NEW k \in Keys, deck_plugin_set_state(k) PROVE EmissionInv'
  BY <1>1, <1>2 DEF deck_plugin_set_state, Drawers
<1>3. ASSUME NEW t \in PoolThreads, NEW k \in Keys, process_plugin_exec(t, k) PROVE EmissionInv'
  BY <1>1, <1>3 DEF process_plugin_exec, Drawers
<1>4. ASSUME NEW t \in Drawers, Step(t) PROVE EmissionInv'
  <2>0. /\ \A u \in Drawers : u # t => th'[u] = th[u]
        /\ th'[t].key = th[t].key /\ th[t].key \in Keys
        /\ t \in DOMAIN th /\ th[t] \in Locals /\ DOMAIN emission = Keys
    BY <1>0, <1>4, OthersStay DEF ImageTypeOK, Locals
  <2>1. ASSUME Owns(t, th[t].key)' <=> Owns(t, th[t].key),
               \A k \in Keys : emission'[k] = "none" <=> emission[k] = "none"
        PROVE  EmissionInv'
    <3>1. \A j \in Keys, u \in Drawers : Owns(u, j)' <=> Owns(u, j)
      BY <2>0, <2>1 DEF Owns
    <3> QED BY <1>0, <2>1, <3>1, EmissionKept
  <2>2. CASE deck_plugin_set_current_state(t)
    <3>1. th'[t].pc = "store" /\ th[t].pc = "draw" /\ emission' = emission
      BY <2>0, <2>2 DEF deck_plugin_set_current_state, IsAt, Locals
    <3> QED BY <2>1, <3>1 DEF Owns, Emitting
  <2>3. CASE deck_plugin_set_property(t)
    <3>1. th'[t].pc = "notify" /\ th[t].pc = "store" /\ emission' = emission
      BY <2>0, <2>3 DEF deck_plugin_set_property, IsAt, Move, Locals
    <3> QED BY <2>1, <3>1 DEF Owns, Emitting
  <2>4. CASE g_object_notify(t)
    <3>1. th[t].pc = "notify"
      BY <2>4 DEF g_object_notify, IsAt
    <3>2. CASE emission[th[t].key] = "none"
      <4>1. th'[t].pc = "device" /\ emission' = [emission EXCEPT ![th[t].key] = "run"]
        BY <2>0, <2>4, <3>2 DEF g_object_notify, Move, Locals
      <4>2. \A u \in Drawers : ~Owns(u, th[t].key)
        BY <1>0, <2>0, <3>2 DEF EmissionInv
      <4>3. \A u \in Drawers, j \in Keys : Owns(u, j)' <=> Owns(u, j) \/ (u = t /\ j = th[t].key)
        BY <2>0, <3>1, <4>1 DEF Owns, Emitting
      <4>4. \A j \in Keys : emission'[j] = IF j = th[t].key THEN "run" ELSE emission[j]
        BY <2>0, <4>1
      <4> QED BY <1>0, <4>2, <4>3, <4>4 DEF EmissionInv
    <3>3. CASE emission[th[t].key] # "none"
      <4>1. th'[t].pc = "idle" /\ emission' = [emission EXCEPT ![th[t].key] = "restart"]
        BY <2>0, <2>4, <3>3 DEF g_object_notify, Move, Locals
      <4> QED BY <2>0, <2>1, <3>1, <3>3, <4>1 DEF Owns, Emitting
    <3> QED BY <3>2, <3>3
  <2>5. CASE EmissionContinues(t)
    <3>1. th[t].pc = "sent" /\ th'[t].pc \in {"device", "app"}
      BY <2>0, <2>5 DEF EmissionContinues, HandlerReturns, IsAt, Move, Locals
    <3>2. emission[th[t].key] # "none"
      BY <1>0, <2>0, <3>1 DEF EmissionInv, Owns, Emitting
    <3>3. \A k \in Keys : emission'[k] = "none" <=> emission[k] = "none"
      BY <2>0, <2>5, <3>2 DEF EmissionContinues, HandlerReturns
    <3> QED BY <2>0, <2>1, <3>1, <3>3 DEF Owns, Emitting
  <2>6. CASE EmissionEnds(t)
    <3>1. th[t].pc = "end"
      BY <2>6 DEF EmissionEnds, HandlerReturns, IsAt
    <3>2. emission[th[t].key] # "none" /\ Owns(t, th[t].key)
      BY <1>0, <2>0, <3>1 DEF EmissionInv, Owns, Emitting
    <3>3. CASE emission[th[t].key] = "restart"
      <4>1. th'[t].pc = "device" /\ emission' = [emission EXCEPT ![th[t].key] = "run"]
        BY <2>0, <2>6, <3>3 DEF EmissionEnds, HandlerReturns, Move, Locals
      <4> QED BY <2>0, <2>1, <3>1, <3>2, <4>1 DEF Owns, Emitting
    <3>4. CASE emission[th[t].key] # "restart"
      <4>1. th'[t].pc = "idle" /\ emission' = [emission EXCEPT ![th[t].key] = "none"]
        BY <2>0, <2>6, <3>4 DEF EmissionEnds, HandlerReturns, Move, Locals
      <4>2. \A u \in Drawers, j \in Keys : Owns(u, j)' <=> Owns(u, j) /\ u # t
        BY <2>0, <4>1 DEF Owns, Emitting
      <4>3. \A j \in Keys : emission'[j] = IF j = th[t].key THEN "none" ELSE emission[j]
        BY <2>0, <4>1
      <4>4. \A u \in Drawers : Owns(u, th[t].key) => u = t
        BY <1>0, <2>0, <3>2 DEF EmissionInv
      <4>5. \A j \in Keys : Owns(t, j) => j = th[t].key
        BY DEF Owns
      <4> QED BY <1>0, <4>2, <4>3, <4>4, <4>5 DEF EmissionInv
    <3> QED BY <3>3, <3>4
  <2>7. CASE on_deck_preview_update_device(t)
    <3>1. th[t].pc = "device" /\ th'[t].pc \in {"page", "sent"} /\ emission' = emission
      BY <2>0, <2>7 DEF on_deck_preview_update_device, IsAt, Move, Locals
    <3> QED BY <2>0, <2>1, <3>1 DEF Owns, Emitting
  <2>8. CASE write_image(t)
    <3> DEFINE r == th[t].remaining - Shorter(th[t].remaining, Payload)
               c == IF r > 0 THEN "page" ELSE "sent"
    <3>1. th' = [th EXCEPT ![t].remaining = r, ![t].page = th[t].page + 1, ![t].pc = c]
      BY <2>8 DEF write_image
    <3> HIDE DEF r
    <3>2. th[t].pc = "page" /\ th'[t].pc \in {"page", "sent"} /\ emission' = emission
      BY <2>0, <2>8, <3>1 DEF write_image, IsAt, Locals
    <3> QED BY <2>0, <2>1, <3>2 DEF Owns, Emitting
  <2>9. CASE on_deck_preview_update_app(t)
    <3>1. th[t].pc = "app" /\ th'[t].pc = "end" /\ emission' = emission
      BY <2>0, <2>9 DEF on_deck_preview_update_app, IsAt, Move, Locals
    <3> QED BY <2>0, <2>1, <3>1 DEF Owns, Emitting
  <2> QED BY <1>4, <2>2, <2>3, <2>4, <2>5, <2>6, <2>7, <2>8, <2>9 DEF Step
<1>5. CASE UNCHANGED imageVars
  BY <1>0, <1>5, EmissionKept DEF imageVars, Owns
<1> QED BY <1>2, <1>3, <1>4, <1>5 DEF ImageNext

LEMMA PageStep == TransferInv /\ [ImageNext]_imageVars => PageInv'
<1> SUFFICES ASSUME TransferInv, [ImageNext]_imageVars PROVE PageInv'
  OBVIOUS
<1>0. ImageTypeOK /\ EmissionInv /\ PageInv
  BY DEF TransferInv
\* A thread that stays at its page while the device stays as it is for that key.
<1>1. ASSUME NEW u \in Drawers, IsAt(u, "page"), th'[u] = th[u],
             assembly'[th[u].key] = assembly[th[u].key]
      PROVE  LET f == th'[u] IN
             /\ f.size \in Sizes /\ f.remaining > 0
             /\ f.page * Payload + f.remaining = f.size
             /\ f.page > 0 => assembly'[f.key] = [image |-> f.image, bytes |-> f.page * Payload,
                                                  page |-> f.page - 1 + FirstPage]
  BY <1>0, <1>1, Zenon DEF PageInv
<1>2. ASSUME NEW t \in Drawers, NEW k \in Keys, IsAt(t, "idle"), UNCHANGED assembly,
             th' = [th EXCEPT ![t].pc = "draw", ![t].key = k]
      PROVE  PageInv'
  <2>1. \A u \in Drawers : IsAt(u, "page")' => IsAt(u, "page") /\ th'[u] = th[u]
    BY <1>0, <1>2, OthersStayIdle DEF IsAt
  <2> QED BY <1>1, <1>2, <2>1 DEF PageInv, IsAt
<1>3. ASSUME NEW k \in Keys, deck_plugin_set_state(k) PROVE PageInv'
  BY <1>2, <1>3 DEF deck_plugin_set_state, Drawers, device
<1>4. ASSUME NEW t \in PoolThreads, NEW k \in Keys, process_plugin_exec(t, k) PROVE PageInv'
  BY <1>2, <1>4 DEF process_plugin_exec, Drawers, device
<1>5. ASSUME NEW t \in Drawers, Step(t) PROVE PageInv'
  <2>0. /\ \A u \in Drawers : u # t => th'[u] = th[u]
        /\ th'[t].key = th[t].key /\ th[t].key \in Keys
        /\ t \in DOMAIN th /\ th[t] \in Locals /\ DOMAIN assembly = Keys
    BY <1>0, <1>5, OthersStay DEF ImageTypeOK, Locals
  <2>1. ASSUME UNCHANGED assembly, th'[t].pc # "page" PROVE PageInv'
    <3>1. \A u \in Drawers : IsAt(u, "page")' => IsAt(u, "page") /\ th'[u] = th[u]
      BY <2>0, <2>1 DEF IsAt
    <3> QED BY <1>1, <2>1, <3>1 DEF PageInv, IsAt
  <2>2. CASE deck_plugin_set_current_state(t) \/ deck_plugin_set_property(t)
    BY <2>0, <2>1, <2>2 DEF deck_plugin_set_current_state, deck_plugin_set_property, device,
                            Move, Locals
  <2>3. CASE g_object_notify(t)
    BY <2>0, <2>1, <2>3 DEF g_object_notify, device, Move, Locals
  <2>4. CASE EmissionContinues(t) \/ EmissionEnds(t)
    BY <2>0, <2>1, <2>4 DEF EmissionContinues, EmissionEnds, HandlerReturns, device, Move, Locals
  <2>5. CASE on_deck_preview_update_device(t)
    <3>1. assembly' = assembly
      BY <2>5 DEF on_deck_preview_update_device, device
    <3>2. CASE th'[t].pc # "page"
      BY <2>1, <3>1, <3>2
    <3>3. ASSUME NEW size \in Sizes,
                 th' = [th EXCEPT ![t] = [pc |-> "page", key |-> th[t].key,
                          image |-> surface[th[t].key],
                          size |-> size, page |-> 0, remaining |-> size]]
          PROVE  PageInv'
      <4>1. /\ th'[t].size = size /\ th'[t].remaining = size /\ th'[t].page = 0
            /\ size \in Nat \ {0} /\ 0 * Payload + size = size
        BY <2>0, <3>3, KeyImageAssumption
      <4>2. \A u \in Drawers : IsAt(u, "page")' => u = t \/ (IsAt(u, "page") /\ th'[u] = th[u])
        BY <2>0 DEF IsAt
      <4> QED BY <1>1, <3>1, <3>3, <4>1, <4>2 DEF PageInv, IsAt
    <3>4. CASE Move(t, "sent")
      BY <2>0, <3>2, <3>4 DEF Move, Locals
    <3> QED BY <2>5, <3>3, <3>4 DEF on_deck_preview_update_device
  <2>6. CASE write_image(t)
    <3> DEFINE k == th[t].key
               f == th[t]
               l == Shorter(f.remaining, Payload)
    <3>1. /\ k \in Keys /\ f.image \in Picture
          /\ l \in Nat /\ l > 0 /\ l <= f.remaining
          /\ l # f.remaining => l = Payload
          /\ assembly' = [assembly EXCEPT ![k] =
                            [image |-> f.image, bytes |-> f.page * Payload + l,
                             page |-> f.page + FirstPage]]
      BY <2>6, WritePage
    <3>2. th' = [th EXCEPT ![t].remaining = f.remaining - l, ![t].page = f.page + 1,
                           ![t].pc = IF f.remaining - l > 0 THEN "page" ELSE "sent"]
      BY <2>6 DEF write_image
    <3>3. IsAt(t, "page")
      BY <2>6 DEF write_image
    <3>4. \A u \in Drawers : u # t /\ IsAt(u, "page") => th[u].key # k
      BY <1>0, <3>1, <3>3 DEF EmissionInv, Owns, IsAt, Emitting
    <3>5. ASSUME NEW u \in Drawers, u # t, IsAt(u, "page")'
          PROVE  IsAt(u, "page") /\ th'[u] = th[u] /\ assembly'[th[u].key] = assembly[th[u].key]
      <4>1. IsAt(u, "page") /\ th'[u] = th[u] /\ th[u].key \in Keys
        BY <1>0, <2>0, <3>5 DEF IsAt, ImageTypeOK, Locals
      <4> HIDE DEF l
      <4> QED BY <2>0, <3>1, <3>4, <3>5, <4>1
    <3>6. ASSUME IsAt(t, "page")'
          PROVE  LET g == th'[t] IN
                 /\ g.size \in Sizes /\ g.remaining > 0
                 /\ g.page * Payload + g.remaining = g.size
                 /\ g.page > 0 => assembly'[g.key] = [image |-> g.image,
                                     bytes |-> g.page * Payload, page |-> g.page - 1 + FirstPage]
      <4> HIDE DEF l
      <4>1. /\ th'[t].remaining = f.remaining - l /\ th'[t].page = f.page + 1
            /\ th'[t].size = f.size /\ th'[t].image = f.image /\ th'[t].key = k
            /\ f.remaining - l > 0
        BY <2>0, <3>2, <3>6 DEF Locals, IsAt
      <4>2. /\ f.page \in Nat /\ f.remaining \in Nat /\ f.size \in Sizes /\ f.size \in Nat
            /\ f.page * Payload + f.remaining = f.size /\ Payload \in Nat
        BY <1>0, <2>0, <3>3, KeyImageAssumption DEF PageInv, Locals
      <4>3. l = Payload
        BY <3>1, <4>1, <4>2
      <4>4. (f.page + 1) * Payload = f.page * Payload + Payload /\ f.page * Payload \in Nat
        BY <4>2
      <4>5. f.page + 1 - 1 + FirstPage = f.page + FirstPage
        BY <4>2, KeyImageAssumption
      <4>6. assembly'[k] = [image |-> f.image, bytes |-> (f.page + 1) * Payload,
                            page |-> f.page + 1 - 1 + FirstPage]
        BY <2>0, <3>1, <4>3, <4>4, <4>5
      <4>7. (f.page + 1) * Payload + (f.remaining - l) = f.size
        BY <4>2, <4>3, <4>4
      <4> QED BY <4>1, <4>2, <4>6, <4>7
    <3> QED BY <1>1, <3>5, <3>6 DEF PageInv
  <2>7. CASE on_deck_preview_update_app(t)
    BY <2>0, <2>1, <2>7 DEF on_deck_preview_update_app, device, Move, Locals
  <2> QED BY <1>5, <2>2, <2>3, <2>4, <2>5, <2>6, <2>7 DEF Step
<1>6. CASE UNCHANGED imageVars
  BY <1>0, <1>6 DEF imageVars, device, PageInv, IsAt
<1> QED BY <1>3, <1>4, <1>5, <1>6 DEF ImageNext

LEMMA WholeStep == TransferInv /\ [ImageNext]_imageVars => NoTornImage'
<1> SUFFICES ASSUME TransferInv, [ImageNext]_imageVars PROVE NoTornImage'
  OBVIOUS
<1>1. ASSUME UNCHANGED shown PROVE NoTornImage'
  BY <1>1 DEF TransferInv, NoTornImage
<1>2. ASSUME NEW t \in Drawers, write_image(t) PROVE NoTornImage'
  <2>1. /\ th[t].key \in Keys /\ th[t].image \in Picture
        /\ shown' = shown \/ shown' = [shown EXCEPT ![th[t].key] = th[t].image]
    BY <1>2, WritePage
  <2>2. th[t].image # Torn
    BY <2>1 DEF Picture, Torn
  <2> QED BY <2>1, <2>2 DEF TransferInv, NoTornImage, ImageTypeOK
<1>3. ASSUME NEW t \in Drawers, Step(t), ~write_image(t) PROVE UNCHANGED shown
  BY <1>3 DEF Step, deck_plugin_set_current_state, deck_plugin_set_property, g_object_notify,
              EmissionContinues, EmissionEnds, HandlerReturns, on_deck_preview_update_device,
              on_deck_preview_update_app, device
<1>4. CASE ImageNext
  BY <1>1, <1>2, <1>3, <1>4 DEF ImageNext, deck_plugin_set_state, process_plugin_exec, device
<1>5. CASE UNCHANGED imageVars
  BY <1>1, <1>5 DEF imageVars, device
<1> QED BY <1>4, <1>5

LEMMA TransferInit == ImageInit => TransferInv
<1> SUFFICES ASSUME ImageInit PROVE EmissionInv /\ PageInv /\ NoTornImage
  BY TypeInit DEF TransferInv
<1>1. \A t \in Drawers : IsAt(t, "idle")
  BY DEF ImageInit, IsAt
<1>2. EmissionInv
  BY <1>1 DEF EmissionInv, Owns, Emitting, IsAt, ImageInit
<1>3. PageInv
  BY <1>1 DEF PageInv, IsAt
<1>4. NoTornImage
  BY DEF NoTornImage, Torn, ImageInit
<1> QED BY <1>2, <1>3, <1>4

LEMMA TransferStep == TransferInv /\ [ImageNext]_imageVars => TransferInv'
BY TypeStep, EmissionStep, PageStep, WholeStep DEF TransferInv

THEOREM TransferCorrect == ImageSpec => []TransferInv
BY TransferInit, TransferStep, PTL DEF ImageSpec

\* The device shows whole images only, however many threads draw and write.
THEOREM NeverTorn == ImageSpec => []NoTornImage
<1>1. TransferInv => NoTornImage
  BY DEF TransferInv
<1> QED BY <1>1, TransferCorrect, PTL

----------------------------------------------------------------------------
(* QuietFollowsSurface: a picture stored during an emission restarts it.    *)

LEMMA FollowStep == TransferInv /\ FollowInv /\ [ImageNext]_imageVars => FollowInv'
<1> SUFFICES ASSUME TransferInv, FollowInv, [ImageNext]_imageVars PROVE FollowInv'
  OBVIOUS
<1>0. ImageTypeOK /\ EmissionInv
  BY DEF TransferInv
\* A button nothing happens to.
<1>1. ASSUME NEW k \in Keys, emission'[k] = emission[k], surface'[k] = surface[k],
             shown'[k] = shown[k], app'[k] = app[k], unsent'[k] = unsent[k],
             \A u \in Drawers : th'[u].key = k /\ th'[u].pc \notin {"idle", "draw"}
                                  => th'[u] = th[u],
             \A u \in Drawers : th[u].key = k /\ IsAt(u, "notify") => th'[u] = th[u]
      PROVE  Pending(k)' \/ Follows(k)'
  <2>1. Pending(k) => Pending(k)'
    BY <1>1 DEF Pending, IsAt
  <2>2. CASE Follows(k)
    BY <1>1, <2>2 DEF Follows, OnDevice, IsAt
  <2> QED BY <2>1, <2>2 DEF FollowInv
<1>2. ASSUME NEW t \in Drawers, NEW k \in Keys, IsAt(t, "idle"),
             UNCHANGED <<emission, surface, shown, app, unsent>>,
             th' = [th EXCEPT ![t].pc = "draw", ![t].key = k]
      PROVE  FollowInv'
  <2>1. \A u \in Drawers : th'[u] = th[u] \/ (th'[u].pc = "draw" /\ th[u].pc = "idle")
    BY <1>0, <1>2, OthersStayIdle DEF IsAt
  <2> QED BY <1>1, <1>2, <2>1 DEF FollowInv, IsAt
<1>3. ASSUME NEW k \in Keys, deck_plugin_set_state(k) PROVE FollowInv'
  BY <1>2, <1>3 DEF deck_plugin_set_state, Drawers, device
<1>4. ASSUME NEW t \in PoolThreads, NEW k \in Keys, process_plugin_exec(t, k) PROVE FollowInv'
  BY <1>2, <1>4 DEF process_plugin_exec, Drawers, device
<1>5. ASSUME NEW t \in Drawers, Step(t) PROVE FollowInv'
  <2>00. PICK j : j = th[t].key
    OBVIOUS
  <2>0. /\ \A u \in Drawers : u # t => th'[u] = th[u]
        /\ th'[t].key = j /\ j \in Keys /\ th[t].key = j
        /\ t \in DOMAIN th /\ th[t] \in Locals
        /\ DOMAIN emission = Keys /\ DOMAIN surface = Keys /\ DOMAIN shown = Keys
        /\ DOMAIN app = Keys /\ DOMAIN unsent = Keys
    BY <1>0, <1>5, <2>00, OthersStay DEF ImageTypeOK, Locals
  \* Other buttons are left alone.
  <2>1. ASSUME Pending(j)' \/ Follows(j)',
               \A k \in Keys : k # j =>
                 /\ emission'[k] = emission[k] /\ surface'[k] = surface[k]
                 /\ shown'[k] = shown[k] /\ app'[k] = app[k] /\ unsent'[k] = unsent[k]
        PROVE  FollowInv'
    <3>1. ASSUME NEW k \in Keys, k # j PROVE Pending(k)' \/ Follows(k)'
      <4>1. \A u \in Drawers : th'[u].key = k \/ th[u].key = k => th'[u] = th[u]
        BY <2>0, <3>1
      <4> QED BY <1>1, <2>1, <3>1, <4>1
    <3>2. \A k \in Keys : Pending(k)' \/ Follows(k)'
      <4> QED BY <2>1, <3>1
    <3> QED BY <3>2 DEF FollowInv
  \* A thread in the emission of j is alone there.
  <2>2. ASSUME Owns(t, j), NEW u \in Drawers, u # t
        PROVE  ~Owns(u, j) /\ ~Owns(u, j)'
    <3>1. ~Owns(u, j)
      BY <1>0, <2>0, <2>2 DEF EmissionInv
    <3> QED BY <2>0, <2>2, <3>1 DEF Owns
  <2>3. CASE deck_plugin_set_current_state(t)
    <3>1. th'[t].pc = "store" /\ th[t].pc = "draw"
      BY <2>0, <2>3 DEF deck_plugin_set_current_state, IsAt, Locals
    <3>2. UNCHANGED <<emission, surface, shown, app, unsent>>
      BY <2>3 DEF deck_plugin_set_current_state, device
    <3>3. Pending(j) => Pending(j)'
      BY <2>0, <3>1, <3>2 DEF Pending, IsAt
    <3>4. Follows(j) => Follows(j)'
      BY <2>0, <3>1, <3>2 DEF Follows, OnDevice, IsAt
    <3> QED BY <2>0, <2>1, <3>2, <3>3, <3>4 DEF FollowInv
  <2>4. CASE deck_plugin_set_property(t)
    <3>1. th'[t].pc = "notify" /\ Pending(j)'
      BY <2>0, <2>4 DEF deck_plugin_set_property, Move, Locals, Pending, IsAt
    <3>2. \A k \in Keys : k # j => surface'[k] = surface[k]
      BY <2>0, <2>4 DEF deck_plugin_set_property
    <3>3. UNCHANGED <<emission, shown, app, unsent>>
      BY <2>4 DEF deck_plugin_set_property, device
    <3> QED BY <2>1, <3>1, <3>2, <3>3
  <2>5. CASE g_object_notify(t)
    <3>1. UNCHANGED <<surface, shown, app, unsent>>
      BY <2>0, <2>5 DEF g_object_notify, device
    <3>2. CASE emission[j] = "none"
      <4>1. th'[t].pc = "device" /\ emission' = [emission EXCEPT ![j] = "run"]
        BY <2>0, <2>5, <3>2 DEF g_object_notify, Move, Locals
      <4>2. \A u \in Drawers : ~Owns(u, j)
        BY <1>0, <2>0, <3>2 DEF EmissionInv
      <4>3. \A u \in Drawers : u # t => ~Owns(u, j)'
        BY <2>0, <4>2 DEF Owns
      <4>4. Follows(j)'
        BY <2>0, <4>1, <4>3 DEF Follows, Owns, Emitting, IsAt
      <4>5. \A k \in Keys : k # j => emission'[k] = emission[k]
        BY <2>0, <4>1
      <4> QED BY <2>1, <3>1, <4>4, <4>5
    <3>3. CASE emission[j] # "none"
      <4>1. emission' = [emission EXCEPT ![j] = "restart"]
        BY <2>0, <2>5, <3>3 DEF g_object_notify
      <4>2. Pending(j)' /\ \A k \in Keys : k # j => emission'[k] = emission[k]
        BY <2>0, <4>1 DEF Pending
      <4> QED BY <2>1, <3>1, <4>2
    <3> QED BY <3>2, <3>3
  \* A handler returns and the emission starts again.
  <2>6. ASSUME Owns(t, j), th'[t].pc = "device", emission' = [emission EXCEPT ![j] = "run"],
               UNCHANGED <<surface, shown, app, unsent>>
        PROVE  FollowInv'
    <3>1. Follows(j)'
      BY <2>0, <2>2, <2>6 DEF Follows, Owns, Emitting, IsAt
    <3>2. \A k \in Keys : k # j => emission'[k] = emission[k]
      BY <2>0, <2>6
    <3> QED BY <2>1, <2>6, <3>1, <3>2
  <2>7. CASE EmissionContinues(t)
    <3>1. th[t].pc = "sent" /\ Owns(t, j) /\ UNCHANGED <<surface, shown, app, unsent>>
      BY <2>0, <2>7 DEF EmissionContinues, HandlerReturns, IsAt, Owns, Emitting, device
    <3>2. CASE emission[j] = "restart"
      <4>1. th'[t].pc = "device" /\ emission' = [emission EXCEPT ![j] = "run"]
        BY <2>0, <2>7, <3>2 DEF EmissionContinues, HandlerReturns, Move, Locals
      <4> QED BY <2>6, <3>1, <4>1
    <3>3. CASE emission[j] # "restart"
      <4>1. th'[t].pc = "app" /\ emission' = [emission EXCEPT ![j] = "run"]
        BY <2>0, <2>7, <3>3 DEF EmissionContinues, HandlerReturns, Move, Locals
      <4>2. \A k \in Keys : k # j => emission'[k] = emission[k]
        BY <2>0, <4>1
      <4>3. Pending(j) => Pending(j)'
        BY <2>0, <3>1, <3>3, <4>1 DEF Pending, IsAt
      <4>4. Follows(j) => Follows(j)'
        BY <2>0, <2>2, <3>1, <4>1 DEF Follows, OnDevice, Owns, Emitting, IsAt
      <4> QED BY <2>0, <2>1, <3>1, <4>2, <4>3, <4>4 DEF FollowInv
    <3> QED BY <3>2, <3>3
  <2>8. CASE EmissionEnds(t)
    <3>1. th[t].pc = "end" /\ Owns(t, j) /\ UNCHANGED <<surface, shown, app, unsent>>
      BY <2>0, <2>8 DEF EmissionEnds, HandlerReturns, IsAt, Owns, Emitting, device
    <3>2. CASE emission[j] = "restart"
      <4>1. th'[t].pc = "device" /\ emission' = [emission EXCEPT ![j] = "run"]
        BY <2>0, <2>8, <3>2 DEF EmissionEnds, HandlerReturns, Move, Locals
      <4> QED BY <2>6, <3>1, <4>1
    <3>3. CASE emission[j] # "restart"
      <4>1. th'[t].pc = "idle" /\ emission' = [emission EXCEPT ![j] = "none"]
        BY <2>0, <2>8, <3>3 DEF EmissionEnds, HandlerReturns, Move, Locals
      <4>2. \A k \in Keys : k # j => emission'[k] = emission[k]
        BY <2>0, <4>1
      <4>3. Pending(j) => Pending(j)'
        BY <2>0, <3>1, <3>3, <4>1 DEF Pending, IsAt
      <4>4. Follows(j) => Follows(j)'
        BY <2>0, <2>2, <3>1, <4>1 DEF Follows, OnDevice, Owns, Emitting, IsAt
      <4> QED BY <2>0, <2>1, <3>1, <4>2, <4>3, <4>4 DEF FollowInv
    <3> QED BY <3>2, <3>3
  <2>9. CASE on_deck_preview_update_device(t)
    <3>1. /\ th[t].pc = "device" /\ Owns(t, j) /\ UNCHANGED <<emission, surface, shown, app>>
      BY <2>0, <2>9 DEF on_deck_preview_update_device, IsAt, Owns, Emitting, device
    <3>2. /\ \/ th'[t].pc = "page" /\ th'[t].image = surface[j] /\ ~unsent'[j]
             \/ th'[t].pc = "sent" /\ unsent'[j]
          /\ \A k \in Keys : k # j => unsent'[k] = unsent[k]
      <4>1. ASSUME NEW size \in Sizes,
                   th' = [th EXCEPT ![t] = [pc |-> "page", key |-> j, image |-> surface[j],
                                            size |-> size, page |-> 0, remaining |-> size]]
            PROVE  th'[t].pc = "page" /\ th'[t].image = surface[j]
        BY <2>0, <4>1
      <4>2. ASSUME Move(t, "sent") PROVE th'[t].pc = "sent"
        BY <2>0, <4>2 DEF Move, Locals
      <4>3. \/ unsent' = [unsent EXCEPT ![j] = FALSE] /\ th'[t].pc = "page"
                 /\ th'[t].image = surface[j]
            \/ unsent' = [unsent EXCEPT ![j] = TRUE] /\ th'[t].pc = "sent"
        BY <2>0, <2>9, <4>1, <4>2 DEF on_deck_preview_update_device
      <4>4. ASSUME NEW b \in BOOLEAN, unsent' = [unsent EXCEPT ![j] = b]
            PROVE  unsent'[j] = b /\ \A k \in Keys : k # j => unsent'[k] = unsent[k]
        BY <2>0, <4>4
      <4>5. CASE unsent' = [unsent EXCEPT ![j] = FALSE] /\ th'[t].pc = "page"
                   /\ th'[t].image = surface[j]
        <5>1. unsent'[j] = FALSE /\ \A k \in Keys : k # j => unsent'[k] = unsent[k]
          BY <4>4, <4>5
        <5>2. ~unsent'[j]
          BY <5>1
        <5>3. th'[t].pc = "page" /\ th'[t].image = surface[j]
          BY <4>5
        <5> QED BY <5>1, <5>2, <5>3, Zenon
      <4>6. CASE unsent' = [unsent EXCEPT ![j] = TRUE] /\ th'[t].pc = "sent"
        BY <4>4, <4>6
      <4> QED BY <4>3, <4>5, <4>6
    <3>3. Pending(j) => Pending(j)'
      BY <2>0, <3>1, <3>2 DEF Pending, IsAt
    <3>4. emission[j] # "none"
      BY <1>0, <2>0, <3>1 DEF EmissionInv
    <3>5. Follows(j)'
      BY <2>0, <2>2, <3>1, <3>2, <3>4 DEF Follows, OnDevice, Owns, Emitting, IsAt
    <3> QED BY <2>1, <3>1, <3>2, <3>5
  <2>10. CASE write_image(t)
    <3> DEFINE l == Shorter(th[t].remaining, Payload)
    <3>1. /\ th[t].pc = "page" /\ Owns(t, j) /\ UNCHANGED <<emission, surface, app, unsent>>
      BY <2>0, <2>10 DEF write_image, IsAt, Owns, Emitting
    <3>2. /\ l \in Nat /\ th[t].remaining \in Nat /\ l <= th[t].remaining
          /\ shown' = IF l = th[t].remaining THEN [shown EXCEPT ![j] = th[t].image] ELSE shown
      BY <2>0, <2>10, WritePage DEF Locals
    <3>3. th' = [th EXCEPT ![t].remaining = th[t].remaining - l, ![t].page = th[t].page + 1,
                           ![t].pc = IF th[t].remaining - l > 0 THEN "page" ELSE "sent"]
      BY <2>0, <2>10 DEF write_image
    <3> HIDE DEF l
    <3>4. /\ th'[t].image = th[t].image
          /\ \/ th'[t].pc = "page"
             \/ th'[t].pc = "sent" /\ shown'[j] = th[t].image
          /\ \A k \in Keys : k # j => shown'[k] = shown[k]
      <4>1. /\ th'[t].image = th[t].image
            /\ th'[t].pc = IF th[t].remaining - l > 0 THEN "page" ELSE "sent"
        BY <2>0, <3>3 DEF Locals
      <4>2. \A k \in Keys : k # j => shown'[k] = shown[k]
        BY <2>0, <3>2
      <4>3. CASE l = th[t].remaining
        <5>1. shown'[j] = th[t].image
          BY <2>0, <3>2, <4>3
        <5> QED BY <3>2, <4>1, <4>2, <4>3, <5>1
      <4>4. CASE l # th[t].remaining
        BY <3>2, <4>1, <4>2, <4>4
      <4> QED BY <4>3, <4>4
    <3>5. Pending(j) => Pending(j)'
      BY <2>0, <3>1, <3>4 DEF Pending, IsAt
    <3>6. emission[j] # "none"
      BY <1>0, <2>0, <3>1 DEF EmissionInv
    <3>7. Follows(j) => Follows(j)'
      BY <2>0, <2>2, <3>1, <3>4, <3>6 DEF Follows, OnDevice, Owns, Emitting, IsAt
    <3> QED BY <2>0, <2>1, <3>1, <3>4, <3>5, <3>7 DEF FollowInv
  <2>11. CASE on_deck_preview_update_app(t)
    <3>1. /\ th[t].pc = "app" /\ Owns(t, j) /\ UNCHANGED <<emission, surface, shown, unsent>>
      BY <2>0, <2>11 DEF on_deck_preview_update_app, IsAt, Owns, Emitting, device
    <3>2. /\ th'[t].pc = "end" /\ app'[j] = surface[j]
          /\ \A k \in Keys : k # j => app'[k] = app[k]
      BY <2>0, <2>11 DEF on_deck_preview_update_app, Move, Locals
    <3>3. Pending(j) => Pending(j)'
      BY <2>0, <3>1, <3>2 DEF Pending, IsAt
    <3>4. Follows(j) => Follows(j)'
      BY <2>0, <2>2, <3>1, <3>2 DEF Follows, OnDevice, Owns, Emitting, IsAt
    <3> QED BY <2>0, <2>1, <3>1, <3>2, <3>3, <3>4 DEF FollowInv
  <2> QED BY <1>5, <2>3, <2>4, <2>5, <2>7, <2>8, <2>9, <2>10, <2>11 DEF Step
<1>6. CASE UNCHANGED imageVars
  BY <1>1, <1>6 DEF imageVars, device, FollowInv
<1> QED BY <1>3, <1>4, <1>5, <1>6 DEF ImageNext

\* When nothing is under way the key and the window show the last picture.
THEOREM QuietIsUpToDate == ImageSpec => []QuietFollowsSurface
<1>1. ImageInit => FollowInv
  BY DEF ImageInit, FollowInv, Follows, OnDevice, IsAt
<1>2. TransferInv /\ FollowInv => QuietFollowsSurface
  <2> SUFFICES ASSUME TransferInv, FollowInv, NEW k \in Keys, Still(k)
               PROVE  app[k] = surface[k] /\ OnDevice(k)
    BY DEF QuietFollowsSurface, OnDevice
  <2>1. \A t \in Drawers : ~Owns(t, k) /\ ~(IsAt(t, "notify") /\ th[t].key = k)
    BY DEF Still, Owns, Emitting, IsAt
  <2>2. emission[k] = "none" /\ ~Pending(k)
    BY <2>1 DEF TransferInv, EmissionInv, Pending
  <2> QED BY <2>2 DEF FollowInv, Follows
<1> QED BY <1>1, <1>2, FollowStep, TransferCorrect, PTL DEF ImageSpec

----------------------------------------------------------------------------
(* ToggleShowsState: one thread draws a toggle, after it stored its state.  *)

LEMMA DrawStep == ImageTypeOK /\ DrawInv /\ [ImageNext]_imageVars => DrawInv'
<1> SUFFICES ASSUME ImageTypeOK, DrawInv, [ImageNext]_imageVars, NEW i \in Keys \ NormalKeys
             PROVE  DrawnByMain(i)'
  BY DEF DrawInv
<1>00. DrawnByMain(i)
  BY DEF DrawInv
<1>0. MainThread \in Drawers /\ MainThread \notin PoolThreads /\ PoolThreads \subseteq Drawers
  BY KeyImageAssumption DEF Drawers
<1>1. ASSUME NEW k \in Keys, deck_plugin_set_state(k) PROVE DrawnByMain(i)'
  <2>1. /\ IsAt(MainThread, "idle") /\ surface' = surface /\ look' = [look EXCEPT ![k] = NewLook]
        /\ th' = [th EXCEPT ![MainThread].pc = "draw", ![MainThread].key = k]
    BY <1>1 DEF deck_plugin_set_state
  <2>2. /\ \A u \in Drawers : u # MainThread => th'[u] = th[u]
        /\ th'[MainThread].pc = "draw" /\ th'[MainThread].key = k
    BY <1>0, <2>1, OthersStayIdle
  <2>3. \A j \in Keys : j # k => look'[j] = look[j]
    BY <2>1 DEF ImageTypeOK
  <2> QED BY <1>00, <1>0, <2>1, <2>2, <2>3 DEF DrawnByMain, IsAt
<1>2. ASSUME NEW t \in PoolThreads, NEW k \in Keys, process_plugin_exec(t, k) PROVE DrawnByMain(i)'
  <2>1. /\ IsAt(t, "idle") /\ surface' = surface /\ k \in NormalKeys
        /\ look' = look \/ look' = [look EXCEPT ![k] = NewLook]
        /\ th' = [th EXCEPT ![t].pc = "draw", ![t].key = k]
    BY <1>2 DEF process_plugin_exec
  <2>2. /\ \A u \in Drawers : u # t => th'[u] = th[u]
        /\ th'[t].pc = "draw" /\ th'[t].key = k
    BY <1>0, <2>1, OthersStayIdle
  <2>3. look'[i] = look[i]
    BY <2>1 DEF ImageTypeOK
  <2> QED BY <1>00, <1>0, <2>1, <2>2, <2>3 DEF DrawnByMain, IsAt
<1>3. ASSUME NEW t \in Drawers, Step(t) PROVE DrawnByMain(i)'
  <2>00. PICK j : j = th[t].key
    OBVIOUS
  <2>0. /\ \A u \in Drawers : u # t => th'[u] = th[u]
        /\ th'[t].key = j /\ j \in Keys /\ th[t].key = j
        /\ t \in DOMAIN th /\ th[t] \in Locals /\ DOMAIN surface = Keys
    BY <1>3, <2>00, OthersStay DEF ImageTypeOK, Locals
  <2>1. look' = look /\ th[t].pc # "idle"
    BY <1>3 DEF Step, deck_plugin_set_current_state, deck_plugin_set_property, g_object_notify,
                EmissionContinues, EmissionEnds, HandlerReturns, on_deck_preview_update_device,
                write_image, on_deck_preview_update_app, IsAt
  \* The thread is main if the button is a toggle.
  <2>2. j = i => t = MainThread
    BY <1>00, <1>0, <2>0, <2>1 DEF DrawnByMain, Drawers, IsAt
  <2>3. CASE deck_plugin_set_current_state(t)
    <3>1. /\ th[t].pc = "draw" /\ th'[t].pc = "store" /\ th'[t].image = look[j]
          /\ surface' = surface
      BY <2>0, <2>3 DEF deck_plugin_set_current_state, IsAt, Locals
    <3> QED BY <1>00, <1>0, <2>0, <2>1, <2>2, <3>1 DEF DrawnByMain, IsAt, Drawers
  <2>4. CASE deck_plugin_set_property(t)
    <3>1. /\ th[t].pc = "store" /\ th'[t].pc = "notify" /\ surface'[j] = th[t].image
          /\ \A k \in Keys : k # j => surface'[k] = surface[k]
      BY <2>0, <2>4 DEF deck_plugin_set_property, IsAt, Move, Locals
    <3> QED BY <1>00, <1>0, <2>0, <2>1, <2>2, <3>1 DEF DrawnByMain, IsAt, Drawers
  <2>5. ASSUME surface' = surface, th[t].pc \notin {"draw", "store"}, th'[t].pc # "store" PROVE DrawnByMain(i)'
    BY <1>00, <1>0, <2>0, <2>1, <2>2, <2>5 DEF DrawnByMain, IsAt, Drawers
  <2>6. CASE ~deck_plugin_set_current_state(t) /\ ~deck_plugin_set_property(t)
    <3>1. surface' = surface /\ th[t].pc \notin {"draw", "store"}
      BY <1>3, <2>6 DEF Step, g_object_notify, EmissionContinues, EmissionEnds, HandlerReturns,
                  on_deck_preview_update_device, write_image, on_deck_preview_update_app, IsAt
    <3>2. th'[t].pc # "store"
      <4>1. CASE g_object_notify(t) \/ EmissionContinues(t) \/ EmissionEnds(t)
                 \/ on_deck_preview_update_app(t)
        BY <2>0, <4>1 DEF g_object_notify, EmissionContinues, EmissionEnds, HandlerReturns,
                          on_deck_preview_update_app, Move, Locals
      <4>2. CASE on_deck_preview_update_device(t)
        BY <2>0, <4>2 DEF on_deck_preview_update_device, Move, Locals
      <4>3. CASE write_image(t)
        BY <2>0, <4>3 DEF write_image, Locals
      <4> QED BY <1>3, <2>6, <4>1, <4>2, <4>3 DEF Step
    <3> QED BY <2>5, <3>1, <3>2
  <2> QED BY <2>3, <2>4, <2>6
<1>4. CASE UNCHANGED imageVars
  BY <1>00, <1>4 DEF imageVars, DrawnByMain, IsAt
<1> QED BY <1>1, <1>2, <1>3, <1>4 DEF ImageNext

\* A toggle ends up on its key as it is.
THEOREM ToggleUpToDate == ImageSpec => []ToggleShowsState
<1>1. ImageInit => DrawInv
  BY DEF ImageInit, DrawInv, DrawnByMain, IsAt, Drawers
<1>2. DrawInv => ToggleShowsState
  BY DEF DrawInv, DrawnByMain, ToggleShowsState, Still, IsAt, Drawers
<1> QED BY <1>1, <1>2, DrawStep, TypeCorrect, PTL DEF ImageSpec

=============================================================================
