--------------------------- MODULE CountdownProofs ---------------------------
(***************************************************************************)
(* Theorems about the countdown button for every number of threads, every  *)
(* set of durations and labels, and any number of presses, edits and       *)
(* restarts.                                                               *)
(***************************************************************************)
EXTENDS Countdown, TLAPS

(***************************************************************************)
(* The inductive invariants.  What the main loop counts down from is no    *)
(* more than a duration; the rest holds until two functions run at once.   *)
(***************************************************************************)
TickInv == \E d \in Durations : tick.left <= d

\* The timers at each place of a press, and in the main loop.
Stopped  == {"restore", "reset", "keep", "show", "start"}
TimerInv == ~overlapped =>
    /\ \A t, u \in Pool : press[t] # "idle" /\ press[u] # "idle" => t = u
    /\ \A t \in Pool : press[t] # "idle" => MainFree /\ alive
    /\ ~MainFree => tick.id = timer_id /\ alive
    /\ PoolFree => sources = IF alive THEN {timer_id} \ {0} ELSE {}
    /\ \A t \in Pool :
         /\ press[t] = "remove" => sources = {timer_id} \ {0}
         /\ press[t] = "clear" => sources = {}
         /\ press[t] \in Stopped => timer_id = 0 /\ sources = {}

\* A label that counts as the user's, and where it is kept meanwhile.
IsName(l) == l = name \/ (name = NoLabel /\ l = Empty)
LabelInv == ~overlapped /\ ~disturbed /\ alive =>
    /\ \A t \in Pool :
         /\ press[t] \in {"remove", "clear", "restore"} => running /\ IsName(original_label)
         /\ press[t] \in {"reset", "keep"} => ~running /\ IsName(label)
         /\ press[t] \in {"show", "start"} => ~running /\ IsName(original_label)
    /\ PoolFree =>
         /\ running <=> timer_id # 0
         /\ tick.pc = "forget" => IsName(label)
         /\ tick.pc # "forget" => IF running THEN IsName(original_label) ELSE IsName(label)
    /\ ~MainFree => running

-----------------------------------------------------------------------------
(***************************************************************************)
(* Types, in the groups that an action changes together.                   *)
(***************************************************************************)
CountIsTyped  == /\ alive \in BOOLEAN /\ duration \in Durations
                 /\ remaining \in Nat /\ \E d \in Durations : remaining <= d
TimersAreTyped == timer_id \in 0 .. ids /\ ids \in Nat /\ sources \subseteq 1 .. ids
LabelsAreTyped == original_label \in Labels /\ label \in Labels /\ name \in Labels
PlacesAreTyped ==
    /\ tick \in [pc : {"idle", "count", "show", "label", "forget"}, id : Nat, left : Nat]
    /\ tick.pc = "count" => tick.left > 0
    /\ \E d \in Durations : tick.left <= d
    /\ press \in [Pool -> {"idle", "remove", "clear", "restore", "reset", "keep", "show",
                              "start"}]
BoundsAreTyped ==
    /\ running \in BOOLEAN /\ overlapped \in BOOLEAN /\ disturbed \in BOOLEAN
    /\ presses \in 0 .. PressBound /\ edits \in 0 .. EditBound /\ starts \in 0 .. StartBound

Typed == /\ CountIsTyped /\ TimersAreTyped /\ LabelsAreTyped /\ PlacesAreTyped
         /\ BoundsAreTyped

LEMMA TypedIs == Typed <=> CountdownTypeOK /\ TickInv
  BY DEF Typed, CountIsTyped, TimersAreTyped, LabelsAreTyped, PlacesAreTyped, BoundsAreTyped,
         CountdownTypeOK, TickInv

LEMMA DurationsAreNat == \A d \in Durations : d \in Nat /\ d > 0
  BY CountdownAssumption

LEMMA TypeStep ==
    ASSUME Typed, [CountdownNext]_countdownVars
    PROVE  Typed'
<1> USE CountdownAssumption, DurationsAreNat
        DEF Typed, countdownData, countdownHistory, bounds
<1>1. ASSUME NEW t \in Pool, countdown_exec(t)
      PROVE  Typed'
  <2>1. CountIsTyped'
    BY <1>1 DEF countdown_exec, At, Goto, CountIsTyped
  <2>2. TimersAreTyped'
    BY <1>1 DEF countdown_exec, At, Goto, TimersAreTyped
  <2>3. LabelsAreTyped'
    BY <1>1 DEF countdown_exec, At, Goto, LabelsAreTyped, CountIsTyped, TimersAreTyped, Labels
  <2>4. PlacesAreTyped'
    BY <1>1 DEF countdown_exec, At, Goto, PlacesAreTyped, CountIsTyped, TimersAreTyped
  <2>5. BoundsAreTyped'
    BY <1>1 DEF countdown_exec, At, Goto, BoundsAreTyped
  <2> QED  BY <2>1, <2>2, <2>3, <2>4, <2>5
<1>2. ASSUME NEW t \in Pool, RemoveTimer(t)
      PROVE  Typed'
  <2>1. CountIsTyped'
    BY <1>2 DEF RemoveTimer, At, Goto, CountIsTyped
  <2>2. TimersAreTyped'
    BY <1>2 DEF RemoveTimer, At, Goto, TimersAreTyped
  <2>3. LabelsAreTyped'
    BY <1>2 DEF RemoveTimer, At, Goto, LabelsAreTyped, CountIsTyped, TimersAreTyped, Labels
  <2>4. PlacesAreTyped'
    BY <1>2 DEF RemoveTimer, At, Goto, PlacesAreTyped, CountIsTyped, TimersAreTyped
  <2>5. BoundsAreTyped'
    BY <1>2 DEF RemoveTimer, At, Goto, BoundsAreTyped
  <2> QED  BY <2>1, <2>2, <2>3, <2>4, <2>5
<1>3. ASSUME NEW t \in Pool, ClearTimer(t)
      PROVE  Typed'
  <2>1. CountIsTyped'
    BY <1>3 DEF ClearTimer, At, Goto, CountIsTyped
  <2>2. TimersAreTyped'
    BY <1>3 DEF ClearTimer, At, Goto, TimersAreTyped
  <2>3. LabelsAreTyped'
    BY <1>3 DEF ClearTimer, At, Goto, LabelsAreTyped, CountIsTyped, TimersAreTyped, Labels
  <2>4. PlacesAreTyped'
    BY <1>3 DEF ClearTimer, At, Goto, PlacesAreTyped, CountIsTyped, TimersAreTyped
  <2>5. BoundsAreTyped'
    BY <1>3 DEF ClearTimer, At, Goto, BoundsAreTyped
  <2> QED  BY <2>1, <2>2, <2>3, <2>4, <2>5
<1>4. ASSUME NEW t \in Pool, RestoreLabel(t)
      PROVE  Typed'
  <2>1. CountIsTyped'
    BY <1>4 DEF RestoreLabel, At, Goto, CountIsTyped
  <2>2. TimersAreTyped'
    BY <1>4 DEF RestoreLabel, At, Goto, TimersAreTyped
  <2>3. LabelsAreTyped'
    BY <1>4 DEF RestoreLabel, At, Goto, LabelsAreTyped, CountIsTyped, TimersAreTyped, Labels
  <2>4. PlacesAreTyped'
    BY <1>4 DEF RestoreLabel, At, Goto, PlacesAreTyped, CountIsTyped, TimersAreTyped
  <2>5. BoundsAreTyped'
    BY <1>4 DEF RestoreLabel, At, Goto, BoundsAreTyped
  <2> QED  BY <2>1, <2>2, <2>3, <2>4, <2>5
<1>5. ASSUME NEW t \in Pool, ResetRemaining(t)
      PROVE  Typed'
  <2>1. CountIsTyped'
    BY <1>5 DEF ResetRemaining, At, Goto, CountIsTyped
  <2>2. TimersAreTyped'
    BY <1>5 DEF ResetRemaining, At, Goto, TimersAreTyped
  <2>3. LabelsAreTyped'
    BY <1>5 DEF ResetRemaining, At, Goto, LabelsAreTyped, CountIsTyped, TimersAreTyped, Labels
  <2>4. PlacesAreTyped'
    BY <1>5 DEF ResetRemaining, At, Goto, PlacesAreTyped, CountIsTyped, TimersAreTyped
  <2>5. BoundsAreTyped'
    BY <1>5 DEF ResetRemaining, At, Goto, BoundsAreTyped
  <2> QED  BY <2>1, <2>2, <2>3, <2>4, <2>5
<1>6. ASSUME NEW t \in Pool, KeepLabel(t)
      PROVE  Typed'
  <2>1. CountIsTyped'
    BY <1>6 DEF KeepLabel, At, Goto, CountIsTyped
  <2>2. TimersAreTyped'
    BY <1>6 DEF KeepLabel, At, Goto, TimersAreTyped
  <2>3. LabelsAreTyped'
    BY <1>6 DEF KeepLabel, At, Goto, LabelsAreTyped, CountIsTyped, TimersAreTyped, Labels
  <2>4. PlacesAreTyped'
    BY <1>6 DEF KeepLabel, At, Goto, PlacesAreTyped, CountIsTyped, TimersAreTyped
  <2>5. BoundsAreTyped'
    BY <1>6 DEF KeepLabel, At, Goto, BoundsAreTyped
  <2> QED  BY <2>1, <2>2, <2>3, <2>4, <2>5
<1>7. ASSUME NEW t \in Pool, ShowTime(t)
      PROVE  Typed'
  <2>1. CountIsTyped'
    BY <1>7 DEF ShowTime, At, Goto, CountIsTyped
  <2>2. TimersAreTyped'
    BY <1>7 DEF ShowTime, At, Goto, TimersAreTyped
  <2>3. LabelsAreTyped'
    BY <1>7 DEF ShowTime, At, Goto, LabelsAreTyped, CountIsTyped, TimersAreTyped, Labels
  <2>4. PlacesAreTyped'
    BY <1>7 DEF ShowTime, At, Goto, PlacesAreTyped, CountIsTyped, TimersAreTyped
  <2>5. BoundsAreTyped'
    BY <1>7 DEF ShowTime, At, Goto, BoundsAreTyped
  <2> QED  BY <2>1, <2>2, <2>3, <2>4, <2>5
<1>8. ASSUME NEW t \in Pool, StartTimer(t)
      PROVE  Typed'
  <2>1. CountIsTyped'
    BY <1>8 DEF StartTimer, At, Goto, CountIsTyped
  <2>2. TimersAreTyped'
    BY <1>8 DEF StartTimer, At, Goto, TimersAreTyped
  <2>3. LabelsAreTyped'
    BY <1>8 DEF StartTimer, At, Goto, LabelsAreTyped, CountIsTyped, TimersAreTyped, Labels
  <2>4. PlacesAreTyped'
    BY <1>8 DEF StartTimer, At, Goto, PlacesAreTyped, CountIsTyped, TimersAreTyped
  <2>5. BoundsAreTyped'
    BY <1>8 DEF StartTimer, At, Goto, BoundsAreTyped
  <2> QED  BY <2>1, <2>2, <2>3, <2>4, <2>5
<1>9. CASE countdown_tick
  <2>1. CountIsTyped'
    BY <1>9 DEF countdown_tick, CountIsTyped
  <2>2. TimersAreTyped'
    BY <1>9 DEF countdown_tick, TimersAreTyped
  <2>3. LabelsAreTyped'
    BY <1>9 DEF countdown_tick, LabelsAreTyped, CountIsTyped, TimersAreTyped, Labels
  <2>4. PlacesAreTyped'
    BY <1>9 DEF countdown_tick, PlacesAreTyped, CountIsTyped, TimersAreTyped
  <2>5. BoundsAreTyped'
    BY <1>9 DEF countdown_tick, BoundsAreTyped
  <2> QED  BY <2>1, <2>2, <2>3, <2>4, <2>5
<1>10. CASE CountDown
  <2>1. CountIsTyped'
    <3>1. \E d \in Durations : remaining <= d
      BY DEF CountIsTyped
    <3>2. \E d \in Durations : tick.left <= d
      BY DEF PlacesAreTyped
    <3>3. remaining' \in Nat /\ (remaining' <= tick.left \/ remaining' <= remaining)
      BY <1>10 DEF CountDown, CountIsTyped, PlacesAreTyped
    <3>4. \E d \in Durations : remaining' <= d
      <4>1. PICK d \in Durations : remaining <= d
        BY <3>1
      <4>2. PICK e \in Durations : tick.left <= e
        BY <3>2
      <4>3. d \in Nat /\ e \in Nat /\ remaining \in Nat /\ tick.left \in Nat
        BY DEF CountIsTyped, PlacesAreTyped
      <4>4. remaining' <= d \/ remaining' <= e
        BY ONLY <3>3, <4>1, <4>2, <4>3
      <4> QED  BY ONLY <4>4
    <3> QED  BY <1>10, <3>3, <3>4 DEF CountDown, CountIsTyped
  <2>2. TimersAreTyped'
    BY <1>10 DEF CountDown, TimersAreTyped
  <2>3. LabelsAreTyped'
    BY <1>10 DEF CountDown, LabelsAreTyped, CountIsTyped, TimersAreTyped, Labels
  <2>4. PlacesAreTyped'
    BY <1>10 DEF CountDown, PlacesAreTyped, CountIsTyped, TimersAreTyped
  <2>5. BoundsAreTyped'
    BY <1>10 DEF CountDown, BoundsAreTyped
  <2> QED  BY <2>1, <2>2, <2>3, <2>4, <2>5
<1>11. CASE ShowLeft
  <2>1. CountIsTyped'
    BY <1>11 DEF ShowLeft, CountIsTyped
  <2>2. TimersAreTyped'
    BY <1>11 DEF ShowLeft, TimersAreTyped
  <2>3. LabelsAreTyped'
    BY <1>11 DEF ShowLeft, LabelsAreTyped, CountIsTyped, TimersAreTyped, Labels
  <2>4. PlacesAreTyped'
    BY <1>11 DEF ShowLeft, PlacesAreTyped, CountIsTyped, TimersAreTyped
  <2>5. BoundsAreTyped'
    BY <1>11 DEF ShowLeft, BoundsAreTyped
  <2> QED  BY <2>1, <2>2, <2>3, <2>4, <2>5
<1>12. CASE EndLabel
  <2>1. CountIsTyped'
    BY <1>12 DEF EndLabel, CountIsTyped
  <2>2. TimersAreTyped'
    BY <1>12 DEF EndLabel, TimersAreTyped
  <2>3. LabelsAreTyped'
    BY <1>12 DEF EndLabel, LabelsAreTyped, CountIsTyped, TimersAreTyped, Labels
  <2>4. PlacesAreTyped'
    BY <1>12 DEF EndLabel, PlacesAreTyped, CountIsTyped, TimersAreTyped
  <2>5. BoundsAreTyped'
    BY <1>12 DEF EndLabel, BoundsAreTyped
  <2> QED  BY <2>1, <2>2, <2>3, <2>4, <2>5
<1>13. CASE EndTimer
  <2>1. CountIsTyped'
    BY <1>13 DEF EndTimer, CountIsTyped
  <2>2. TimersAreTyped'
    BY <1>13 DEF EndTimer, TimersAreTyped
  <2>3. LabelsAreTyped'
    BY <1>13 DEF EndTimer, LabelsAreTyped, CountIsTyped, TimersAreTyped, Labels
  <2>4. PlacesAreTyped'
    BY <1>13 DEF EndTimer, PlacesAreTyped, CountIsTyped, TimersAreTyped
  <2>5. BoundsAreTyped'
    BY <1>13 DEF EndTimer, BoundsAreTyped
  <2> QED  BY <2>1, <2>2, <2>3, <2>4, <2>5
<1>14. CASE on_duration_changed
  <2>1. CountIsTyped'
    BY <1>14 DEF on_duration_changed, CountIsTyped
  <2>2. TimersAreTyped'
    BY <1>14 DEF on_duration_changed, TimersAreTyped
  <2>3. LabelsAreTyped'
    BY <1>14 DEF on_duration_changed, LabelsAreTyped, CountIsTyped, TimersAreTyped, Labels
  <2>4. PlacesAreTyped'
    BY <1>14 DEF on_duration_changed, PlacesAreTyped, CountIsTyped, TimersAreTyped
  <2>5. BoundsAreTyped'
    BY <1>14 DEF on_duration_changed, BoundsAreTyped
  <2> QED  BY <2>1, <2>2, <2>3, <2>4, <2>5
<1>15. CASE label_text_changed
  <2>1. CountIsTyped'
    BY <1>15 DEF label_text_changed, CountIsTyped
  <2>2. TimersAreTyped'
    BY <1>15 DEF label_text_changed, TimersAreTyped
  <2>3. LabelsAreTyped'
    BY <1>15 DEF label_text_changed, LabelsAreTyped, CountIsTyped, TimersAreTyped, Labels
  <2>4. PlacesAreTyped'
    BY <1>15 DEF label_text_changed, PlacesAreTyped, CountIsTyped, TimersAreTyped
  <2>5. BoundsAreTyped'
    BY <1>15 DEF label_text_changed, BoundsAreTyped
  <2> QED  BY <2>1, <2>2, <2>3, <2>4, <2>5
<1>16. CASE countdown_data_free
  <2>1. CountIsTyped'
    BY <1>16 DEF countdown_data_free, CountIsTyped
  <2>2. TimersAreTyped'
    BY <1>16 DEF countdown_data_free, TimersAreTyped
  <2>3. LabelsAreTyped'
    BY <1>16 DEF countdown_data_free, LabelsAreTyped, CountIsTyped, TimersAreTyped, Labels
  <2>4. PlacesAreTyped'
    BY <1>16 DEF countdown_data_free, PlacesAreTyped, CountIsTyped, TimersAreTyped
  <2>5. BoundsAreTyped'
    BY <1>16 DEF countdown_data_free, BoundsAreTyped
  <2> QED  BY <2>1, <2>2, <2>3, <2>4, <2>5
<1>17. CASE countdown_save_load
  <2>1. CountIsTyped'
    BY <1>17 DEF countdown_save_load, CountIsTyped
  <2>2. TimersAreTyped'
    BY <1>17 DEF countdown_save_load, TimersAreTyped
  <2>3. LabelsAreTyped'
    BY <1>17 DEF countdown_save_load, LabelsAreTyped, CountIsTyped, TimersAreTyped, Labels
  <2>4. PlacesAreTyped'
    BY <1>17 DEF countdown_save_load, PlacesAreTyped, CountIsTyped, TimersAreTyped
  <2>5. BoundsAreTyped'
    <3>1. starts' \in 0 .. StartBound
      BY <1>17 DEF countdown_save_load, BoundsAreTyped
    <3>2. running' \in BOOLEAN /\ disturbed' \in BOOLEAN
      BY <1>17, Zenon DEF countdown_save_load, BoundsAreTyped
    <3>3. /\ overlapped' \in BOOLEAN
          /\ presses' \in 0 .. PressBound /\ edits' \in 0 .. EditBound
      BY <1>17 DEF countdown_save_load, BoundsAreTyped
    <3> QED  BY <3>1, <3>2, <3>3 DEF BoundsAreTyped
  <2> QED  BY <2>1, <2>2, <2>3, <2>4, <2>5
<1>18. CASE UNCHANGED countdownVars
  <2>1. CountIsTyped'
    BY <1>18 DEF countdownVars, CountIsTyped
  <2>2. TimersAreTyped'
    BY <1>18 DEF countdownVars, TimersAreTyped
  <2>3. LabelsAreTyped'
    BY <1>18 DEF countdownVars, LabelsAreTyped, Labels
  <2>4. PlacesAreTyped'
    BY <1>18 DEF countdownVars, PlacesAreTyped
  <2>5. BoundsAreTyped'
    BY <1>18 DEF countdownVars, BoundsAreTyped
  <2> QED  BY <2>1, <2>2, <2>3, <2>4, <2>5
<1> QED  BY <1>1, <1>2, <1>3, <1>4, <1>5, <1>6, <1>7, <1>8, <1>9, <1>10, <1>11, <1>12, <1>13, <1>14, <1>15, <1>16, <1>17, <1>18
             DEF CountdownNext, ExecStep, TickStep

LEMMA TypedAtFirst ==
    ASSUME CountdownInit
    PROVE  Typed
<1> USE CountdownAssumption, DurationsAreNat DEF CountdownInit
<1>1. CountIsTyped /\ TimersAreTyped
  BY DEF CountIsTyped, TimersAreTyped
<1>2. LabelsAreTyped
  BY DEF LabelsAreTyped, Labels
<1>3. PlacesAreTyped
  BY DEF PlacesAreTyped
<1>4. BoundsAreTyped
  <2>1. running \in BOOLEAN /\ overlapped \in BOOLEAN /\ disturbed \in BOOLEAN
    BY Zenon
  <2>2. presses \in 0 .. PressBound /\ edits \in 0 .. EditBound /\ starts \in 0 .. StartBound
    OBVIOUS
  <2> QED  BY <2>1, <2>2 DEF BoundsAreTyped
<1> QED  BY <1>1, <1>2, <1>3, <1>4 DEF Typed

\* The button, its timers and the label have the values they may have: what
\* is left never falls below zero nor rises above a duration, although a
\* press may set it while it is being counted.
THEOREM CountdownTypes == CountdownSpec => []CountdownTypeOK
<1>1. CountdownInit => Typed
  BY TypedAtFirst
<1>2. Typed /\ [CountdownNext]_countdownVars => Typed'
  BY TypeStep
<1>3. Typed => CountdownTypeOK
  BY TypedIs
<1> QED  BY <1>1, <1>2, <1>3, PTL DEF CountdownSpec

-----------------------------------------------------------------------------
LEMMA TimerStep ==
    ASSUME Typed, TimerInv, [CountdownNext]_countdownVars
    PROVE  TimerInv'
<1>0. /\ timer_id \in Nat /\ ids \in Nat
      /\ tick \in [pc : {"idle", "count", "show", "label", "forget"}, id : Nat, left : Nat]
      /\ press \in [Pool -> {"idle", "remove", "clear", "restore", "reset", "keep", "show",
                                "start"}]
  BY DEF Typed, TimersAreTyped, PlacesAreTyped
<1> USE <1>0 DEF TimerInv, Stopped, MainFree, PoolFree, countdownData, countdownHistory, bounds
<1>1. ASSUME NEW t \in Pool, countdown_exec(t)
      PROVE  TimerInv'
  <2>1. ~overlapped' => ~overlapped /\ MainFree /\ PoolFree
    BY <1>1, Zenon DEF countdown_exec
  <2>2. /\ alive /\ UNCHANGED <<alive, timer_id, sources, tick>>
        /\ press' = [press EXCEPT ![t] = IF timer_id > 0 THEN "remove" ELSE "reset"]
    BY <1>1 DEF countdown_exec, Goto
  <2> QED  BY <2>1, <2>2
<1>2. ASSUME NEW t \in Pool, RemoveTimer(t)
      PROVE  TimerInv'
  BY <1>2 DEF RemoveTimer, At, Goto
<1>3. ASSUME NEW t \in Pool, ClearTimer(t)
      PROVE  TimerInv'
  BY <1>3 DEF ClearTimer, At, Goto
<1>4. ASSUME NEW t \in Pool, RestoreLabel(t)
      PROVE  TimerInv'
  BY <1>4 DEF RestoreLabel, At, Goto
<1>5. ASSUME NEW t \in Pool, ResetRemaining(t)
      PROVE  TimerInv'
  BY <1>5 DEF ResetRemaining, At, Goto
<1>6. ASSUME NEW t \in Pool, KeepLabel(t)
      PROVE  TimerInv'
  BY <1>6 DEF KeepLabel, At, Goto
<1>7. ASSUME NEW t \in Pool, ShowTime(t)
      PROVE  TimerInv'
  BY <1>7 DEF ShowTime, At, Goto
<1>8. ASSUME NEW t \in Pool, StartTimer(t)
      PROVE  TimerInv'
  BY <1>8 DEF StartTimer, At, Goto
<1>9. CASE countdown_tick
  <2>1. ~overlapped' => ~overlapped /\ PoolFree
    BY <1>9, Zenon DEF countdown_tick
  <2>2. PICK id \in sources : /\ alive /\ tick'.id = id
                             /\ UNCHANGED <<alive, timer_id, sources, press>>
    BY <1>9 DEF countdown_tick
  <2> QED  BY <2>1, <2>2
<1>10. CASE CountDown
  BY <1>10 DEF CountDown
<1>11. CASE ShowLeft
  BY <1>11 DEF ShowLeft
<1>12. CASE EndLabel
  BY <1>12 DEF EndLabel
<1>13. CASE EndTimer
  BY <1>13 DEF EndTimer
<1>14. CASE on_duration_changed
  BY <1>14 DEF on_duration_changed
<1>15. CASE label_text_changed
  BY <1>15 DEF label_text_changed
<1>16. CASE countdown_data_free
  BY <1>16 DEF countdown_data_free
<1>17. CASE countdown_save_load
  BY <1>17 DEF countdown_save_load
<1>18. CASE UNCHANGED countdownVars
  BY <1>18 DEF countdownVars
<1> QED  BY <1>1, <1>2, <1>3, <1>4, <1>5, <1>6, <1>7, <1>8, <1>9, <1>10, <1>11, <1>12, <1>13, <1>14, <1>15, <1>16, <1>17, <1>18
             DEF CountdownNext, ExecStep, TickStep


\* Unless a press runs while another press or the main loop is at it, the
\* button has one timer at most and knows its id, for any number of threads,
\* presses and restarts; and a button that is freed leaves no timer behind.
THEOREM TimersAreKnown == CountdownSpec => []TimerIsKnown
<1>1. CountdownInit => Typed /\ TimerInv
  <2> SUFFICES ASSUME CountdownInit  PROVE Typed /\ TimerInv
    OBVIOUS
  <2>1. TimerInv
    BY DEF CountdownInit, TimerInv, MainFree, PoolFree, Stopped
  <2> QED  BY <2>1, TypedAtFirst
<1>2. Typed /\ TimerInv /\ [CountdownNext]_countdownVars => (Typed /\ TimerInv)'
  BY TypeStep, TimerStep
<1>3. Typed /\ TimerInv => TimerIsKnown
  BY DEF TimerInv, TimerIsKnown
<1> QED  BY <1>1, <1>2, <1>3, PTL DEF CountdownSpec

-----------------------------------------------------------------------------
LEMMA LabelStep ==
    ASSUME Typed, TimerInv, LabelInv, [CountdownNext]_countdownVars
    PROVE  LabelInv'
<1>0. /\ timer_id \in Nat /\ ids \in Nat
      /\ tick \in [pc : {"idle", "count", "show", "label", "forget"}, id : Nat, left : Nat]
      /\ press \in [Pool -> {"idle", "remove", "clear", "restore", "reset", "keep", "show",
                                "start"}]
      /\ NoLabel # Empty
  BY CountdownAssumption DEF Typed, TimersAreTyped, PlacesAreTyped
<1> USE <1>0 DEF TimerInv, Stopped, LabelInv, IsName, MainFree, PoolFree, countdownData,
               countdownHistory, bounds
<1>1. ASSUME NEW t \in Pool, countdown_exec(t)
      PROVE  LabelInv'
  <2>1. ~overlapped' => ~overlapped /\ MainFree /\ PoolFree
    BY <1>1, Zenon DEF countdown_exec
  <2>2. /\ alive /\ UNCHANGED <<alive, timer_id, original_label, label, name, running,
                                disturbed, sources, tick>>
        /\ press' = [press EXCEPT ![t] = IF timer_id > 0 THEN "remove" ELSE "reset"]
    BY <1>1 DEF countdown_exec, Goto
  <2> QED  BY <2>1, <2>2
<1>2. ASSUME NEW t \in Pool, RemoveTimer(t)
      PROVE  LabelInv'
  BY <1>2 DEF RemoveTimer, At, Goto
<1>3. ASSUME NEW t \in Pool, ClearTimer(t)
      PROVE  LabelInv'
  BY <1>3 DEF ClearTimer, At, Goto
<1>4. ASSUME NEW t \in Pool, RestoreLabel(t)
      PROVE  LabelInv'
  BY <1>4 DEF RestoreLabel, At, Goto
<1>5. ASSUME NEW t \in Pool, ResetRemaining(t)
      PROVE  LabelInv'
  BY <1>5 DEF ResetRemaining, At, Goto
<1>6. ASSUME NEW t \in Pool, KeepLabel(t)
      PROVE  LabelInv'
  BY <1>6 DEF KeepLabel, At, Goto
<1>7. ASSUME NEW t \in Pool, ShowTime(t)
      PROVE  LabelInv'
  BY <1>7 DEF ShowTime, At, Goto
<1>8. ASSUME NEW t \in Pool, StartTimer(t)
      PROVE  LabelInv'
  BY <1>8 DEF StartTimer, At, Goto
<1>9. CASE countdown_tick
  <2>1. ~overlapped' => ~overlapped /\ PoolFree
    BY <1>9, Zenon DEF countdown_tick
  <2>2. PICK id \in sources :
          /\ alive /\ tick' = [pc |-> IF remaining > 0 THEN "count" ELSE "label", id |-> id,
                              left |-> remaining]
          /\ MainFree
          /\ UNCHANGED <<alive, timer_id, original_label, label, name, running, disturbed,
                         sources, press>>
    BY <1>9 DEF countdown_tick
  <2>3. ~overlapped' => timer_id # 0
    BY <2>1, <2>2
  <2> QED  BY <2>1, <2>2, <2>3
<1>10. CASE CountDown
  BY <1>10 DEF CountDown
<1>11. CASE ShowLeft
  BY <1>11 DEF ShowLeft
<1>12. CASE EndLabel
  BY <1>12 DEF EndLabel
<1>13. CASE EndTimer
  BY <1>13 DEF EndTimer
<1>14. CASE on_duration_changed
  BY <1>14 DEF on_duration_changed
<1>15. CASE label_text_changed
  BY <1>15 DEF label_text_changed
<1>16. CASE countdown_data_free
  BY <1>16 DEF countdown_data_free
<1>17. CASE countdown_save_load
  BY <1>17 DEF countdown_save_load
<1>18. CASE UNCHANGED countdownVars
  BY <1>18 DEF countdownVars
<1> QED  BY <1>1, <1>2, <1>3, <1>4, <1>5, <1>6, <1>7, <1>8, <1>9, <1>10, <1>11, <1>12, <1>13, <1>14, <1>15, <1>16, <1>17, <1>18
             DEF CountdownNext, ExecStep, TickStep

\* When no countdown runs the label is the user's again: however often the
\* countdown was started, stopped or has ended, as long as the functions did
\* not run at once and he did not edit it meanwhile.
THEOREM LabelsComeBack == CountdownSpec => []LabelComesBack
<1> DEFINE Inv == Typed /\ TimerInv /\ LabelInv
<1>1. CountdownInit => Inv
  <2> SUFFICES ASSUME CountdownInit  PROVE Inv
    OBVIOUS
  <2>1. TimerInv
    BY DEF CountdownInit, TimerInv, MainFree, PoolFree, Stopped
  <2>2. LabelInv
    BY DEF CountdownInit, LabelInv, MainFree, PoolFree, IsName
  <2> QED  BY <2>1, <2>2, TypedAtFirst
<1>2. Inv /\ [CountdownNext]_countdownVars => Inv'
  BY TypeStep, TimerStep, LabelStep
<1>3. Inv => LabelComesBack
  BY DEF LabelInv, LabelComesBack, IsName, MainFree
<1> QED  BY <1>1, <1>2, <1>3, PTL DEF CountdownSpec

=============================================================================
