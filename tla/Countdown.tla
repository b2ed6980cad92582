----------------------------- MODULE Countdown -----------------------------
(***************************************************************************)
(* A countdown button (plugins/gtkdeck/countdown.c).  A press runs on a    *)
(* thread of the pool and starts or stops a timer; the timer's function    *)
(* runs on the main loop once a second and counts down; both write the     *)
(* label, and nothing is locked.  The main loop also configures, saves and *)
(* deletes the button.                                                     *)
(*                                                                         *)
(* A step reads or writes one shared thing.  Times are left out: a timer   *)
(* that is there may fire whenever the main loop is free.  A label that    *)
(* shows a time is that number of seconds.  GLib is external.              *)
(***************************************************************************)
EXTENDS Naturals, FiniteSets

CONSTANTS
    Pool,            \* its threads
    Durations,       \* of which the user chooses
    Names,           \* labels the user may give
    NoLabel, Empty,  \* no label; the label ""
    PressBound, EditBound, StartBound

ASSUME CountdownAssumption ==
    /\ Durations \subseteq Nat \ {0} /\ Durations # {}
    /\ NoLabel \notin Nat \cup Names /\ Empty \notin Nat /\ NoLabel # Empty
    /\ PressBound \in Nat /\ EditBound \in Nat /\ StartBound \in Nat

VARIABLES
    alive,           \* the button has not been freed
    duration, remaining, timer_id, original_label,   \* CountdownData
    label,           \* of the button
    sources,         \* the timers GLib has for it
    ids,             \* how many timers there have been: the last one's id
    tick,            \* where the main loop is in countdown_tick
    press,           \* press[t]: where thread t is in countdown_exec
    name,            \* history: the label the user wants
    running,         \* history: a countdown was started and not stopped
    overlapped,      \* history: two of these functions ran at once
    disturbed,       \* history: the label was edited or saved during a
                     \* countdown, or a button without a label stopped
    presses, edits, starts   \* bounds

countdownData    == <<duration, remaining, timer_id, original_label>>
countdownHistory == <<name, running, overlapped, disturbed>>
bounds           == <<presses, edits, starts>>
countdownVars    == <<alive, countdownData, label, sources, ids, tick, press,
                      countdownHistory, bounds>>

Labels == Names \cup {NoLabel, Empty} \cup Nat

MainFree == tick.pc = "idle"
PoolFree == \A t \in Pool : press[t] = "idle"

CountdownInit ==
    /\ alive = TRUE
    /\ duration \in Durations /\ remaining = 0 /\ timer_id = 0 /\ original_label = NoLabel
    /\ label \in Names \cup {NoLabel}
    /\ sources = {} /\ ids = 0
    /\ tick = [pc |-> "idle", id |-> 0, left |-> 0]
    /\ press = [t \in Pool |-> "idle"]
    /\ name = label /\ running = FALSE /\ overlapped = FALSE /\ disturbed = FALSE
    /\ presses = 0 /\ edits = 0 /\ starts = 0

(***************************************************************************)
(* countdown_exec                                                          *)
(***************************************************************************)
At(t, pc) == press[t] = pc
Goto(t, pc) == press' = [press EXCEPT ![t] = pc]

\* A thread of the pool executes the button and looks whether a timer runs.
countdown_exec(t) ==
    /\ alive /\ At(t, "idle") /\ presses < PressBound
    /\ presses' = presses + 1
    /\ Goto(t, IF timer_id > 0 THEN "remove" ELSE "reset")
    /\ overlapped' = (overlapped \/ ~MainFree \/ ~PoolFree)
    /\ UNCHANGED <<alive, countdownData, label, sources, ids, tick, name, running, disturbed,
                   edits, starts>>

\* It stops the timer ...
RemoveTimer(t) ==
    /\ At(t, "remove") /\ Goto(t, "clear")
    /\ sources' = sources \ {timer_id}
    /\ UNCHANGED <<alive, countdownData, label, ids, tick, countdownHistory, bounds>>
ClearTimer(t) ==
    /\ At(t, "clear") /\ Goto(t, "restore")
    /\ timer_id' = 0
    /\ UNCHANGED <<alive, duration, remaining, original_label, label, sources, ids, tick,
                   countdownHistory, bounds>>
RestoreLabel(t) ==
    /\ At(t, "restore") /\ Goto(t, "idle")
    /\ label' = IF original_label # NoLabel THEN original_label ELSE label
    /\ running' = FALSE
    /\ disturbed' = (disturbed \/ original_label = NoLabel)
    /\ UNCHANGED <<alive, countdownData, sources, ids, tick, name, overlapped, bounds>>

\* ... or starts one.
ResetRemaining(t) ==
    /\ At(t, "reset") /\ Goto(t, "keep")
    /\ remaining' = duration
    /\ UNCHANGED <<alive, duration, timer_id, original_label, label, sources, ids, tick,
                   countdownHistory, bounds>>
\* Variant: the label that is kept is the one of the first countdown.
KeepFirstLabel(t) ==
    /\ At(t, "keep") /\ Goto(t, "show")
    /\ original_label' = IF original_label = NoLabel THEN label ELSE original_label
    /\ UNCHANGED <<alive, duration, remaining, timer_id, label, sources, ids, tick,
                   countdownHistory, bounds>>
KeepLabel(t) ==
    /\ At(t, "keep") /\ Goto(t, "show")
    /\ original_label' = label
    /\ UNCHANGED <<alive, duration, remaining, timer_id, label, sources, ids, tick,
                   countdownHistory, bounds>>
ShowTime(t) ==
    /\ At(t, "show") /\ Goto(t, "start")
    /\ label' = remaining
    /\ UNCHANGED <<alive, countdownData, sources, ids, tick, countdownHistory, bounds>>
StartTimer(t) ==
    /\ At(t, "start") /\ Goto(t, "idle")
    /\ ids' = ids + 1
    /\ timer_id' = ids' /\ sources' = sources \cup {ids'}
    /\ running' = TRUE
    /\ UNCHANGED <<alive, duration, remaining, original_label, label, tick, name,
                   overlapped, disturbed, bounds>>

ExecStep(t) ==
    \/ RemoveTimer(t) \/ ClearTimer(t) \/ RestoreLabel(t)
    \/ ResetRemaining(t) \/ KeepLabel(t) \/ ShowTime(t) \/ StartTimer(t)

(***************************************************************************)
(* countdown_tick, on the main loop.  It returns TRUE while it counts; a   *)
(* timer that has been removed meanwhile is not started again.             *)
(***************************************************************************)
\* Variant: zero is counted down too.
TickBelowZero ==
    /\ alive /\ MainFree
    /\ \E id \in sources : tick' = [pc |-> "count", id |-> id, left |-> remaining]
    /\ overlapped' = (overlapped \/ ~PoolFree)
    /\ UNCHANGED <<alive, countdownData, label, sources, ids, press, name, running,
                   disturbed, bounds>>

countdown_tick ==
    /\ alive /\ MainFree
    /\ \E id \in sources :
         tick' = [pc |-> IF remaining > 0 THEN "count" ELSE "label", id |-> id,
                  left |-> remaining]
    /\ overlapped' = (overlapped \/ ~PoolFree)
    /\ UNCHANGED <<alive, countdownData, label, sources, ids, press, name, running,
                   disturbed, bounds>>

\* remaining-- counts what was compared or what is there by now.
CountDown ==
    /\ tick.pc = "count"
    /\ remaining' \in {tick.left - 1} \cup {remaining - 1 : x \in {y \in {remaining} : y > 0}}
    /\ tick' = [tick EXCEPT !.pc = "show"]
    /\ UNCHANGED <<alive, duration, timer_id, original_label, label, sources, ids, press,
                   countdownHistory, bounds>>
ShowLeft ==
    /\ tick.pc = "show"
    /\ label' = remaining
    /\ tick' = [tick EXCEPT !.pc = "idle"]
    /\ UNCHANGED <<alive, countdownData, sources, ids, press, countdownHistory, bounds>>

\* The end: the sound is played, the label comes back and the timer goes.
EndLabel ==
    /\ tick.pc = "label"
    /\ label' = IF original_label # NoLabel THEN original_label ELSE Empty
    /\ tick' = [tick EXCEPT !.pc = "forget"]
    /\ UNCHANGED <<alive, countdownData, sources, ids, press, countdownHistory, bounds>>
\* Variant: the timer goes on at the end.
EndTimerGoesOn ==
    /\ tick.pc = "forget"
    /\ timer_id' = 0 /\ running' = FALSE
    /\ tick' = [tick EXCEPT !.pc = "idle"]
    /\ UNCHANGED <<alive, duration, remaining, original_label, label, sources, ids, press,
                   name, overlapped, disturbed, bounds>>
EndTimer ==
    /\ tick.pc = "forget"
    /\ timer_id' = 0
    /\ sources' = sources \ {tick.id}
    /\ tick' = [tick EXCEPT !.pc = "idle"]
    /\ running' = FALSE
    /\ UNCHANGED <<alive, duration, remaining, original_label, label, ids, press, name,
                   overlapped, disturbed, bounds>>

TickStep == CountDown \/ ShowLeft \/ EndLabel \/ EndTimer

(***************************************************************************)
(* The rest of what the main thread does to the button                     *)
(***************************************************************************)
on_duration_changed ==
    /\ alive /\ MainFree /\ edits < EditBound
    /\ edits' = edits + 1
    /\ \E d \in Durations \ {duration} : duration' = d
    /\ UNCHANGED <<alive, remaining, timer_id, original_label, label, sources, ids, tick,
                   press, countdownHistory, presses, starts>>

\* label_text_changed of deck_plugin.c
label_text_changed ==
    /\ alive /\ MainFree /\ edits < EditBound
    /\ edits' = edits + 1
    /\ \E n \in Names \ {label} : label' = n /\ name' = n
    /\ disturbed' = (disturbed \/ running)
    /\ overlapped' = (overlapped \/ ~PoolFree)
    /\ UNCHANGED <<alive, countdownData, sources, ids, tick, press, running, presses, starts>>

\* Variant: the timer is left to GLib.
FreeKeepsTimer ==
    /\ alive /\ MainFree
    /\ alive' = FALSE
    /\ overlapped' = (overlapped \/ ~PoolFree)
    /\ UNCHANGED <<countdownData, label, sources, ids, tick, press, name, running,
                   disturbed, bounds>>

\* The button is deleted, or replaced by another.
countdown_data_free ==
    /\ alive /\ MainFree
    /\ alive' = FALSE
    /\ sources' = sources \ {timer_id}
    /\ overlapped' = (overlapped \/ ~PoolFree)
    /\ UNCHANGED <<countdownData, label, ids, tick, press, name, running, disturbed, bounds>>

\* The program is closed and started again: the duration and the label are
\* saved and loaded.
countdown_save_load ==
    /\ alive /\ MainFree /\ PoolFree /\ starts < StartBound
    /\ starts' = starts + 1
    /\ remaining' = 0 /\ timer_id' = 0 /\ original_label' = NoLabel
    /\ sources' = {} /\ ids' = 0
    /\ running' = FALSE
    /\ disturbed' = (disturbed \/ running)
    /\ UNCHANGED <<alive, duration, label, tick, press, name, overlapped, presses, edits>>

CountdownNext ==
    \/ \E t \in Pool : countdown_exec(t) \/ ExecStep(t)
    \/ countdown_tick \/ TickStep
    \/ on_duration_changed \/ label_text_changed \/ countdown_data_free \/ countdown_save_load

CountdownSpec == CountdownInit /\ [][CountdownNext]_countdownVars

\* The threads of the pool run, and the main loop runs the timers.
CountdownFairness ==
    /\ \A t \in Pool : WF_countdownVars(ExecStep(t))
    /\ WF_countdownVars(countdown_tick) /\ WF_countdownVars(TickStep)

-----------------------------------------------------------------------------
MaxDuration == CHOOSE d \in Durations : \A e \in Durations : e <= d

(***************************************************************************)
(* Type invariant.  What is left is never more than a duration and never   *)
(* below zero, although a press may set it while it is counted.            *)
(***************************************************************************)
CountdownTypeOK ==
    /\ alive \in BOOLEAN /\ duration \in Durations
    /\ remaining \in Nat /\ \E d \in Durations : remaining <= d
    /\ timer_id \in 0 .. ids /\ ids \in Nat /\ sources \subseteq 1 .. ids
    /\ original_label \in Labels /\ label \in Labels /\ name \in Labels
    /\ tick \in [pc : {"idle", "count", "show", "label", "forget"}, id : Nat, left : Nat]
    /\ tick.pc = "count" => tick.left > 0
    /\ press \in [Pool -> {"idle", "remove", "clear", "restore", "reset", "keep", "show",
                              "start"}]
    /\ running \in BOOLEAN /\ overlapped \in BOOLEAN /\ disturbed \in BOOLEAN
    /\ presses \in 0 .. PressBound /\ edits \in 0 .. EditBound /\ starts \in 0 .. StartBound

(***************************************************************************)
(* Unless two of the functions ran at once, the button has one timer at    *)
(* most and knows it: the next press stops it, and a button that is freed  *)
(* leaves none behind that would count in freed memory.                    *)
(***************************************************************************)
TimerIsKnown == ~overlapped /\ PoolFree =>
    /\ alive => sources = {timer_id} \ {0}
    /\ ~alive => sources = {}

(***************************************************************************)
(* When no countdown runs, the label is the one the user gave, unless he   *)
(* edited it meanwhile, the button had none and was stopped, or the        *)
(* functions ran at once.                                                  *)
(***************************************************************************)
LabelComesBack == /\ ~overlapped /\ ~disturbed /\ PoolFree /\ MainFree
                  /\ timer_id = 0 /\ alive
                  => label = name \/ (name = NoLabel /\ label = Empty)

(***************************************************************************)
(* Every countdown ends, the ones no press can stop any more included:     *)
(* whatever timers overlapping presses have left count the same number     *)
(* down, and each goes when it finds zero.                                 *)
(***************************************************************************)
CountdownsEnd == []<>(sources = {} \/ ~alive)

=============================================================================
