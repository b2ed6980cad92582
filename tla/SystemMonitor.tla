--------------------------- MODULE SystemMonitor ---------------------------
(***************************************************************************)
(* The figures of the system monitor buttons                               *)
(* (plugins/system_monitor_plugin.c): two timers of the main loop read     *)
(* /proc/stat and /proc/meminfo, which are external, make percentages of   *)
(* them in unsigned arithmetic and draw the button, as a press on a thread *)
(* of the pool does.  The command a press runs is left out.                *)
(*                                                                         *)
(* Of the eight CPU counters the six that count work are taken together:   *)
(* the code only ever adds them.  A counter is unsigned, modulo Modulus;   *)
(* `real` is what it would be without a width.                             *)
(***************************************************************************)
EXTENDS Integers

CONSTANTS
    Modulus,        \* 2^64
    FirstCounts,    \* the counters when the program starts
    Growths,        \* by how much they grow between two reads
    Memories,       \* what /proc/meminfo may say
    MaxReads, MaxRuns, MaxRestarts, MaxExecs     \* bounds

Counters == {"busy", "idle", "iowait"}
MemInfo  == {"total", "free", "available", "buffers", "cached", "sreclaimable"}
Zero     == [c \in Counters |-> 0]
Nothing  == -1

ASSUME SystemMonitorAssumption ==
    /\ Modulus \in Nat \ {0}
    /\ FirstCounts \subseteq [Counters -> Nat]
    /\ Growths \subseteq [Counters -> Int]
    /\ \A g \in Growths : g["busy"] >= 0 /\ g["idle"] >= 0
    /\ Memories \subseteq [MemInfo -> 0 .. Modulus - 1]
    /\ MaxReads \in Nat /\ MaxRuns \in Nat /\ MaxRestarts \in Nat /\ MaxExecs \in Nat

VARIABLES
    action_type,     \* 0 shows the CPU, 1 the memory
    prev_cpu_stat, cpu_percent, ram_percent,
    text,            \* the figure that is drawn on the button
    drawing,         \* the figure a thread of the pool is drawing, if any
    timers,          \* which of its two timers GLib has
    real,            \* the counters of the machine
    since, last,     \* history: the machine's counters at the two reads that
                     \* cpu_percent is about
    mem,             \* history: the memory ram_percent is about
    asked,           \* history: which of the two buttons the user took
    updated,         \* history: the button has been drawn with its own figure
    overtaken,       \* history: a timer came while a press drew the button
    reads, runs, restarts, execs   \* bounds

monitor     == <<action_type, prev_cpu_stat, cpu_percent, ram_percent, text, drawing,
                 timers>>
monitorVars == <<monitor, real, since, last, mem, asked, updated, overtaken, reads, runs,
                 restarts, execs>>

Unsigned(n) == n % Modulus

\* What read_cpu_stat finds.
CpuStat(r) == [c \in Counters |-> Unsigned(r[c])]

\* Variant: waiting for a disk counts as work.
CpuPercentOfWaiting(prev, curr) ==
    LET total == Unsigned(curr["busy"] + curr["idle"] + curr["iowait"]
                            - prev["busy"] - prev["idle"] - prev["iowait"])
    IN IF total = 0 THEN 0
       ELSE Unsigned(Unsigned(total - curr["idle"] + prev["idle"]) * 100) \div total

calculate_cpu_percent(prev, curr) ==
    LET prev_idle  == Unsigned(prev["idle"] + prev["iowait"])
        curr_idle  == Unsigned(curr["idle"] + curr["iowait"])
        prev_total == Unsigned(prev["busy"] + prev_idle)
        curr_total == Unsigned(curr["busy"] + curr_idle)
        total_diff == Unsigned(curr_total - prev_total)
        idle_diff  == Unsigned(curr_idle - prev_idle)
    IN IF total_diff = 0 THEN 0
       ELSE Unsigned(Unsigned(total_diff - idle_diff) * 100) \div total_diff

\* Variant: a kernel without MemAvailable is not provided for.
RamPercentOfCached(m) ==
    LET used == Unsigned(m["total"] - m["available"] - m["free"] - m["cached"])
    IN IF m["total"] = 0 THEN 0 ELSE Unsigned(used * 100) \div m["total"]

calculate_ram_percent(m) ==
    LET used == IF m["available"] > 0 THEN Unsigned(m["total"] - m["available"])
                ELSE Unsigned(m["total"] - m["free"] - m["buffers"] - m["cached"]
                                - m["sreclaimable"])
    IN IF m["total"] = 0 THEN 0 ELSE Unsigned(used * 100) \div m["total"]

\* What deck_plugin_reset draws: the figure of the action.
system_monitor_plugin_render(cpu, ram) == IF action_type = 0 THEN cpu ELSE ram

\* A new button has read both files, of which the first may be unreadable.
system_monitor_plugin_init ==
    /\ prev_cpu_stat' \in {Zero, CpuStat(real)}
    /\ last' = IF prev_cpu_stat' = CpuStat(real) THEN real ELSE Zero
    /\ since' = last'
    /\ cpu_percent' = 0
    /\ \E m \in Memories : mem' = m /\ ram_percent' = calculate_ram_percent(m)
    /\ timers' = {"cpu", "ram"}

\* Variant: the action is forgotten, as system_monitor_plugin_init sets it.
CloneWithoutAction(action) ==
    /\ system_monitor_plugin_init
    /\ action_type' = 0 /\ text' = 0 /\ drawing' = Nothing /\ updated' = FALSE

\* The button is drawn for the first time before it is told its action.
system_monitor_plugin_clone(action) ==
    /\ system_monitor_plugin_init
    /\ action_type' = action /\ text' = 0 /\ drawing' = Nothing /\ updated' = FALSE

\* A button is dropped on the grid.
Drop ==
    /\ timers = {} /\ asked = Nothing
    /\ \E action \in {0, 1} : system_monitor_plugin_clone(action) /\ asked' = action
    /\ UNCHANGED <<real, overtaken, reads, runs, restarts, execs>>

\* The program is closed and started again.  The loaded button is made for
\* its code and then told the action_type of the file, which is the same.
SaveLoad ==
    /\ timers # {} /\ drawing = Nothing /\ restarts < MaxRestarts /\ restarts' = restarts + 1
    /\ system_monitor_plugin_clone(action_type)
    /\ UNCHANGED <<real, asked, overtaken, reads, runs, execs>>

\* The button is deleted; a press under way then is DeckGrid's matter.
system_monitor_plugin_finalize ==
    /\ timers # {} /\ drawing = Nothing /\ timers' = {}
    /\ UNCHANGED <<action_type, prev_cpu_stat, cpu_percent, ram_percent, text, drawing, real,
                   since, last, mem, asked, updated, overtaken, reads, runs, restarts,
                   execs>>

\* When the file cannot be read the figure stays, and so does what the next
\* one is counted from: that is no step.
cpu_update_timer ==
    /\ "cpu" \in timers /\ reads < MaxReads /\ reads' = reads + 1
    /\ cpu_percent' = calculate_cpu_percent(prev_cpu_stat, CpuStat(real))
    /\ prev_cpu_stat' = CpuStat(real)
    /\ since' = last /\ last' = real
    /\ overtaken' = (overtaken \/ drawing # Nothing)
    /\ UNCHANGED <<action_type, ram_percent, drawing, timers, real, mem, asked, runs, restarts,
                   execs>>
    /\ \/ /\ action_type = 0 /\ updated' = TRUE
          /\ text' = system_monitor_plugin_render(cpu_percent', ram_percent)
       \/ action_type # 0 /\ UNCHANGED <<text, updated>>

ram_update_timer ==
    /\ "ram" \in timers /\ reads < MaxReads /\ reads' = reads + 1
    /\ \E m \in Memories : /\ m["total"] > 0
                           /\ mem' = m /\ ram_percent' = calculate_ram_percent(m)
    /\ overtaken' = (overtaken \/ drawing # Nothing)
    /\ UNCHANGED <<action_type, prev_cpu_stat, cpu_percent, drawing, timers, real, since, last,
                   asked, runs, restarts, execs>>
    /\ \/ /\ action_type = 1 /\ updated' = TRUE
          /\ text' = system_monitor_plugin_render(cpu_percent, ram_percent')
       \/ action_type # 1 /\ UNCHANGED <<text, updated>>

\* A press runs the command and draws the button (process_plugin_exec): the
\* figure is read, and the picture stored later.
system_monitor_exec ==
    /\ timers # {} /\ drawing = Nothing /\ execs < MaxExecs /\ execs' = execs + 1
    /\ drawing' = system_monitor_plugin_render(cpu_percent, ram_percent)
    /\ UNCHANGED <<action_type, prev_cpu_stat, cpu_percent, ram_percent, text, timers, real,
                   since, last, mem, asked, updated, overtaken, reads, runs, restarts>>
PressDrawn ==
    /\ drawing # Nothing /\ drawing' = Nothing
    /\ text' = drawing /\ updated' = TRUE
    /\ UNCHANGED <<action_type, prev_cpu_stat, cpu_percent, ram_percent, timers, real, since,
                   last, mem, asked, overtaken, reads, runs, restarts, execs>>

\* Time passes; iowait may go back (proc(5)).
MachineRuns ==
    /\ runs < MaxRuns /\ runs' = runs + 1
    /\ \E g \in Growths : real' = [c \in Counters |-> real[c] + g[c]]
    /\ \A c \in Counters : real'[c] >= 0
    /\ UNCHANGED <<monitor, since, last, mem, asked, updated, overtaken, reads, restarts,
                   execs>>

MonitorInit ==
    /\ action_type = 0 /\ prev_cpu_stat = Zero /\ cpu_percent = 0 /\ ram_percent = 0
    /\ text = 0 /\ drawing = Nothing /\ timers = {}
    /\ real \in FirstCounts /\ since = real /\ last = real
    /\ mem = [f \in MemInfo |-> 0] /\ asked = Nothing /\ updated = FALSE /\ overtaken = FALSE
    /\ reads = 0 /\ runs = 0 /\ restarts = 0 /\ execs = 0

MonitorNext ==
    \/ Drop \/ SaveLoad \/ system_monitor_plugin_finalize
    \/ cpu_update_timer \/ ram_update_timer \/ system_monitor_exec \/ PressDrawn \/ MachineRuns

MonitorSpec == MonitorInit /\ [][MonitorNext]_monitorVars

-----------------------------------------------------------------------------
(***************************************************************************)
(* The CPU figure is the exact share, rounded down, of the time between    *)
(* the last two reads that was spent working: also when sums of counters   *)
(* pass 2^64, reads failed in between or the first one failed.  It needs   *)
(* counters that do not go back and an interval whose hundredfold fits.    *)
(***************************************************************************)
Passed(c)  == last[c] - since[c]
TotalTime  == Passed("busy") + Passed("idle") + Passed("iowait")
CpuPercentExact ==
    (\A c \in Counters : Passed(c) >= 0) /\ 100 * TotalTime < Modulus =>
        /\ TotalTime = 0 => cpu_percent = 0
        /\ TotalTime > 0 => /\ cpu_percent * TotalTime <= 100 * Passed("busy")
                            /\ 100 * Passed("busy") < (cpu_percent + 1) * TotalTime
                            /\ cpu_percent \in 0 .. 100

(***************************************************************************)
(* The memory figure is a percentage, on kernels with and without          *)
(* MemAvailable, if what is free or can be freed is part of the memory.    *)
(***************************************************************************)
RamPercentInRange ==
    /\ mem["available"] <= mem["total"]
    /\ mem["free"] + mem["buffers"] + mem["cached"] + mem["sreclaimable"] <= mem["total"]
    /\ 100 * mem["total"] < Modulus
    => ram_percent \in 0 .. 100

(***************************************************************************)
(* A button that has been drawn since it was made shows the last figure of *)
(* the action the user took, also after the program was started again,     *)
(* unless a timer came while a press was drawing the button.               *)
(***************************************************************************)
ShowsItsFigure == updated /\ ~overtaken =>
    text = IF asked = 0 THEN cpu_percent ELSE ram_percent

=============================================================================
