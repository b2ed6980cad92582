------------------------ MODULE SystemMonitorProofs ------------------------
(***************************************************************************)
(* Theorems about SystemMonitor for every modulus, every sequence of       *)
(* counters and every content of /proc/meminfo: the figures are exact, and *)
(* the button shows its own.                                               *)
(***************************************************************************)
EXTENDS SystemMonitor, TLAPS

-----------------------------------------------------------------------------
(***************************************************************************)
(* Unsigned arithmetic.                                                    *)
(***************************************************************************)
LEMMA TimesAtLeast ==
    ASSUME NEW k \in Int, NEW m \in Nat \ {0}, k >= 1
    PROVE  k * m >= m
<1>1. (k - 1) * m >= 0
  OBVIOUS
<1>2. k * m = (k - 1) * m + m
  OBVIOUS
<1>3. k * m \in Int /\ (k - 1) * m \in Int
  OBVIOUS
<1> QED  BY <1>1, <1>2, <1>3

LEMMA OneRemainder ==
    ASSUME NEW m \in Nat \ {0}, NEW x \in 0 .. m - 1, NEW y \in 0 .. m - 1, NEW k \in Int,
           x = y - k * m
    PROVE  x = y
<1>1. k * m \in Int
  OBVIOUS
<1>2. CASE k >= 1
  BY <1>1, <1>2, TimesAtLeast
<1>3. CASE k <= -1
  <2>1. (-k) * m >= m
    BY <1>3, TimesAtLeast
  <2>2. (-k) * m = -(k * m)
    OBVIOUS
  <2> QED  BY <1>1, <2>1, <2>2
<1>4. CASE k = 0
  BY <1>4
<1> QED  BY <1>2, <1>3, <1>4

LEMMA UnsignedIs ==
    ASSUME NEW n \in Int
    PROVE  /\ Unsigned(n) \in 0 .. Modulus - 1
           /\ \E k \in Int : Unsigned(n) = n - k * Modulus
<1>1. Modulus \in Nat \ {0}
  BY SystemMonitorAssumption
<1>2. n % Modulus \in 0 .. Modulus - 1
  BY <1>1
<1>3. n % Modulus = n - (n \div Modulus) * Modulus /\ n \div Modulus \in Int
  BY <1>1
<1> QED  BY <1>2, <1>3 DEF Unsigned

\* A number that fits, from which multiples of the modulus were taken away.
LEMMA UnsignedFits ==
    ASSUME NEW n \in 0 .. Modulus - 1, NEW k \in Int
    PROVE  Unsigned(n - k * Modulus) = n
<1>1. Modulus \in Nat \ {0}
  BY SystemMonitorAssumption
<1>2. n - k * Modulus \in Int
  BY <1>1
<1>3. PICK j \in Int : Unsigned(n - k * Modulus) = (n - k * Modulus) - j * Modulus
  BY <1>2, UnsignedIs
<1>4. (n - k * Modulus) - j * Modulus = n - (k + j) * Modulus
  BY <1>1
<1>5. Unsigned(n - k * Modulus) \in 0 .. Modulus - 1
  BY <1>2, UnsignedIs
<1> DEFINE u == Unsigned(n - k * Modulus)
<1>6. u = n - (k + j) * Modulus /\ u \in 0 .. Modulus - 1 /\ k + j \in Int
  BY <1>3, <1>4, <1>5
<1> HIDE DEF u
<1>7. u = n
  BY <1>1, <1>6, OneRemainder
<1> QED  BY <1>7 DEF u

LEMMA QuotientIs ==
    ASSUME NEW a \in Nat, NEW b \in Nat \ {0}
    PROVE  /\ a \div b \in Nat
           /\ (a \div b) * b <= a /\ a < (a \div b + 1) * b
<1>1. a % b \in 0 .. b - 1 /\ a \div b \in Int
  OBVIOUS
<1>2. a % b = a - (a \div b) * b
  OBVIOUS
<1> DEFINE q == a \div b
           r == a % b
<1>3. q \in Int /\ r \in 0 .. b - 1 /\ r = a - q * b
  BY <1>1, <1>2
<1> HIDE DEF q, r
<1>4. (q + 1) * b = q * b + b /\ q * b \in Int
  BY <1>3
<1>5. q >= 0
  <2> SUFFICES ASSUME q <= -1 PROVE FALSE
    BY <1>3
  <2>1. (-q) * b >= b
    BY <1>3, TimesAtLeast
  <2>2. (-q) * b = -(q * b)
    BY <1>3
  <2> QED  BY <1>3, <1>4, <2>1, <2>2
<1> QED  BY <1>3, <1>4, <1>5 DEF q

\* A part of a whole, in hundredths.
LEMMA PercentIs ==
    ASSUME NEW part \in Nat, NEW whole \in Nat \ {0}, part <= whole, 100 * whole < Modulus
    PROVE  LET p == Unsigned(Unsigned(part) * 100) \div whole IN
           /\ p * whole <= 100 * part /\ 100 * part < (p + 1) * whole
           /\ p \in 0 .. 100
<1> DEFINE p == (100 * part) \div whole
<1>1. part \in 0 .. Modulus - 1 /\ 100 * part \in 0 .. Modulus - 1 /\ Modulus \in Nat \ {0}
  BY SystemMonitorAssumption
<1>2. \A n \in 0 .. Modulus - 1 : Unsigned(n) = n
  <2> SUFFICES ASSUME NEW n \in 0 .. Modulus - 1 PROVE Unsigned(n) = n
    OBVIOUS
  <2>1. n - 0 * Modulus = n
    BY <1>1
  <2> QED  BY <2>1, UnsignedFits
<1>3. Unsigned(Unsigned(part) * 100) = 100 * part
  BY <1>1, <1>2
<1>4. p \in Nat /\ p * whole <= 100 * part /\ 100 * part < (p + 1) * whole
  BY QuotientIs
<1>5. p <= 100
  <2> SUFFICES ASSUME p >= 101 PROVE FALSE
    BY <1>4
  <2>1. (p - 100) * whole >= whole
    BY <1>4, TimesAtLeast
  <2>2. p * whole = (p - 100) * whole + 100 * whole /\ (p - 100) * whole \in Int
    BY <1>4
  <2> HIDE DEF p
  <2> QED  BY <1>4, <2>1, <2>2
<1> QED  BY <1>3, <1>4, <1>5

-----------------------------------------------------------------------------
(***************************************************************************)
(* The figures.  A sum or difference of unsigned numbers is that of the    *)
(* numbers without a width, but for multiples of the modulus.              *)
(***************************************************************************)
StandsFor(u, n) == u \in Int /\ n \in Int /\ \E k \in Int : u = n - k * Modulus

LEMMA UnsignedStands ==
    ASSUME NEW u, NEW n, StandsFor(u, n)
    PROVE  StandsFor(Unsigned(u), n) /\ Unsigned(u) \in 0 .. Modulus - 1
<1>1. PICK k \in Int : u = n - k * Modulus
  BY DEF StandsFor
<1>2. u \in Int /\ n \in Int /\ Modulus \in Nat
  BY SystemMonitorAssumption DEF StandsFor
<1>3. PICK j \in Int : Unsigned(u) = u - j * Modulus
  BY <1>2, UnsignedIs
<1>4. Unsigned(u) \in 0 .. Modulus - 1
  BY <1>2, UnsignedIs
<1>5. u - j * Modulus = n - (k + j) * Modulus
  BY <1>1, <1>2
<1>6. \E i \in Int : Unsigned(u) = n - i * Modulus
  <2>1. k + j \in Int /\ Unsigned(u) = n - (k + j) * Modulus
    BY <1>3, <1>5
  <2> QED  BY ONLY <2>1, Zenon
<1> QED  BY <1>2, <1>4, <1>6 DEF StandsFor

LEMMA SelfStands == \A n \in Int : StandsFor(n, n)
<1> SUFFICES ASSUME NEW n \in Int PROVE StandsFor(n, n)
  OBVIOUS
<1>1. Modulus \in Nat
  BY SystemMonitorAssumption
<1>2. n = n - 0 * Modulus
  BY <1>1
<1> QED  BY <1>2 DEF StandsFor

LEMMA SumStands ==
    ASSUME NEW u, NEW n, StandsFor(u, n), NEW v, NEW m, StandsFor(v, m)
    PROVE  StandsFor(u + v, n + m) /\ StandsFor(u - v, n - m)
<1>1. PICK k \in Int : u = n - k * Modulus
  BY DEF StandsFor
<1>2. PICK j \in Int : v = m - j * Modulus
  BY DEF StandsFor
<1>3. n \in Int /\ m \in Int /\ Modulus \in Nat /\ u \in Int /\ v \in Int
  BY SystemMonitorAssumption DEF StandsFor
<1>4. u + v = (n + m) - (k + j) * Modulus
  BY <1>1, <1>2, <1>3
<1>5. u - v = (n - m) - (k - j) * Modulus
  BY <1>1, <1>2, <1>3
<1>6. \E i \in Int : u + v = (n + m) - i * Modulus
  <2>1. k + j \in Int
    OBVIOUS
  <2> QED  BY ONLY <1>4, <2>1, Zenon
<1>7. \E i \in Int : u - v = (n - m) - i * Modulus
  <2>1. k - j \in Int
    OBVIOUS
  <2> QED  BY ONLY <1>5, <2>1, Zenon
<1>8. u + v \in Int /\ n + m \in Int /\ u - v \in Int /\ n - m \in Int
  BY <1>3
<1> QED  BY ONLY <1>6, <1>7, <1>8, Zenon DEF StandsFor

LEMMA StandsFits ==
    ASSUME NEW u, NEW n \in 0 .. Modulus - 1, StandsFor(u, n)
    PROVE  Unsigned(u) = n
<1>1. PICK k \in Int : u = n - k * Modulus
  BY DEF StandsFor
<1> QED  BY <1>1, UnsignedFits

\* What calculate_cpu_percent makes of two reads of counters that have not gone back.
LEMMA CpuFigure ==
    ASSUME NEW p \in [Counters -> Nat], NEW c \in [Counters -> Nat],
           \A x \in Counters : c[x] - p[x] >= 0,
           NEW total, total = (c["busy"] - p["busy"]) + (c["idle"] - p["idle"])
                                + (c["iowait"] - p["iowait"]),
           100 * total < Modulus
    PROVE  LET percent == calculate_cpu_percent(CpuStat(p), CpuStat(c))
               busy == c["busy"] - p["busy"] IN
           /\ total = 0 => percent = 0
           /\ total > 0 => /\ percent * total <= 100 * busy
                           /\ 100 * busy < (percent + 1) * total
                           /\ percent \in 0 .. 100
<1> DEFINE prev == CpuStat(p)
           curr == CpuStat(c)
           busy == c["busy"] - p["busy"]
           idle == (c["idle"] - p["idle"]) + (c["iowait"] - p["iowait"])
           prev_idle  == Unsigned(prev["idle"] + prev["iowait"])
           curr_idle  == Unsigned(curr["idle"] + curr["iowait"])
           prev_total == Unsigned(prev["busy"] + prev_idle)
           curr_total == Unsigned(curr["busy"] + curr_idle)
           total_diff == Unsigned(curr_total - prev_total)
           idle_diff  == Unsigned(curr_idle - prev_idle)
<1>1. /\ busy \in Nat /\ idle \in Nat /\ total = busy + idle
      /\ \A x \in Counters : p[x] \in Int /\ c[x] \in Int
      /\ Modulus \in Nat \ {0}
  BY SystemMonitorAssumption DEF Counters
<1>2. \A x \in Counters : StandsFor(prev[x], p[x]) /\ StandsFor(curr[x], c[x])
  BY <1>1, SelfStands, UnsignedStands DEF CpuStat
<1> HIDE DEF prev, curr
<1>3. /\ StandsFor(prev_idle, p["idle"] + p["iowait"])
      /\ StandsFor(curr_idle, c["idle"] + c["iowait"])
  BY <1>2, SumStands, UnsignedStands DEF Counters
<1> HIDE DEF prev_idle, curr_idle
<1>4. /\ StandsFor(prev_total, p["busy"] + (p["idle"] + p["iowait"]))
      /\ StandsFor(curr_total, c["busy"] + (c["idle"] + c["iowait"]))
  BY <1>2, <1>3, SumStands, UnsignedStands DEF Counters
<1> HIDE DEF prev_total, curr_total
<1>5. total_diff = total
  <2>1. StandsFor(curr_total - prev_total, (c["busy"] + (c["idle"] + c["iowait"]))
                                             - (p["busy"] + (p["idle"] + p["iowait"])))
    BY <1>4, SumStands
  <2>2. (c["busy"] + (c["idle"] + c["iowait"])) - (p["busy"] + (p["idle"] + p["iowait"])) = total
    BY <1>1 DEF Counters
  <2>3. total \in 0 .. Modulus - 1
    BY <1>1
  <2> QED  BY <2>1, <2>2, <2>3, StandsFits
<1>6. idle_diff = idle
  <2>1. StandsFor(curr_idle - prev_idle, (c["idle"] + c["iowait"]) - (p["idle"] + p["iowait"]))
    BY <1>3, SumStands
  <2>2. (c["idle"] + c["iowait"]) - (p["idle"] + p["iowait"]) = idle
    BY <1>1 DEF Counters
  <2>3. idle \in 0 .. Modulus - 1
    BY <1>1
  <2> QED  BY <2>1, <2>2, <2>3, StandsFits
<1> DEFINE percent == calculate_cpu_percent(prev, curr)
<1>7. percent = IF total_diff = 0 THEN 0
                ELSE Unsigned(Unsigned(total_diff - idle_diff) * 100) \div total_diff
  BY DEF calculate_cpu_percent, prev_idle, curr_idle, prev_total, curr_total
<1> HIDE DEF total_diff, idle_diff, percent
<1>8. total - idle = busy /\ busy <= total
  BY <1>1
<1>9. CASE total = 0
  BY <1>5, <1>7, <1>9 DEF percent, prev, curr
<1>10. CASE total > 0
  <2>1. percent = Unsigned(Unsigned(busy) * 100) \div total
    BY <1>5, <1>6, <1>7, <1>8, <1>10
  <2>2. total \in Nat \ {0}
    BY <1>1, <1>10
  <2> HIDE DEF busy, idle
  <2>3. /\ percent * total <= 100 * busy /\ 100 * busy < (percent + 1) * total
        /\ percent \in 0 .. 100
    BY <1>1, <1>8, <2>1, <2>2, PercentIs
  <2> QED  BY <1>10, <2>3 DEF percent, prev, curr, busy
<1> QED  BY <1>1, <1>9, <1>10

LEMMA CpuFigureIsNat ==
    ASSUME NEW p \in [Counters -> Nat], NEW c \in [Counters -> Nat]
    PROVE  calculate_cpu_percent(CpuStat(p), CpuStat(c)) \in Nat
<1> DEFINE prev == CpuStat(p)
           curr == CpuStat(c)
           prev_idle  == Unsigned(prev["idle"] + prev["iowait"])
           curr_idle  == Unsigned(curr["idle"] + curr["iowait"])
           prev_total == Unsigned(prev["busy"] + prev_idle)
           curr_total == Unsigned(curr["busy"] + curr_idle)
           total_diff == Unsigned(curr_total - prev_total)
           idle_diff  == Unsigned(curr_idle - prev_idle)
<1>1. \A x \in Counters : prev[x] \in Int /\ curr[x] \in Int
  BY UnsignedIs DEF CpuStat
<1> HIDE DEF prev, curr
<1>2. prev_idle \in Int /\ curr_idle \in Int
  BY <1>1, UnsignedIs DEF Counters
<1> HIDE DEF prev_idle, curr_idle
<1>3. prev_total \in Int /\ curr_total \in Int /\ idle_diff \in Int
  BY <1>1, <1>2, UnsignedIs DEF Counters
<1> HIDE DEF prev_total, curr_total, idle_diff
<1>4. total_diff \in Nat
  BY <1>3, UnsignedIs
<1>5. calculate_cpu_percent(prev, curr) =
          IF total_diff = 0 THEN 0
          ELSE Unsigned(Unsigned(total_diff - idle_diff) * 100) \div total_diff
  BY DEF calculate_cpu_percent, prev_idle, curr_idle, prev_total, curr_total, idle_diff
<1> HIDE DEF total_diff
<1>6. Unsigned(total_diff - idle_diff) \in Int
  BY <1>3, <1>4, UnsignedIs
<1>7. Unsigned(Unsigned(total_diff - idle_diff) * 100) \in Nat
  BY <1>6, UnsignedIs
<1>8. calculate_cpu_percent(prev, curr) \in Nat
  BY <1>4, <1>5, <1>7, QuotientIs
<1> QED  BY <1>8 DEF prev, curr

MemoryFits(m) ==
    /\ m["available"] <= m["total"]
    /\ m["free"] + m["buffers"] + m["cached"] + m["sreclaimable"] <= m["total"]
    /\ 100 * m["total"] < Modulus

LEMMA RamFigure ==
    ASSUME NEW m \in [MemInfo -> 0 .. Modulus - 1]
    PROVE  /\ calculate_ram_percent(m) \in Nat
           /\ MemoryFits(m) => calculate_ram_percent(m) \in 0 .. 100
<1> DEFINE used == IF m["available"] > 0 THEN m["total"] - m["available"]
                   ELSE m["total"] - m["free"] - m["buffers"] - m["cached"] - m["sreclaimable"]
           total == m["total"]
<1>1. /\ Modulus \in Nat \ {0} /\ total \in Nat /\ used \in Int
      /\ \A f \in MemInfo : m[f] \in Nat
  BY SystemMonitorAssumption DEF MemInfo
<1>2. calculate_ram_percent(m) = IF total = 0 THEN 0
                                 ELSE Unsigned(Unsigned(used) * 100) \div total
  BY DEF calculate_ram_percent
<1>3. MemoryFits(m) => used \in Nat /\ used <= total /\ 100 * total < Modulus
  BY <1>1 DEF MemoryFits, MemInfo
<1> HIDE DEF used, total
<1>4. CASE total = 0
  BY <1>2, <1>4
<1>5. CASE total # 0
  <2>1. calculate_ram_percent(m) = Unsigned(Unsigned(used) * 100) \div total
    BY <1>2, <1>5
  <2>2. Unsigned(used) \in Nat
    BY <1>1, UnsignedIs
  <2>3. Unsigned(used) * 100 \in Int
    BY <2>2
  <2>4. Unsigned(Unsigned(used) * 100) \in Nat
    BY <2>3, UnsignedIs
  <2>5. calculate_ram_percent(m) \in Nat
    BY <1>1, <1>5, <2>1, <2>4, QuotientIs
  <2>6. MemoryFits(m) => calculate_ram_percent(m) \in 0 .. 100
    BY <1>1, <1>3, <1>5, <2>1, PercentIs
  <2> QED  BY <2>5, <2>6
<1> QED  BY <1>4, <1>5

-----------------------------------------------------------------------------
(***************************************************************************)
(* The inductive invariant: what the next figure is counted from is the    *)
(* machine's counters at the last read, and a press that is drawing the    *)
(* button draws its present figure, unless a timer has come since.         *)
(***************************************************************************)
MonitorTypes ==
    /\ cpu_percent \in Nat /\ ram_percent \in Nat
    /\ real \in [Counters -> Nat] /\ since \in [Counters -> Nat] /\ last \in [Counters -> Nat]
    /\ mem \in [MemInfo -> 0 .. Modulus - 1]
    /\ action_type \in {0, 1} /\ asked \in {0, 1, Nothing}

\* The figure of the action the user took.
Figure == IF asked = 0 THEN cpu_percent ELSE ram_percent

ButtonInv ==
    /\ timers # {} => /\ prev_cpu_stat = CpuStat(last)
                      /\ asked # Nothing /\ action_type = asked
    /\ drawing # Nothing => timers # {} /\ (overtaken \/ drawing = Figure)
    /\ asked = Nothing => ~updated

IInv == MonitorTypes /\ ButtonInv /\ CpuPercentExact /\ RamPercentInRange /\ ShowsItsFigure

LEMMA CpuStatOfZero == CpuStat(Zero) = Zero
<1>1. Unsigned(0) = 0
  BY SystemMonitorAssumption DEF Unsigned
<1> QED  BY <1>1 DEF CpuStat, Zero

LEMMA RamPercentOf ==
    ASSUME NEW m \in Memories, mem' = m, ram_percent' = calculate_ram_percent(m)
    PROVE  /\ mem' \in [MemInfo -> 0 .. Modulus - 1] /\ ram_percent' \in Nat
           /\ RamPercentInRange'
<1>1. m \in [MemInfo -> 0 .. Modulus - 1]
  BY SystemMonitorAssumption
<1> QED  BY <1>1, RamFigure DEF RamPercentInRange, MemoryFits

\* No interval has been measured.
LEMMA NothingPassed ==
    ASSUME cpu_percent' = 0, since' = last', last' \in [Counters -> Nat]
    PROVE  CpuPercentExact'
<1>1. \A c \in Counters : Passed(c)' = 0
  BY DEF Passed
<1>2. TotalTime' = 0
  BY <1>1 DEF TotalTime, Counters
<1> QED  BY <1>2 DEF CpuPercentExact

\* A button is made: nothing is measured, drawn or being drawn yet.
LEMMA MadeInv ==
    ASSUME IInv, NEW action \in {0, 1}, system_monitor_plugin_clone(action), UNCHANGED real,
           asked' = action
    PROVE  IInv'
<1> USE DEF IInv
<1>1. /\ prev_cpu_stat' \in {Zero, CpuStat(real)}
      /\ last' = IF prev_cpu_stat' = CpuStat(real) THEN real ELSE Zero
      /\ since' = last' /\ cpu_percent' = 0 /\ timers' = {"cpu", "ram"}
      /\ action_type' = action /\ drawing' = Nothing /\ ~updated'
  BY DEF system_monitor_plugin_clone, system_monitor_plugin_init
<1>2. PICK m \in Memories : mem' = m /\ ram_percent' = calculate_ram_percent(m)
  BY DEF system_monitor_plugin_clone, system_monitor_plugin_init
<1>3. /\ mem' \in [MemInfo -> 0 .. Modulus - 1] /\ ram_percent' \in Nat
      /\ RamPercentInRange'
  BY <1>2, RamPercentOf
<1>4. real' \in [Counters -> Nat] /\ last' \in [Counters -> Nat]
  BY <1>1 DEF MonitorTypes, Zero
<1>5. prev_cpu_stat' = CpuStat(last')
  BY <1>1, CpuStatOfZero
<1>6. MonitorTypes'
  BY <1>1, <1>3, <1>4 DEF MonitorTypes
<1>7. ButtonInv'
  BY <1>1, <1>5 DEF ButtonInv, Nothing, CpuStat
<1>8. CpuPercentExact'
  BY <1>1, <1>4, NothingPassed
<1>9. ShowsItsFigure'
  BY <1>1 DEF ShowsItsFigure
<1> QED  BY <1>3, <1>6, <1>7, <1>8, <1>9

\* A figure that is not about the counters, and one that is not about the memory.
LEMMA CpuStays ==
    ASSUME CpuPercentExact, UNCHANGED <<cpu_percent, since, last>>
    PROVE  CpuPercentExact'
  BY DEF CpuPercentExact, TotalTime, Passed
LEMMA RamStays ==
    ASSUME RamPercentInRange, UNCHANGED <<ram_percent, mem>>
    PROVE  RamPercentInRange'
  BY DEF RamPercentInRange

LEMMA CpuTimerInv ==
    ASSUME IInv, cpu_update_timer
    PROVE  IInv'
<1> USE DEF IInv
<1>1. /\ cpu_percent' = calculate_cpu_percent(prev_cpu_stat, CpuStat(real))
      /\ prev_cpu_stat' = CpuStat(real) /\ since' = last /\ last' = real
      /\ overtaken' = (overtaken \/ drawing # Nothing)
      /\ UNCHANGED <<action_type, ram_percent, drawing, timers, real, mem, asked>>
      /\ prev_cpu_stat = CpuStat(last) /\ action_type = asked /\ asked # Nothing
      /\ \/ action_type = 0 /\ text' = cpu_percent'
         \/ action_type # 0 /\ UNCHANGED <<text, updated>>
  BY DEF cpu_update_timer, ButtonInv, system_monitor_plugin_render
<1>2. cpu_percent' \in Nat
  BY <1>1, CpuFigureIsNat DEF MonitorTypes
<1>3. MonitorTypes'
  BY <1>1, <1>2 DEF MonitorTypes
<1>4. CpuPercentExact'
  <2> SUFFICES ASSUME (\A c \in Counters : Passed(c) >= 0)', (100 * TotalTime < Modulus)'
               PROVE  /\ (TotalTime = 0 => cpu_percent = 0)'
                      /\ (TotalTime > 0 => /\ cpu_percent * TotalTime <= 100 * Passed("busy")
                                           /\ 100 * Passed("busy") < (cpu_percent + 1) * TotalTime
                                           /\ cpu_percent \in 0 .. 100)'
    BY DEF CpuPercentExact
  <2>1. /\ TotalTime' = (real["busy"] - last["busy"]) + (real["idle"] - last["idle"])
                           + (real["iowait"] - last["iowait"])
        /\ \A c \in Counters : real[c] - last[c] >= 0
        /\ Passed("busy")' = real["busy"] - last["busy"]
    BY <1>1 DEF TotalTime, Passed
  <2>2. last \in [Counters -> Nat] /\ real \in [Counters -> Nat]
    BY DEF MonitorTypes
  <2> HIDE DEF IInv
  <2> QED  BY <1>1, <2>1, <2>2, CpuFigure
<1>5. RamPercentInRange'
  BY <1>1, RamStays
<1>6. ButtonInv'
  BY <1>1 DEF ButtonInv, Figure
<1>7. ShowsItsFigure'
  BY <1>1 DEF ShowsItsFigure
<1> QED  BY <1>3, <1>4, <1>5, <1>6, <1>7

LEMMA RamTimerInv ==
    ASSUME IInv, ram_update_timer
    PROVE  IInv'
<1> USE DEF IInv
<1>1. /\ overtaken' = (overtaken \/ drawing # Nothing)
      /\ UNCHANGED <<action_type, prev_cpu_stat, cpu_percent, drawing, timers, real, since, last,
                     asked>>
      /\ action_type = asked /\ asked # Nothing
      /\ \/ action_type = 1 /\ text' = ram_percent'
         \/ action_type # 1 /\ UNCHANGED <<text, updated>>
  BY DEF ram_update_timer, ButtonInv, system_monitor_plugin_render
<1>2. /\ mem' \in [MemInfo -> 0 .. Modulus - 1] /\ ram_percent' \in Nat
      /\ RamPercentInRange'
  BY RamPercentOf DEF ram_update_timer
<1>3. MonitorTypes'
  BY <1>1, <1>2 DEF MonitorTypes
<1>4. CpuPercentExact'
  BY <1>1, CpuStays
<1>5. ButtonInv'
  BY <1>1 DEF ButtonInv, Figure
<1>6. ShowsItsFigure'
  <2>1. CASE action_type = 1
    BY <1>1, <2>1 DEF ShowsItsFigure
  <2>2. CASE action_type # 1
    <3>1. asked = 0 /\ asked' = 0
      BY <1>1, <2>2 DEF MonitorTypes
    <3> QED  BY <1>1, <2>2, <3>1 DEF ShowsItsFigure
  <2> QED  BY <2>1, <2>2
<1> QED  BY <1>2, <1>3, <1>4, <1>5, <1>6

LEMMA MonitorInitInv == MonitorInit => IInv
<1> SUFFICES ASSUME MonitorInit PROVE IInv
  OBVIOUS
<1> USE SystemMonitorAssumption DEF MonitorInit
<1>1. MonitorTypes
  BY DEF MonitorTypes, MemInfo
<1>2. ButtonInv
  BY DEF ButtonInv
<1>3. CpuPercentExact
  <2>1. \A c \in Counters : Passed(c) = 0
    BY DEF Passed
  <2>2. TotalTime = 0
    BY <2>1 DEF TotalTime, Counters
  <2> QED  BY <2>2 DEF CpuPercentExact
<1>4. RamPercentInRange /\ ShowsItsFigure
  BY DEF RamPercentInRange, ShowsItsFigure
<1> QED  BY <1>1, <1>2, <1>3, <1>4 DEF IInv

LEMMA MonitorStepInv == IInv /\ [MonitorNext]_monitorVars => IInv'
<1> SUFFICES ASSUME IInv, [MonitorNext]_monitorVars PROVE IInv'
  OBVIOUS
<1> USE DEF IInv
<1>1. CASE Drop
  BY <1>1, MadeInv DEF Drop
<1>2. CASE SaveLoad
  <2>1. action_type \in {0, 1} /\ asked' = action_type
    BY <1>2 DEF SaveLoad, MonitorTypes, ButtonInv
  <2> QED  BY <1>2, <2>1, MadeInv DEF SaveLoad
<1>3. ASSUME UNCHANGED <<cpu_percent, ram_percent, since, last, mem, asked, action_type>>,
             real' \in [Counters -> Nat], ButtonInv', ShowsItsFigure'
      PROVE  IInv'
  <2>1. MonitorTypes'
    BY <1>3 DEF MonitorTypes
  <2> QED  BY <1>3, <2>1, CpuStays, RamStays
<1>4. CASE system_monitor_plugin_finalize
  BY <1>3, <1>4 DEF system_monitor_plugin_finalize, MonitorTypes, ButtonInv, ShowsItsFigure,
     Figure
<1>5. CASE system_monitor_exec
  BY <1>3, <1>5 DEF system_monitor_exec, system_monitor_plugin_render, MonitorTypes, ButtonInv,
     ShowsItsFigure, Figure
<1>6. CASE PressDrawn
  BY <1>3, <1>6 DEF PressDrawn, MonitorTypes, ButtonInv, ShowsItsFigure, Figure
<1>7. CASE MachineRuns
  <2>1. real' \in [Counters -> Nat]
    <3>1. PICK g \in Growths : real' = [c \in Counters |-> real[c] + g[c]]
      BY <1>7 DEF MachineRuns
    <3>2. \A c \in Counters : real[c] + g[c] \in Int
      BY SystemMonitorAssumption DEF MonitorTypes
    <3>3. \A c \in Counters : real'[c] \in Nat
      BY <1>7, <3>1, <3>2 DEF MachineRuns
    <3> QED  BY <3>1, <3>3
  <2> QED  BY <1>3, <1>7, <2>1 DEF MachineRuns, monitor, ButtonInv, ShowsItsFigure, Figure
<1>8. CASE UNCHANGED monitorVars
  BY <1>3, <1>8 DEF monitorVars, monitor, MonitorTypes, ButtonInv, ShowsItsFigure, Figure
<1> QED  BY <1>1, <1>2, <1>4, <1>5, <1>6, <1>7, <1>8, CpuTimerInv, RamTimerInv DEF MonitorNext

THEOREM MonitorInvariant == MonitorSpec => []IInv
  BY MonitorInitInv, MonitorStepInv, PTL DEF MonitorSpec

\* calculate_cpu_percent is exact through every overflow of the counters and their
\* sums, and every read that failed.
THEOREM CpuFiguresExact == MonitorSpec => []CpuPercentExact
  BY MonitorInvariant, PTL DEF IInv

\* calculate_ram_percent never passes 100 of a memory that is consistent.
THEOREM RamFiguresInRange == MonitorSpec => []RamPercentInRange
  BY MonitorInvariant, PTL DEF IInv

\* The button shows the figure of its own action, whichever timer comes and however
\* often the program is started, unless a timer came while a press drew it.
THEOREM MonitorShowsItsFigure == MonitorSpec => []ShowsItsFigure
  BY MonitorInvariant, PTL DEF IInv

=============================================================================
