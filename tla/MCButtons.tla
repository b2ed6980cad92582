----------------------------- MODULE MCButtons -----------------------------
(***************************************************************************)
(* Instances for TLC of the buttons that keep a state: ObsActions,         *)
(* Countdown and SystemMonitor.  A behaviour runs one of them and leaves   *)
(* the others as they start, where none of their fair actions can be       *)
(* taken.                                                                  *)
(***************************************************************************)
EXTENDS ObsActions, Countdown, SystemMonitor, TLC

CONSTANTS
    Buttons,                  \* which of the three a run is about
    main, intro, cam, mic, pause

VARIABLE button    \* the one that runs

allVars == <<button, obsVars, countdownVars, monitorVars>>

MCInit ==
    /\ button \in Buttons
    /\ Init /\ CountdownInit /\ MonitorInit
    /\ button # "obs" => data = NoData /\ kind = "chapter_marker" /\ obs.program = main
    /\ label # pause          \* the names are alike
    /\ button # "countdown" => label = NoLabel /\ duration = MaxDuration
    /\ button # "monitor" => real = CHOOSE r \in FirstCounts : TRUE

MCNext ==
    \/ button = "obs" /\ Next /\ UNCHANGED <<button, countdownVars, monitorVars>>
    \/ button = "countdown" /\ CountdownNext /\ UNCHANGED <<button, obsVars, monitorVars>>
    \/ button = "monitor" /\ MonitorNext /\ UNCHANGED <<button, obsVars, countdownVars>>

MCSpec == MCInit /\ [][MCNext]_allVars
MCFairSpec == MCSpec /\ Fairness /\ CountdownFairness

-----------------------------------------------------------------------------
\* The camera is in both scenes; its id in the one is the microphone's in the
\* other.
Items == main :> (cam :> 1) @@ intro :> (cam :> 2 @@ mic :> 1)

\* A machine that has just started, and counters that are about to pass the
\* modulus, each on its own or in their sums.
Counts(b, i, w) == [c \in Counters |-> CASE c = "busy" -> b [] c = "idle" -> i [] OTHER -> w]
SomeCounts  == {Counts(3, 2, 1), Counts(1022, 300, 0), Counts(500, 520, 2)}
SomeGrowths == {Counts(0, 0, 0), Counts(1, 2, 3), Counts(2, 3, -1)}

\* Kernels with and without MemAvailable, an empty memory, and a file that
\* could not be read.
Mem(t, f, a, b, c, s) ==
    [m \in MemInfo |-> CASE m = "total" -> t [] m = "free" -> f [] m = "available" -> a
                         [] m = "buffers" -> b [] m = "cached" -> c [] OTHER -> s]
SomeMemories == {Mem(0, 0, 0, 0, 0, 0), Mem(8, 1, 5, 1, 3, 1), Mem(8, 1, 0, 2, 3, 1), Mem(8, 0, 0, 0, 0, 0)}

=============================================================================
