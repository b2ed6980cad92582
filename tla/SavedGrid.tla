----------------------------- MODULE SavedGrid -----------------------------
(***************************************************************************)
(* What the configuration file promises, without buttons, windows or       *)
(* threads: the keys of a grid change one at a time, a save collects them  *)
(* one at a time and replaces the file in one step, and a program that     *)
(* starts shows what the last save that succeeded had collected.           *)
(***************************************************************************)
CONSTANTS
    Keys,
    Contents,   \* what a key may hold
    None,       \* the content of an empty key, in no Contents
    Unread      \* not collected yet: neither of them

VARIABLES
    grid,    \* grid[k]: what key k holds
    draft,   \* draft[k]: what the save in progress has collected of key k
    saved,   \* the file
    up       \* whether the program runs

vars == <<grid, draft, saved, up>>

Empty    == [k \in Keys |-> None]
NoDraft  == [k \in Keys |-> Unread]

Init == grid = Empty /\ draft = NoDraft /\ saved = Empty /\ up = TRUE

Change(k) ==
    /\ up
    /\ \E c \in Contents \cup {None} : grid' = [grid EXCEPT ![k] = c]
    /\ UNCHANGED <<draft, saved, up>>

Collect(k) ==
    /\ up /\ draft[k] = Unread
    /\ draft' = [draft EXCEPT ![k] = grid[k]]
    /\ UNCHANGED <<grid, saved, up>>

\* A save is over when it has collected every key.  It may fail.
Commit ==
    /\ up /\ \A k \in Keys : draft[k] # Unread
    /\ saved' \in {draft, saved}
    /\ draft' = NoDraft
    /\ up' \in BOOLEAN /\ grid' = IF up' THEN grid ELSE Empty

\* The program ends without having saved.
Crash ==
    /\ up /\ ~up'
    /\ grid' = Empty /\ draft' = NoDraft
    /\ UNCHANGED saved

Start ==
    /\ ~up /\ up'
    /\ grid' = saved
    /\ UNCHANGED <<draft, saved>>

Next == Commit \/ Crash \/ Start \/ \E k \in Keys : Change(k) \/ Collect(k)

Spec == Init /\ [][Next]_vars
=============================================================================
