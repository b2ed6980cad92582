----------------------------- MODULE MCObsCalls -----------------------------
(***************************************************************************)
(* Two questions in one run: what the threads can do to each other, and    *)
(* what the callers get when requests come from the main thread alone.     *)
(***************************************************************************)
EXTENDS ObsWs

VARIABLE alone    \* only the main thread sends requests and creates buttons

SplitInit == Init /\ alone \in BOOLEAN
SplitNext ==
    /\ Next /\ UNCHANGED alone
    /\ alone => userCalls' <= 1 /\ \A t \in Pool : pc'[t] = "idle"
    /\ ~alone => cloning' = NoPlugin
SplitSpec == SplitInit /\ [][SplitNext]_<<vars, alone>>

\* A response runs the callback of the call it answers and no other, when
\* requests come from one thread (ids are then unique: uwsc_message_id).
ResponseToLoneCaller == alone => ResponseToCaller

=============================================================================
