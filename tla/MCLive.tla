------------------------------- MODULE MCLive -------------------------------
(***************************************************************************)
(* Instances for TLC of the two parts in which threads have to get         *)
(* somewhere together: ObsWs, with a main thread and no buttons, and       *)
(* KeyImage.  A behaviour runs one of them and leaves the other as it      *)
(* starts.  The fairness of ObsWs is asked of the behaviours that run it;  *)
(* at the start of KeyImage no fair action can be taken.                   *)
(***************************************************************************)
EXTENDS ObsWs, MCKeyImage

VARIABLE part    \* the one that runs

MCInit ==
    /\ part \in {"obs", "image"}
    /\ Init /\ ImageInit
    /\ part = "obs" => th[MainThread].key = CHOOSE k \in Keys : TRUE

MCNext ==
    \/ part = "obs" /\ Next /\ UNCHANGED <<part, imageVars>>
    \/ part = "image" /\ ImageNext /\ UNCHANGED <<part, vars>>

MCFairSpec ==
    /\ MCInit /\ [][MCNext]_<<part, vars, imageVars>>
    /\ part = "obs" => Fairness
    /\ ImageFairness

\* IdentifiedUnlessHelloLost, of the behaviours that run the client.
IdentifiedInTheEnd == part = "obs" => IdentifiedUnlessHelloLost

=============================================================================
