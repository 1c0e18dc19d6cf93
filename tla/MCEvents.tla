------------------------------- MODULE MCEvents -------------------------------
(***************************************************************************)
(* Small instances of PlatformEvents for TLC.  The calls of an instance    *)
(* are on laboratory endpoints or on cooperative endpoints: those of the   *)
(* two modules meet only where a message waits for the handler of another, *)
(* and that happens within one module too.                                 *)
(***************************************************************************)
EXTENDS PlatformEvents

VARIABLES focus  \* the endpoints that are called

mcVars == <<vars, focus>>

MCInit ==
    /\ Init
    /\ \/ focus = "laboratory" /\ \A c \in Coops : coop[c] = NoImage
       \/ focus = "cooperative" /\ \A t \in Tests : test[t] = NoTest

MCNext ==
    /\ Consumer \/ (focus = "laboratory" /\ LabStep) \/ (focus = "cooperative" /\ CoopStep)
    /\ UNCHANGED focus

MCSpec == MCInit /\ [][MCNext]_mcVars

MCFairSpec == MCSpec /\ Fairness
=============================================================================
