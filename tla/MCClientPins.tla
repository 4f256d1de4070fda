---------------------------- MODULE MCClientPins ----------------------------
(* OpenFgaClient as it can be configured: nothing pinned, the model pinned   *)
(* (as deploy.sh does), or the store and the model.                          *)
EXTENDS MCOpenFgaClient

VARIABLE pinned   \* what is; chosen at the start

ByModel == INSTANCE OpenFgaClient WITH PinnedModel <- 1
ByBoth == INSTANCE OpenFgaClient WITH PinnedStore <- 1, PinnedModel <- 1

PinsInit == pinned \in {"nothing", "model", "both"} /\ Init

PinsNext ==
    /\ \/ pinned = "nothing" /\ Next
       \/ pinned = "model" /\ ByModel!Next
       \/ pinned = "both" /\ ByBoth!Next
    /\ UNCHANGED pinned

PinsSpec == PinsInit /\ [][PinsNext]_<<vars, pinned>>
=============================================================================
