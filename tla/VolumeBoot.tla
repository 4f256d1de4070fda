----------------------------- MODULE VolumeBoot -----------------------------
(***************************************************************************)
(* The postgres instance and its volume, as the rest of the deployment     *)
(* sees them: whether a database can be reached, and what a deleted or     *)
(* crashed instance leaves on the volume.  PostgresBoot shows how          *)
(* wrapper.sh brings this about.                                           *)
(***************************************************************************)

VARIABLES volume,   \* "none"; or its data: "empty", "half" set up, "ready"
          boot      \* the instance: "down", "initialising" or "serving"

bootVars == <<volume, boot>>

BootTypeOK ==
    /\ volume \in {"none", "empty", "half", "ready"}
    /\ boot \in {"down", "initialising", "serving"}

BootInit ==
    /\ volume = "none"
    /\ boot = "down"

CreateVolume ==
    /\ volume = "none"
    /\ volume' = "empty"
    /\ UNCHANGED boot

\* Only a volume no instance uses can be deleted.
DeleteVolume ==
    /\ volume # "none"
    /\ boot = "down"
    /\ volume' = "none"
    /\ UNCHANGED boot

\* The first boot finds nothing and starts the setup.
StartSetup ==
    /\ boot = "down"
    /\ volume = "empty"
    /\ boot' = "initialising"
    /\ volume' = "half"

\* The setup fails and leaves nothing behind.
UndoSetup ==
    /\ boot = "initialising"
    /\ volume = "half"
    /\ boot' = "down"
    /\ volume' = "empty"

CompleteSetup ==
    /\ boot = "initialising"
    /\ volume = "half"
    /\ volume' = "ready"
    /\ UNCHANGED boot

\* After its setup, or on a volume that has data: it is never set up again.
Serve ==
    /\ \/ boot = "initialising" /\ volume = "ready"
       \/ boot = "down" /\ volume \in {"half", "ready"}
    /\ boot' = "serving"
    /\ UNCHANGED volume

\* A crash, a failed step or a deletion, at any point.
GoDown ==
    /\ boot # "down"
    /\ boot' = "down"
    /\ UNCHANGED volume

BootNext ==
    \/ CreateVolume
    \/ DeleteVolume
    \/ StartSetup
    \/ UndoSetup
    \/ CompleteSetup
    \/ Serve
    \/ GoDown

BootSpec == BootInit /\ [][BootNext]_bootVars
=============================================================================
