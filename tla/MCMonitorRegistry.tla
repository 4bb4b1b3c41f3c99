------------------------- MODULE MCMonitorRegistry -------------------------
(* MonitorRegistry on small instances.                                     *)
EXTENDS RegistryRefinement, TLC

CONSTANTS d1, d2

(* Every path on one device, which its ancestor shares. *)
OneDevice == [p \in Path |-> d1]

(* Every path is a mount point: its ancestor is on the other device. *)
OtherDevice == [p \in Path |-> d2]

(* With constant DevOf and AncestorDev and no LogPath the paths are alike. *)
AlikePaths == Permutations(Path)
=============================================================================
