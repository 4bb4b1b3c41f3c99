------------------------- MODULE RegistryRefinement -------------------------
(***************************************************************************)
(* The monitor registry implements Registrations: to its clients, all that *)
(* MonitorRegistry does about groups, marks, deleted directories and       *)
(* retries is stuttering.                                                  *)
(***************************************************************************)
EXTENDS MonitorRegistry

Reg == {r \in Path \X StoreCmd : Registered(r[1], Normalise(r[2]))}

Abs == INSTANCE Registrations WITH
         Name   <- StoreCmd,
         up     <- pc # "down",
         reg    <- Reg,
         plan   <- {r \in Path \X StoreCmd : pc = "reloadAdd" /\ todo[r[1]][r[2]] > 0},
         doomed <- work

(* Every step of the registry is a step of Registrations or leaves the     *)
(* registrations alone: a start takes up the whole store, an answered      *)
(* command changes its own (path, cmd) only, a reload adds only what it    *)
(* read and removes only paths it did not find, a failed add is not left   *)
(* half done, and no deletion, retry or failure of the factory adds or     *)
(* drops anything (as long as no path vanishes between two tests of one    *)
(* handler, see registry_race).                                            *)
ImplementsRegistrations == Abs!Spec
=============================================================================
