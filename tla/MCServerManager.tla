-------------------------- MODULE MCServerManager --------------------------
(***************************************************************************)
(* ServerManager on a small machine, with a catalogue in which every model *)
(* has every component.  Ports and directories are interchangeable, so one *)
(* setting of server.toml stands for all that a Manager may begin with.    *)
(* A model was installed there, and may be damaged since; the other        *)
(* directory is empty until a migration removes it, or fills it.           *)
(***************************************************************************)
EXTENDS ServerManager

CONSTANTS p1, r1

MCModelComponents == [m \in Models |-> Components]

MCInit ==
  /\ Init
  /\ file = [port |-> p1, root |-> r1]
  /\ used = {r1} /\ made = Roots

MCSpec == MCInit /\ [][Next]_vars /\ Fairness
=============================================================================
