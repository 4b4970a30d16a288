------------------------------ MODULE MCRouter ------------------------------
(***************************************************************************)
(* Router at a corner of the mesh, (0, 0): links to the east and the south *)
(* and a core.  XY routing brings in by each port only what MCDests says.  *)
(***************************************************************************)
EXTENDS Router

MCDests == (W!dIdxLocal :> {1, 3}) @@ (W!dIdxEast :> {0, 3}) @@ (W!dIdxSouth :> {0})

MCMaxMessages == (W!dIdxLocal :> 1) @@ (W!dIdxEast :> 1) @@ (W!dIdxSouth :> 2)
MCMaxLen == (W!dIdxLocal :> 3) @@ (W!dIdxEast :> 2) @@ (W!dIdxSouth :> 2)

=============================================================================
