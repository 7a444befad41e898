--------------------------- MODULE MC_StateStore ---------------------------
(* Two processes, two environments, two names; each environment's scripts   *)
(* store one value of their own.                                            *)
EXTENDS StateStore, TLC

CONSTANTS p1, p2, dev, prod, n1, n2, fromDev, fromProd

MCProcs == {p1, p2}
MCEnvs == {dev, prod}
MCNames == {n1, n2}
MCStored == (dev :> {fromDev}) @@ (prod :> {fromProd})
=============================================================================
