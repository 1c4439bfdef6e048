------------------------- MODULE MC_HeavyQuerySlots -------------------------
(***************************************************************************)
(* Instances of HeavyQuerySlots for TLC.                                   *)
(***************************************************************************)
EXTENDS HeavyQuerySlots, TLC

CONSTANTS c1, c2, c3, o1, o2, o3

MCCallers == {c1, c2, c3}

\* Every caller has an owner_id of its own.
OwnOwners == {o1, o2, o3}
OwnOwnerOf == (c1 :> o1) @@ (c2 :> o2) @@ (c3 :> o3)

OneStrict == {c1}
=============================================================================
