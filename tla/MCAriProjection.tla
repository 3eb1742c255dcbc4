---------------------------- MODULE MCAriProjection ----------------------------
(***************************************************************************)
(* Small instances of AriProjection: a property with a room type and a     *)
(* rate plan, another with a rate plan only; the worker pulls both, a      *)
(* webhook asks for the first.                                             *)
(***************************************************************************)
EXTENDS AriProjection, TLC

CONSTANTS r1, k2, worker, hook, v1, v2

PropertyOfCell == [c \in Cells |-> IF c = k2 THEN 2 ELSE 1]
Scope == [h \in Pullers |-> IF h = worker THEN Properties ELSE {1}]

Faulty(n, kinds) ==
    [k \in FaultKinds |-> IF k = "any" THEN n ELSE IF k \in kinds THEN 1 ELSE 0]
AnyOne == Faulty(1, FaultKinds)
=============================================================================
