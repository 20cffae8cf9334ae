-------------------------- MODULE MCFullNodeStore --------------------------
(***************************************************************************)
(* Two chains that part after b1, in three sub-slots of four iterations:     *)
(*                                                                           *)
(*        | slot 0   | slot 1 (e1)         | slot 2 (e2, e2c or e2b)         *)
(*          b0 at 2    b1 at 5 - b2 at 7   - b3 at 9, an overflow block      *)
(*                          \ c2 at 6 - c3 at 7                              *)
(*                                                                           *)
(* e2b is the end of slot 1 for a timelord that knows neither b2 nor c2.     *)
(***************************************************************************)
EXTENDS FullNodeStore

CONSTANTS b0, b1, b2, b3, d2, d3, e1, e2, e2b, e2c, k1, k2

MCPrev == (b0 :> NONE) @@ (b1 :> b0) @@ (b2 :> b1) @@ (b3 :> b2) @@ (d2 :> b1) @@ (d3 :> d2)
MCIters == (b0 :> 2) @@ (b1 :> 5) @@ (b2 :> 7) @@ (b3 :> 9) @@ (d2 :> 6) @@ (d3 :> 7)
MCWeight == (b0 :> 1) @@ (b1 :> 2) @@ (b2 :> 3) @@ (b3 :> 5) @@ (d2 :> 3) @@ (d3 :> 4)
MCIpSlot == (b0 :> NONE) @@ (b1 :> e1) @@ (b2 :> e1) @@ (b3 :> e2) @@ (d2 :> e1) @@ (d3 :> e1)
MCSpSlot == [b \in Blocks |-> IF b = b3 THEN e1 ELSE NONE]

Sp(cc, index, rc) == [cc |-> cc, index |-> index, rc |-> rc]
MCBlockSp ==
    (b0 :> NONE) @@ (b1 :> NONE) @@ (b2 :> Sp(k1, 1, b1)) @@ (b3 :> Sp(k1, 3, b2))
    @@ (d2 :> NONE) @@ (d3 :> Sp(k1, 1, b1))

MCCcPrev == (e1 :> GENESIS) @@ (e2 :> k1) @@ (e2b :> k1) @@ (e2c :> k1)
MCCcHash == (e1 :> k1) @@ (e2 :> k2) @@ (e2b :> k2) @@ (e2c :> k2)
MCSlotStart == [e \in Slots |-> IF e = e1 THEN 4 ELSE 8]
MCRc == (e1 :> b0) @@ (e2 :> b2) @@ (e2b :> b1) @@ (e2c :> d3)

MCSignagePoints ==
    {Sp(k1, 1, b1), Sp(k1, 2, b1), Sp(k1, 2, d2), Sp(k1, 3, b2), Sp(k2, 1, e2)}
=============================================================================
