----------------------------- MODULE MCComposer -----------------------------
(* Two pool blocks: "ws" is healed and cached and rotates the address        *)
(* behind an id; either block may run empty, which is allowed as long as     *)
(* something remains.  The static list is empty or takes the id "ws" serves, *)
(* and a deployment may have that list alone.                                *)
EXTENDS Composer

CONSTANTS ws, mlv

Entry(id, addr) == [id |-> id, addr |-> addr]

TwoBlocks ==
    [b \in Blocks |->
       IF b = ws THEN {{Entry("ws1", "old")}, {Entry("ws1", "new")}, {}}
       ELSE {{Entry("mlv1", "old")}, {}}]

StaticLists == {{}, {Entry("ws1", "static")}}
EitherDeployment == {{}, Blocks}
=============================================================================
