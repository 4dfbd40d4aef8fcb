---------------------------- MODULE MCTransports ----------------------------
(* One pool block that rotates an address beside one static upstream, or a   *)
(* deployment with static upstreams only.                                    *)
EXTENDS Transports

CONSTANTS r1, r2, ws

Entry(id, addr) == [id |-> id, addr |-> addr]

Rotating == [b \in Blocks |-> {{Entry("ws1", "old")}, {Entry("ws1", "new")},
                               {Entry("ws1", "old"), Entry("ws1", "new")}}]

StaticLists == {{Entry("s1", "old")}, {Entry("s1", "new")}, {}}
EitherDeployment == {{}, Blocks}
=============================================================================
