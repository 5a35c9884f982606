-------------------------- MODULE MCGroupMembership --------------------------
(***************************************************************************)
(* Two hosts for GroupMembership.  The goer leaves, fails and crashes; the *)
(* stayer stays, and its clock runs ahead, so that it refuses what comes a *)
(* tick late.  One scene each for what the stayer is told of the goer,     *)
(* what the goer hears as it changes groups, what leaving does when        *)
(* everything can fail, and for two hosts that stay together.              *)
(***************************************************************************)
EXTENDS GroupMembership

CONSTANTS goer, stayer

MCLead == [h \in Host |-> IF h = stayer THEN 1 ELSE 0]
MCScenes ==
  { [groups |-> {"home"}, talks |-> {goer}, listens |-> {stayer}, operates |-> {goer},
     suppresses |-> {}, leaves |-> {goer}, faults |-> {}],
    [groups |-> Group, talks |-> {stayer}, listens |-> {goer}, operates |-> {},
     suppresses |-> {}, leaves |-> {goer}, faults |-> {}],
    [groups |-> {"home"}, talks |-> {}, listens |-> {}, operates |-> {goer},
     suppresses |-> {goer}, leaves |-> {goer}, faults |-> Fault],
    [groups |-> {"home"}, talks |-> Host, listens |-> Host, operates |-> {},
     suppresses |-> {}, leaves |-> {}, faults |-> {}] }
=============================================================================
