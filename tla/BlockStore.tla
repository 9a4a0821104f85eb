------------------------------- MODULE BlockStore ------------------------------
(***************************************************************************)
(* What the buffer cache promises: blocks with one content each, which a   *)
(* process reads and changes only while it alone has the block.            *)
(***************************************************************************)
CONSTANTS Procs, Blocks, Vals, Nobody

VARIABLES content, owner

Init == content \in [Blocks -> Vals] /\ owner = [k \in Blocks |-> Nobody]

Take(p, k) == owner[k] = Nobody /\ owner' = [owner EXCEPT ![k] = p]
Leave(p, k) == owner[k] = p /\ owner' = [owner EXCEPT ![k] = Nobody]
Store(p, k) == owner[k] = p /\ \E v \in Vals : content' = [content EXCEPT ![k] = v]

Next ==
  \/ UNCHANGED owner /\ \E p \in Procs, k \in Blocks : Store(p, k)
  \/ UNCHANGED content /\ owner' # owner /\ \E p \in Procs, k \in Blocks : Take(p, k) \/ Leave(p, k)

Spec == Init /\ [][Next]_<<content, owner>>

==============================================================================
