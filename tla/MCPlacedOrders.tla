--------------------------- MODULE MCPlacedOrders ---------------------------
(* An instance of PlacedOrders for overlapping requests; who gets which    *)
(* identifier, name or worker makes no difference.                         *)
EXTENDS MCServer, PlacedOrders

Interchangeable ==
  {p @@ n @@ s @@ w : p \in Permutations({p1, p2, p3}), n \in Permutations({n1, n2}),
                      s \in Permutations({s1, s2}), w \in Permutations({w1, w2})}

(* NewID has given one of the identifiers to another room.  On Redis there *)
(* are so two players and two sessions, which two requests to start may    *)
(* make of one room; on the memory stores three players, one more than     *)
(* there are seats and able to overwrite their slots, and one session.     *)
SmallInit ==
  /\ StoresInit /\ local = [w \in Workers |-> NoLocal]
  /\ issued \in {{id} : id \in IF kind = "redis" THEN PlayerIds ELSE SessionIds}
  /\ placed = {}

SmallSpec ==
  SmallInit /\ [][Next /\ placed' = placed \cup NewlyPlaced]_<<vars, placed>>
=============================================================================
