-------------------------- MODULE HandleOwnership --------------------------
(***************************************************************************)
(* What Socket promises about descriptors, without a word about how: a     *)
(* handle of the system is free, or belongs to exactly one holder, or to   *)
(* the rest of the process.  A holder has at most one.  A handle goes from *)
(* one holder to another only when it is handed over, and comes back only  *)
(* by the release of its holder.                                           *)
(***************************************************************************)
CONSTANTS Holders, Handles

VARIABLES
  holding,    \* the handles of each holder
  free,       \* the handles nobody has
  outside,    \* those that belong to the rest of the process
  abandoned   \* those whose holder went away without releasing them

vars == <<holding, free, outside, abandoned>>

TypeOK ==
  /\ holding \in [Holders -> SUBSET Handles]
  /\ free \subseteq Handles
  /\ outside \subseteq Handles
  /\ abandoned \subseteq Handles

Init ==
  /\ holding = [h \in Holders |-> {}]
  /\ outside \in SUBSET Handles
  /\ free = Handles \ outside
  /\ abandoned = {}

Acquire(h, x) ==
  /\ x \in free
  /\ holding[h] = {}
  /\ holding' = [holding EXCEPT ![h] = {x}]
  /\ free' = free \ {x}
  /\ UNCHANGED <<outside, abandoned>>

Release(h, x) ==
  /\ x \in holding[h]
  /\ holding' = [holding EXCEPT ![h] = {}]
  /\ free' = free \cup {x}
  /\ UNCHANGED <<outside, abandoned>>

HandOver(h, g, x) ==
  /\ x \in holding[h]
  /\ holding[g] = {}
  /\ holding' = [holding EXCEPT ![h] = {}, ![g] = {x}]
  /\ UNCHANGED <<free, outside, abandoned>>

Abandon(h, x) ==
  /\ x \in holding[h]
  /\ holding' = [holding EXCEPT ![h] = {}]
  /\ abandoned' = abandoned \cup {x}
  /\ UNCHANGED <<free, outside>>

OutsideAcquire(x) ==
  /\ x \in free
  /\ free' = free \ {x}
  /\ outside' = outside \cup {x}
  /\ UNCHANGED <<holding, abandoned>>

OutsideRelease(x) ==
  /\ x \in outside
  /\ free' = free \cup {x}
  /\ outside' = outside \ {x}
  /\ UNCHANGED <<holding, abandoned>>

Next ==
  \E x \in Handles :
    \/ \E h \in Holders : Acquire(h, x) \/ Release(h, x) \/ Abandon(h, x)
    \/ \E h, g \in Holders : HandOver(h, g, x)
    \/ OutsideAcquire(x)
    \/ OutsideRelease(x)

Spec == Init /\ [][Next]_vars

============================================================================
