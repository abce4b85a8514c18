----------------------------- MODULE MCApiKey -----------------------------
(* Two keys that share a limiter with room for one window. *)
EXTENDS ApiKey, TLC

CONSTANTS m1, m2, a1, a2

MCProfiles ==
    {[rpm |-> 1, tpm |-> None, ips |-> {}, models |-> {m1}],
     [rpm |-> 2, tpm |-> 3, ips |-> {a1}, models |-> {m1, m2}]}

(* No policy of the operator, or one that allows everything but one model. *)
MCAssigned ==
    {[default |-> "deny", allow |-> {}, deny |-> {}],
     [default |-> "allow", allow |-> {}, deny |-> {m1}]}

MCModels == {m1, m2}
MCAddresses == {a1, a2}

Symmetry == Permutations(Keys) \cup Permutations(Requests)
=============================================================================
