---------------------------- MODULE MCScheduler ----------------------------
(* Small instances of Scheduler: a route whose two targets share a pool of two *)
(* credentials, and two requests under one affinity key.                       *)
EXTENDS Scheduler

CONSTANTS r1, r2

Target(priority, weight) ==
    [enabled |-> TRUE, capabilities |-> {"stream"}, pool |-> "a",
     priority |-> priority, weight |-> weight]

MCTargets == <<Target(1, 2), Target(2, 1)>>

Member(priority, weight) == [enabled |-> TRUE, priority |-> priority, weight |-> weight]

MCMembers == [a |-> <<Member(1, 2), Member(1, 1)>>]
MCMemberRows == {NoMember}
MCLimit == <<1, 2>>
MCSnapshots == {[age |-> "fresh", remaining |-> 0, reset |-> Unknown]}
MCQuotaPolicy == [enabled |-> TRUE, requireFresh |-> FALSE, required |-> 1]
MCStrategy == r1 :> "weighted_round_robin" @@ r2 :> "quota_aware"
MCAffinityKey == [r \in Requests |-> "key"]
=============================================================================
