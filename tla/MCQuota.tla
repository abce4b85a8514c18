------------------------------ MODULE MCQuota ------------------------------
(* Two workers that share a credential, and one worker with two credentials, *)
(* one of them of a provider without a quota probe.                          *)
EXTENDS Quota

CONSTANTS w1, w2

MCDeployments == {[workers |-> {w1, w2}, active |-> {2}],
                  [workers |-> {w1}, active |-> {1, 2}]}
=============================================================================
