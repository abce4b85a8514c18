---------------------------- MODULE MCCredential ----------------------------
(* Two processes and two credentials, one of a source the runtime knows. *)
EXTENDS Credential

CONSTANTS c1, c2

MCSource == c1 :> "oauth" @@ c2 :> "custom"
=============================================================================
