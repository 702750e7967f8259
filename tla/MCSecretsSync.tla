--------------------------- MODULE MCSecretsSync ---------------------------
(* The instance of SecretsSync for TLC. *)
EXTENDS SecretsSync
=============================================================================
