---------------------------- MODULE MCCredentials ----------------------------
(* Credentials with one serving thread beside the poller. *)
EXTENDS Credentials, TLC

CONSTANTS k1, k2, p1, web1

MCKeysOf == [s \in Services |-> IF s = "zernio" THEN {k1, k2} ELSE {p1}]

\* The .env file of an installation that names a key and leaves the account to
\* the look-up.
MCEnv == [s \in Services |-> [key |-> IF s = "zernio" THEN k1 ELSE None, acc |-> None]]

=============================================================================
