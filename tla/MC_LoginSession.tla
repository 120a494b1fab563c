-------------------------- MODULE MC_LoginSession ---------------------------
(* Instances of LoginSession for TLC. *)
EXTENDS LoginSession, TLC

CONSTANTS s1, s2, s3, v1, v2

TwoServers == s1 :> v1 @@ s2 :> v1 @@ s3 :> v2
OneServer == s1 :> v1 @@ s2 :> v1 @@ s3 :> v1
=============================================================================
