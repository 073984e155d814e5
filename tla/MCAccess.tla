------------------------------ MODULE MCAccess ------------------------------
(* Accounts and credentials for TLC: the permission tables and the git      *)
(* identities share no state, so a behaviour exercises one of the two.      *)
EXTENDS Access, GitIdentity, TLC

CONSTANTS t1, c1, p1, p2
VARIABLE part

MCProcOf == (t1 :> p1) @@ (c1 :> p2)
MCSymmetry == Permutations(Exchangers)
Init == AccessInit /\ IdentityInit /\ part \in {"access", "identity"}
Next ==
    /\ \/ part = "access" /\ AccessNext /\ UNCHANGED identityVars
       \/ part = "identity" /\ IdentityNext /\ UNCHANGED accessVars
    /\ UNCHANGED part

\* However requests, commands and restarts interleave, somebody can administer
\* the server, and an account that was cut off holds no token the forge accepts.
AccountsTrue == AccessTypeOK /\ IdentityTypeOK /\ SuperuserRemains /\ CutOff
=============================================================================
