------------------------------ MODULE MCVault ------------------------------
(***************************************************************************)
(* Instances of the vault for TLC: two sources whose slugs differ and two  *)
(* contents with different raw_ids.                                        *)
(***************************************************************************)
EXTENDS VaultProperties, TLC

CONSTANTS u1, u2, h1, h2, r1, r2, s1, s2

MCRawIdOf == h1 :> r1 @@ h2 :> r2

MCSlugOf == u1 :> s1 @@ u2 :> s2
=============================================================================
