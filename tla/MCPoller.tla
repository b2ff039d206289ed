------------------------------ MODULE MCPoller ------------------------------
(***************************************************************************)
(* A store `s` with one array `s/t`, and a store `b` whose runs always     *)
(* fail and which comes first in every list of due scopes.                 *)
(***************************************************************************)
EXTENDS Poller, TLC

B == <<"b">>
S == <<"s">>
T == <<"s", "t">>
MCRank == (B :> 1) @@ (S :> 2) @@ (T :> 3)
MCNodes == {B, S, T}
MCBroken == {B}

\* A chunk of the array, by its user.
MCNoise == {[node |-> T, object |-> "chunk", name |-> "created", principal |-> "user"]}
MCIgnorePrincipals == {"blobmap-svc"}
MCExcludedNames == {}

MCDefaultPolicy == [t_max |-> 8, t_min |-> 0, t_hot |-> 1, width_clamp |-> 2, pow2_floor |-> 4]
=============================================================================
