--------------------------- MODULE MCRepartition ---------------------------
(***************************************************************************)
(* A small store for Repartition.  t_max is 8: `tas` is met small, large   *)
(* and sharded, and large and rewritten with v2 keys; `a-b` and `a_b`      *)
(* sanitise to the same id; `z/pr` is tiny or above t_max; `time` is a     *)
(* coordinate.                                                             *)
(***************************************************************************)
EXTENDS Repartition

\* Numerals(Nat) is what the proofs assume of decimal numerals.
ASSUME NumeralsAssumption == Numerals(0..99)

MCScope == <<"s">>
MCBasenames == {"zarr.json"}

MCWords == [seg \in {"tas", "pr", "time", "z", "a-b", "a_b", "c"} |->
    CASE seg \in {"a-b", "a_b"} -> <<"a", "b">> [] OTHER -> <<seg>>]

MCIndices == [seg \in {"tas", "pr", "time", "z", "a-b", "a_b", "c", "s",
                       "0", "3", "3.0", "zarr.json"} |->
    CASE seg = "0" -> <<0>> [] seg = "3" -> <<3>> [] seg = "3.0" -> <<3, 0>>
      [] OTHER -> <<NotAnInt>>]

Policy(t_max, t_min) ==
    [t_max |-> t_max, t_min |-> t_min, t_hot |-> 1, width_clamp |-> 2, pow2_floor |-> 4]
MCDefaultPolicy == Policy(8, 0)
MCPolicies == {NoPolicy, Policy(8, 3)}

Plain(path, stored) ==
    [path |-> path, shape |-> <<2>>, chunks |-> <<1>>, shards |-> <<>>, itemsize |-> 4,
     stored |-> stored, seen |-> 2, coordinate |-> path = <<"time">>, encoding |-> "v3_slash"]

\* 8 shards of 8 units, well compressed: t_max asks for 4 to a blob, the clamp allows 2.
Sharded == [Plain(<<"tas">>, 16) EXCEPT !.shape = <<32>>, !.shards = <<4>>, !.itemsize = 2, !.seen = 8]

\* Cut along both dimensions, so a slice of dimension 0 is four objects.
Flat == [Plain(<<"tas">>, 32) EXCEPT !.shape = <<8, 4>>, !.chunks = <<1, 1>>, !.itemsize = 2,
                                     !.seen = 32, !.encoding = "v2_flat"]

Absent == <<>>
MCListings ==
    {ab \o a_b \o tas \o time \o pr :
        ab   \in {Absent, <<Plain(<<"a-b">>, 2)>>},
        a_b  \in {Absent, <<Plain(<<"a_b">>, 5)>>},
        tas  \in {Absent, <<Sharded>>, <<Flat>>},
        time \in {Absent, <<Plain(<<"time">>, 3)>>},
        pr   \in {Absent, <<Plain(<<"z", "pr">>, 1)>>, <<Plain(<<"z", "pr">>, 12)>>}}

MCPinPrefixes == {<<"tas">>, <<"tas", "c">>}

MCKeys == {<<"tas", "c", "3">>, <<"tas", "3.0">>, <<"a-b", "c", "0">>, <<"a_b", "c", "0">>,
           <<"time", "c", "0">>, <<"z", "pr", "c", "3">>}
=============================================================================
