----------------------------- MODULE MCCatalog -----------------------------
(***************************************************************************)
(* A small bucket.  Store p/a, as deep as a scan looks, begins with a      *)
(* large array x; its group and a small array y are written later.  p/.tmp *)
(* is a store in an excluded directory, with a large array x of another    *)
(* encoding: copied to p/a and taken up there, its manifest claims what it *)
(* cannot number.  Operators may give a run a policy under which p/a is    *)
(* one blob and y is held back.                                            *)
(***************************************************************************)
EXTENDS Catalog

Small(path) ==
    [path |-> path, shape |-> <<2>>, chunks |-> <<1>>, shards |-> <<>>, itemsize |-> 4,
     stored |-> 2, seen |-> 2, coordinate |-> FALSE, encoding |-> "v3_slash"]

MCArrays ==
    <<[Small(<<"p", ".tmp", "x">>) EXCEPT !.stored = 12, !.encoding = "v2_slash"],
      [Small(<<"p", "a", "x">>) EXCEPT !.stored = 12],
      Small(<<"p", "a", "y">>)>>

MCNodes ==
    {<<"p", ".tmp">>, <<"p", ".tmp", "x">>,
     <<"p", "a">>, <<"p", "a", "x">>, <<"p", "a", "y">>}
MCEarly == MCNodes \ {<<"p", "a">>, <<"p", "a", "y">>}
MCRoot == <<>>
MCRank == [n \in MCNodes |->
    CASE n = <<"p", ".tmp">> -> 1 [] n = <<"p", ".tmp", "x">> -> 2 [] n = <<"p", "a">> -> 3
      [] n = <<"p", "a", "x">> -> 4 [] n = <<"p", "a", "y">> -> 5]

MCDefaultPolicy == [t_max |-> 8, t_min |-> 0, t_hot |-> 1, width_clamp |-> 2, pow2_floor |-> 4]
\* Everything in one blob, and more held back.
Coarse == [MCDefaultPolicy EXCEPT !.t_max = 100, !.t_hot = 4]
MCPolicies == {NoPolicy, Coarse}
MCBasenames == {"zarr.json"}
Segments == {"p", "a", "x", "y", ".tmp", "c", "0", "zarr.json"}
MCWords == [seg \in Segments |-> IF seg = ".tmp" THEN <<"tmp">> ELSE <<seg>>]
MCIndices == [seg \in Segments |-> IF seg = "0" THEN <<0>> ELSE <<NotAnInt>>]
=============================================================================
