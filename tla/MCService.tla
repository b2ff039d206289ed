----------------------------- MODULE MCService -----------------------------
(***************************************************************************)
(* Two jobs on a store of a root group, a variable `tas` and a coordinate  *)
(* `time`.  t_max is 4: with one data object `tas` (3) fits one blob with  *)
(* everything, with two (6) it is cut inside.                              *)
(***************************************************************************)
EXTENDS Service

MCNodes == {"root", "tas", "time"}
MCPath == [root |-> <<>>, tas |-> <<"tas">>, time |-> <<"time">>]
MCOrder == <<"root", "tas", "time">>

Meta(kind, shape, dims) ==
    [kind |-> kind, shape |-> shape, object |-> <<1>>, inner |-> <<>>, itemsize |-> 4,
     dims |-> dims, encoding |-> "v3_slash", written |-> "v3_slash"]

MCLayout ==
    [root |-> <<Meta("group", <<>>, <<>>)>>,
     tas  |-> <<Meta("array", <<2>>, <<>>)>>,
     time |-> <<Meta("array", <<1>>, <<"time">>)>>]

MCObjectSize == [root |-> 0, tas |-> 3, time |-> 1]
MCMaxObjects == [root |-> 0, tas |-> 2, time |-> 0]

Symmetry == Permutations(Jobs)

MCWords == [seg \in {"tas", "time", "c"} |-> <<seg>>]

MCDefaultPolicy == [t_max |-> 4, t_min |-> 0, t_hot |-> 1, width_clamp |-> 2, pow2_floor |-> 4]

Run(force, dry_run) == [NoOp EXCEPT !.kind = "partition", !.force = force, !.dry_run = dry_run]
OnPin(kind) == [NoOp EXCEPT !.kind = kind, !.prefix = <<"tas">>]
Coarse == [MCDefaultPolicy EXCEPT !.t_max = 20]
MCOperations ==
    {Run(FALSE, FALSE), Run(TRUE, FALSE), Run(FALSE, TRUE),
     [Run(FALSE, FALSE) EXCEPT !.policy = Coarse], OnPin("pin"), OnPin("unpin")}
=============================================================================
