---------------------------- MODULE MCOcConfig ----------------------------
(***************************************************************************)
(* Model checking of OcConfig: contents that differ in what they support   *)
(* and ignore, and one of each kind of mistake.                            *)
(***************************************************************************)
EXTENDS OcConfig, TLC

OcOrder == <<"CR", "CI", "LA">>

Files ==
    {[supported |-> {"CR", "CI"}, bad |-> {},     ignored |-> {"LA"}],
     [supported |-> {"CR", "LA"}, bad |-> {},     ignored |-> {"CI"}],
     [supported |-> {"CR", "CI"}, bad |-> {"CI"}, ignored |-> {"LA"}],
     [supported |-> {},           bad |-> {},     ignored |-> {}],
     [supported |-> {"CR", "LA"}, bad |-> {},     ignored |-> NotAList]}

Symmetry == Permutations(Threads)
=============================================================================
