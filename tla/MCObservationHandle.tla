-------------------------- MODULE MCObservationHandle --------------------------
(***************************************************************************)
(* A TLC instance of ObservationHandle: a handful of inputs that meet each *)
(* limit.                                                                  *)
(***************************************************************************)
EXTENDS ObservationHandle, TLC

Nothing == [level |-> "none", status |-> 0, version |-> FALSE, input |-> 0, metadata |-> {}]

MCInputs ==
  {Nothing,
   [Nothing EXCEPT !.input = 1, !.version = TRUE],
   [Nothing EXCEPT !.input = 4],
   [Nothing EXCEPT !.level = "DEFAULT", !.status = 1, !.metadata = {"m1", "m2"}],
   [Nothing EXCEPT !.level = "ERROR", !.metadata = {"m2", "m3"}]}

MCMetaOrder == <<"m1", "m2", "m3">>

Symmetry == Permutations(Calls)
=============================================================================
