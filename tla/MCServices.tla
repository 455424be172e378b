------------------------------ MODULE MCServices ------------------------------
(***************************************************************************)
(* TLC instances of RestCall and ExperimentRunner.  They share no state:   *)
(* a behaviour is one of either, and the other stays as it was.            *)
(*                                                                         *)
(* RestCall has one caller with a method of every shape, and two writes    *)
(* side by side: methods of one shape take the same steps.                 *)
(***************************************************************************)
EXTENDS RestCall, ExperimentRunner

VARIABLE part   \* the component the behaviour is one of

Shape(m) ==
  LET o == Method[m]
  IN <<o.send.write, o.send.refuses = {}, o.pages, o.missing = "", o.checks = {}, o.body = {},
       o.masks > 0, o.strict>>
Shapes == {Shape(m) : m \in Methods}
OfShape(s) == CHOOSE m \in Methods : Shape(m) = s

NoCalls == [c \in Callers |-> NoMethod]
Alone == {[NoCalls EXCEPT !["a"] = OfShape(s)] : s \in Shapes}
Pair == [c \in Callers |-> IF c = "a" THEN "UpsertDataset" ELSE "DeleteDatasetItem"]
MCAssignments == Alone \cup {Pair, NoCalls}

MCInit ==
  /\ part \in {"rest", "runner"}
  /\ Init /\ (part = "rest" <=> method # NoCalls)
  /\ RunInit

RestNext == part = "rest" /\ Next /\ UNCHANGED <<part, runVars>>
RunnerNext == part = "runner" /\ RunNext /\ UNCHANGED <<part, vars>>
MCNext == RestNext \/ RunnerNext

\* The fairness of both, of the behaviours that are their own.
MCFairness == WF_vars(part = "rest" /\ Running) /\ WF_runVars(part = "runner" /\ RunGoesOn)
MCSpec == MCInit /\ [][MCNext]_<<part, vars, runVars>> /\ MCFairness

\* Every call returns: of the client's API and its Shutdown, and the experiment
\* run.
EveryCallReturns == <>[](Quiet /\ (part = "runner" => Done))
=============================================================================
