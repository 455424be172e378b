--------------------------- MODULE ExperimentRunner ---------------------------
(***************************************************************************)
(* Client.RunExperiment: workers that claim items from one counter, the    *)
(* start of an item's root and its link to a dataset run, the task, the    *)
(* evaluators and their scores, and the caller that collects the results.  *)
(*                                                                         *)
(* A step ends where an item calls out (a Mask, the provider, the server,  *)
(* a task, an evaluator, the score queue) or looks at state that others    *)
(* change: the claim counter, the context, Client.stopped.  What values    *)
(* hold is left out but for what decides an outcome: whether they are      *)
(* there, encode as an object, and survive their Mask.                     *)
(***************************************************************************)
EXTENDS Naturals, FiniteSets, Sequences

CONSTANTS
  Items,           \* the number of items of the run
  Linked,          \* the items that belong to a dataset
  Concurrency,     \* ExperimentRun.MaxConcurrency, with its default applied
  Evaluators,      \* the number of item evaluators
  Composite,       \* whether the run has a composite evaluator
  RunEvaluators    \* the number of run evaluators

\* What RunExperiment checks of a run, and makes of it, before it starts workers.
ASSUME SizesAssumption ==
  /\ Items \in Nat /\ Linked \subseteq 1..Items /\ Concurrency \in Nat \ {0}
  /\ Evaluators \in Nat /\ RunEvaluators \in Nat

Index == 1..Items
Workers == 1..(IF Concurrency < Items THEN Concurrency ELSE Items)

VARIABLES
  ended,      \* whether the caller's context has ended
  clientStopped,  \* Client.stopped
  next,       \* the counter the workers claim items from
  worker,     \* [Workers -> where it is, the item at hand]
  results,    \* [Index -> ItemResults[i]]
  root,       \* [Index -> the item's root observation]
  link,       \* [Index -> whether the server holds the item's link]
  runs,       \* [Index -> times the task has run] (history)
  scores,     \* [Index -> evaluations queued as scores of the root] (history)
  run         \* the calling goroutine, the run's result and the run's scores

runVars == <<ended, clientStopped, next, worker, results, root, link, runs, scores, run>>

\* err tells an item that was not started from one that failed, dataset whether DatasetRunID is set, traced
\* whether TraceID and ObservationID are, evals the evaluations it holds.
NoResult == [err |-> "none", written |-> FALSE, dataset |-> FALSE, traced |-> FALSE, evals |-> 0, evalErr |-> FALSE]
\* identity are the identity attributes the root carries.
NoRoot == [at |-> "none", identity |-> {}, failed |-> FALSE, kept |-> TRUE]

RunInit ==
  /\ ended = FALSE /\ clientStopped = FALSE
  /\ next = 0
  /\ worker = [w \in Workers |-> [at |-> "claim", item |-> 0, evaluator |-> 0]]
  /\ results = [i \in Index |-> NoResult]
  /\ root = [i \in Index |-> NoRoot]
  /\ link = [i \in Index |-> "none"]
  /\ runs = [i \in Index |-> 0] /\ scores = [i \in Index |-> 0]
  /\ run = [at |-> "wait", evaluator |-> 0, evals |-> 0, scored |-> 0, dataset |-> 0, returns |-> "none"]

RunContextEnds ==
  /\ run.at # "done" /\ ~ended /\ ended' = TRUE
  /\ UNCHANGED <<clientStopped, next, worker, results, root, link, runs, scores, run>>

ClientStops ==
  /\ run.at # "done" /\ ~clientStopped /\ clientStopped' = TRUE
  /\ UNCHANGED <<ended, next, worker, results, root, link, runs, scores, run>>

GoOn(w, step) == worker' = [worker EXCEPT ![w].at = step]

-----------------------------------------------------------------------------
(* Claiming. *)

\* One atomic addition; a worker that finds no item left is finished.
Claim(w) ==
  /\ worker[w].at = "claim"
  /\ next' = next + 1
  /\ worker' = [worker EXCEPT ![w] =
       IF next >= Items THEN [@ EXCEPT !.at = "gone"]
       ELSE [at |-> "check", item |-> next + 1, evaluator |-> 0]]
  /\ UNCHANGED <<ended, clientStopped, results, root, link, runs, scores, run>>

WriteResult(i, r) == results' = [results EXCEPT ![i] = [r EXCEPT !.written = TRUE]]

\* Client.runExperimentItem returns err for the item, and the worker goes on.
Fail(w, r, err) == WriteResult(worker[w].item, [r EXCEPT !.err = err]) /\ GoOn(w, "claim")

\* Mutant: a worker leaves its item when it finds the context ended.
MutCheck(w) ==
  /\ worker[w].at = "check"
  /\ \/ ended /\ GoOn(w, "gone") /\ UNCHANGED results
     \/ ~ended /\ GoOn(w, "start") /\ UNCHANGED results
  /\ UNCHANGED <<ended, clientStopped, next, root, link, runs, scores, run>>

\* The context, and the options of the item, which are its own.
Check(w) ==
  /\ worker[w].at = "check"
  /\ \/ ended /\ Fail(w, NoResult, "not started")
     \/ ~ended /\ Fail(w, NoResult, "failed")
     \/ ~ended /\ GoOn(w, "start") /\ UNCHANGED results
  /\ UNCHANGED <<ended, clientStopped, next, root, link, runs, scores, run>>

-----------------------------------------------------------------------------
(* What an item exports of its values.  A value is nil, an object, another  *)
(* JSON value, or one that cannot be encoded within its limit.              *)

Kinds == {"nil", "empty", "object", "other", "broken"}
MaskResults == Kinds \cup {"panic"}

\* jsonObject: other values than objects are not metadata, and not an error.
jsonObject(v) == CASE v \in {"object", "empty"} -> "object" [] v = "broken" -> "error" [] OTHER -> "none"

\* experimentMetadata of value v, which its Mask turned into m.
experimentMetadata(v, m) ==
  CASE jsonObject(v) = "error" -> "error"
    [] jsonObject(v) = "none" \/ v = "empty" -> "absent"
    [] m = "panic" -> "error"
    [] m = "nil" -> "absent"
    [] jsonObject(m) # "object" -> "error"
    [] OTHER -> "encoded"

\* The expected output is content, whatever its kind.
expectedOutput(v, m) ==
  CASE v = "nil" -> "absent" [] m \in {"panic", "broken"} -> "error" [] m = "nil" -> "absent" [] OTHER -> "encoded"

\* experimentAttributeSets: the outcomes of the three values, masked in order.
AttributeOutcomes ==
  {experimentMetadata(v, m) : v \in Kinds, m \in MaskResults}
    \cup {expectedOutput(v, m) : v \in Kinds, m \in MaskResults}

\* The attributes an item's root carries: what links it (the experiment ID and
\* the root's own ID) and what describes it.
Shared == {"names"}
StartAttributes(i) == IF i \in Linked THEN Shared ELSE Shared \cup {"id"}
FullIdentity == Shared \cup {"id", "root"}

-----------------------------------------------------------------------------
(* The start of an item. *)

\* Client.stopped and the masks; nothing has been started when one fails.
Prepare(w) ==
  /\ worker[w].at = "start"
  /\ IF clientStopped THEN Fail(w, NoResult, "failed")
     ELSE \E outcome \in AttributeOutcomes :
            IF outcome = "error" THEN Fail(w, NoResult, "failed")
            ELSE GoOn(w, "root") /\ UNCHANGED results
  /\ UNCHANGED <<ended, clientStopped, next, root, link, runs, scores, run>>

\* Client.startObservation starts no span once the client has stopped; a
\* borrowed provider's sampler may drop the span it starts.
StartRoot(w) ==
  LET i == worker[w].item IN
  /\ worker[w].at = "root"
  /\ \/ /\ clientStopped /\ Fail(w, NoResult, "failed")
        /\ UNCHANGED root
     \/ /\ ~clientStopped
        /\ root' = [root EXCEPT ![i] = [NoRoot EXCEPT !.at = "dropped", !.kept = FALSE]]
        /\ Fail(w, NoResult, "failed")
     \/ /\ ~clientStopped
        /\ root' = [root EXCEPT ![i] = [NoRoot EXCEPT !.at = "open", !.identity = StartAttributes(i)]]
        /\ GoOn(w, IF i \in Linked THEN "link" ELSE "identify") /\ UNCHANGED results
  /\ UNCHANGED <<ended, clientStopped, next, link, runs, scores, run>>

EndRoot(i, identity, failed) ==
  root' = [root EXCEPT ![i] = [@ EXCEPT !.at = "ended", !.identity = identity, !.failed = failed]]

\* linkDatasetRunItem sends one write.  The server stores the link or not,
\* and its answer, or an error, comes back; DatasetRunID is set by an answer.
linkItem(w) ==
  LET i == worker[w].item IN
  /\ worker[w].at = "link"
  /\ \/ /\ link' = [link EXCEPT ![i] = "stored"]
        /\ results' = [results EXCEPT ![i].dataset = TRUE]
        /\ GoOn(w, "identify") /\ UNCHANGED root
     \/ /\ \E l \in {"none", "stored"} : link' = [link EXCEPT ![i] = l]
        /\ EndRoot(i, root[i].identity, TRUE)
        /\ Fail(w, NoResult, "failed")
  /\ UNCHANGED <<ended, clientStopped, next, runs, scores, run>>

\* Mutant: the result keeps what the link had set.
MutStartFailed(i) == results[i]

\* A failed start keeps no DatasetRunID, whatever the link had set.
StartFailed(i) == NoResult

\* What is left of the identity attributes of a root that is blanked.
withoutIdentity(identity) == identity \ {"id", "root", "names"}

\* The root gets its full identity.  The provider's span limits may have
\* dropped some of it, or a filter refuse it: such a root is blanked and ended.
Identify(w) ==
  LET i == worker[w].item IN
  /\ worker[w].at = "identify"
  /\ \/ /\ root' = [root EXCEPT ![i].identity = FullIdentity]
        /\ results' = [results EXCEPT ![i].traced = TRUE]
        /\ GoOn(w, "task")
     \/ \E held \in {FullIdentity, Shared} :
          /\ EndRoot(i, withoutIdentity(held), TRUE)
          /\ Fail(w, StartFailed(i), "failed")
  /\ UNCHANGED <<ended, clientStopped, next, link, runs, scores, run>>

-----------------------------------------------------------------------------
(* The task and the evaluators. *)

\* The task returns, fails, or panics; the root ends in each case.
Task(w) ==
  LET i == worker[w].item IN
  /\ worker[w].at = "task"
  /\ runs' = [runs EXCEPT ![i] = @ + 1]
  /\ \/ EndRoot(i, root[i].identity, TRUE) /\ Fail(w, results[i], "failed")
     \/ /\ EndRoot(i, root[i].identity, FALSE)
        /\ worker' = [worker EXCEPT ![w] = [@ EXCEPT !.at = "evaluate", !.evaluator = 1]]
        /\ UNCHANGED results
  /\ UNCHANGED <<ended, clientStopped, next, link, scores, run>>

\* The evaluators in order, then the composite if any evaluation was made.
NextEvaluator(w) ==
  LET e == worker[w].evaluator
  IN CASE e <= Evaluators -> "item"
       [] e = Evaluators + 1 /\ Composite /\ results[worker[w].item].evals > 0 -> "composite"
       [] OTHER -> "none"

\* An evaluator fails, or makes an evaluation (or none), whose score the queue
\* takes or refuses: recordScore refuses every score of a stopped client.
Evaluate(w) ==
  LET i == worker[w].item IN
  /\ worker[w].at = "evaluate" /\ NextEvaluator(w) # "none"
  /\ \/ results' = [results EXCEPT ![i].evalErr = TRUE] /\ UNCHANGED scores
     \/ UNCHANGED <<results, scores>>
     \/ \E taken \in IF clientStopped THEN {FALSE} ELSE BOOLEAN :
          /\ results' = [results EXCEPT ![i].evals = @ + 1, ![i].evalErr = @ \/ ~taken]
          /\ scores' = [scores EXCEPT ![i] = IF taken THEN @ + 1 ELSE @]
  /\ worker' = [worker EXCEPT ![w].evaluator = @ + 1]
  /\ UNCHANGED <<ended, clientStopped, next, root, link, runs, run>>

Finish(w) ==
  /\ worker[w].at = "evaluate" /\ NextEvaluator(w) = "none"
  /\ WriteResult(worker[w].item, results[worker[w].item]) /\ GoOn(w, "claim")
  /\ UNCHANGED <<ended, clientStopped, next, root, link, runs, scores, run>>

-----------------------------------------------------------------------------
(* The caller. *)

LinkedResults == {i \in Index : results[i].dataset}
FirstLinked ==
  IF LinkedResults = {} THEN {0} ELSE {i \in LinkedResults : \A j \in LinkedResults : i <= j}

\* Every worker has gone: the run's experiment is the first linked item's.
Collect ==
  /\ run.at = "wait" /\ \A w \in Workers : worker[w].at = "gone"
  /\ \E first \in FirstLinked : run' = [run EXCEPT !.at = "canceled?", !.dataset = first]
  /\ UNCHANGED <<ended, clientStopped, next, worker, results, root, link, runs, scores>>

ReturnRun(r) == run' = [run EXCEPT !.at = "done", !.returns = r]

\* The context is looked at before the run evaluators and after each of them.
CheckCanceled ==
  /\ run.at = "canceled?"
  /\ IF ended THEN ReturnRun("canceled")
     ELSE run' = [run EXCEPT !.at = IF run.evaluator < RunEvaluators THEN "evaluate" ELSE "score"]
  /\ UNCHANGED <<ended, clientStopped, next, worker, results, root, link, runs, scores>>

RunEvaluate ==
  /\ run.at = "evaluate"
  /\ \E made \in {0, 1} :
       run' = [run EXCEPT !.at = "canceled?", !.evaluator = @ + 1, !.evals = @ + made]
  /\ UNCHANGED <<ended, clientStopped, next, worker, results, root, link, runs, scores>>

\* The run's evaluations are scores of its dataset run, if there is one.
RunScore ==
  /\ run.at = "score"
  /\ \E taken \in IF run.dataset = 0 \/ clientStopped THEN {0} ELSE 0..run.evals :
       run' = [run EXCEPT !.at = "flush", !.scored = taken]
  /\ UNCHANGED <<ended, clientStopped, next, worker, results, root, link, runs, scores>>

\* Client.Flush may fail, and must when its context has ended.
Flush ==
  /\ run.at = "flush"
  /\ \/ ReturnRun("flush failed")
     \/ ReturnRun(IF ended THEN "canceled" ELSE "ok")
  /\ UNCHANGED <<ended, clientStopped, next, worker, results, root, link, runs, scores>>

runExperimentItem(w) ==
  \/ Prepare(w) \/ StartRoot(w) \/ linkItem(w) \/ Identify(w) \/ Task(w) \/ Evaluate(w) \/ Finish(w)
WorkerSteps(w) == Claim(w) \/ Check(w) \/ runExperimentItem(w)
CallerSteps == Collect \/ CheckCanceled \/ RunEvaluate \/ RunScore \/ Flush

RunNext == RunContextEnds \/ ClientStops \/ CallerSteps \/ \E w \in Workers : WorkerSteps(w)
RunSpec == RunInit /\ [][RunNext]_runVars

\* The goroutines run, and tasks, evaluators and requests return: one that can
\* take a step does.
RunGoesOn == CallerSteps \/ \E w \in Workers : WorkerSteps(w)
FairRunSpec == RunSpec /\ WF_runVars(RunGoesOn)

-----------------------------------------------------------------------------
Past == {"canceled?", "evaluate", "score", "flush", "done"}

\* Types: a task runs at most once per item.
RunTypeOK ==
  /\ next \in 0..Items + Cardinality(Workers)
  /\ \A w \in Workers : worker[w].item \in 0..Items
  /\ \A i \in Index : runs[i] \in 0..1 /\ results[i].evals \in 0..Evaluators + 1
  /\ run.dataset \in 0..Items

\* Once the workers are gone every item has its one result: it ran, or its
\* error says why not.  No two workers ever hold one item.
EachItemOnce ==
  /\ \A v, w \in Workers : v # w /\ worker[v].at # "gone" /\ worker[w].at # "gone" =>
       worker[v].item = 0 \/ worker[v].item # worker[w].item
  /\ run.at \in Past => \A i \in Index : results[i].written /\ (runs[i] = 1 \/ results[i].err # "none")

\* A result names only what exists: a dataset run the server linked the item
\* to, and a root with its whole identity that is exported.  Scores refer to
\* such a root, and the run's own scores to a linked run.
ResultsNameWhatExists ==
  /\ \A i \in Index : results[i].written =>
       /\ results[i].dataset => link[i] = "stored" /\ results[i].traced
       /\ results[i].traced => root[i].at = "ended" /\ root[i].identity = FullIdentity
  /\ \A i \in Index : scores[i] > 0 =>
       results[i].traced /\ root[i].at = "ended" /\ root[i].identity = FullIdentity
  /\ run.scored > 0 => link[run.dataset] = "stored"

\* A root that is exported although its item failed to start does not carry
\* what would make Langfuse take it for an item of the experiment.
FailedStartsAreNoItems ==
  \A i \in Index : results[i].written /\ ~results[i].traced /\ root[i].at = "ended" =>
    "id" \notin root[i].identity

\* What results name is true: the run and the trace they name exist, and an item
\* whose trace could not start claims none.
ResultsAreTrue == ResultsNameWhatExists /\ FailedStartsAreNoItems

\* The run returns, whatever fails and whenever its context ends.
Done == run.at = "done"
RunReturns == <>[]Done
=============================================================================
