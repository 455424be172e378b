------------------------------- MODULE MCStarts -------------------------------
(***************************************************************************)
(* TLC instances of what starting a span decides: whether the processor    *)
(* expects it and which span is a trace's root (ClientLifecycle), whether  *)
(* its trace is sampled and its scores are suppressed (TraceDecision), and *)
(* the attributes of its trace (Baggage).  They share no state: a          *)
(* behaviour is one of any, and the others stay as they were.              *)
(***************************************************************************)
EXTENDS ClientLifecycle, TraceDecision, Baggage, TLC

VARIABLE part   \* the component the behaviour is one of

\* Two traces whose hashes no rate but 1 admits.
TwoTraces == <<0, 0>>

MCScalars == <<"user">>
MCKeys == <<"k1", "k2", "k3">>
\* The masker moves k3 to k1 and makes of k2 something structured.
MCRemap == "k1" :> "k1" @@ "k2" :> "k2" @@ "k3" :> "k1"
MCStructured == {"k2"}
MCValues == {"v", "off"}
MCOffWire == {"off"}
Message(ns, others, trace) == [members |-> ns, foreign |-> others, trace |-> trace]
MCMessages ==
  {Message(<<>>, 0, 1), Message("user" :> "v" @@ "k2" :> "v", 1, 1),
   Message("user" :> "w" @@ "tags" :> "v" @@ "trace" :> 2, 0, 2),
   Message("user" :> "off" @@ "k1" :> "v" @@ "trace" :> 1, 3, 1),
   Message("k2" :> "w" @@ "k3" :> "w" @@ "trace" :> 1, 0, 2)}

MCInit == part \in {"spans", "sampling", "attributes"} /\ Init /\ PathInit /\ BaggageInit
SpansNext == part = "spans" /\ Next /\ UNCHANGED <<part, pathVars, baggageVars>>
SamplingNext == part = "sampling" /\ PathNext /\ UNCHANGED <<part, vars, baggageVars>>
AttributesNext == part = "attributes" /\ BaggageNext /\ UNCHANGED <<part, vars, pathVars>>
MCNext == SpansNext \/ SamplingNext \/ AttributesNext
MCSpec == MCInit /\ [][MCNext]_<<part, vars, pathVars, baggageVars>>
SamplingSpec == part = "sampling" /\ MCSpec

(* Errors and results are read only by the calls that return them: for     *)
(* invariants about spans, states that differ in those alone are one.      *)
SpanView == <<setupVars, provVars, procVars, stopped, down, span,
              [x \in Callers |-> caller[x].at \in {"idle", "swap", "owns"}]>>
View == <<part, SpanView, pathVars, baggageVars>>
=============================================================================
