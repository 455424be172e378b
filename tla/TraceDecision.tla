---------------------------- MODULE TraceDecision ----------------------------
(***************************************************************************)
(* Sampling and score suppression on context paths.                        *)
(*                                                                         *)
(* A path is a goroutine with the context it has at hand.  An operation    *)
(* derives the path's next context; a fork hands the context to another    *)
(* path.  The context carries the ambient span, the trace decision of this *)
(* client, a sample rate and the parent WithParent has named.  The         *)
(* application moves spans of its own through the same contexts: foreign   *)
(* spans, spans of another service, and spans it makes active again.       *)
(*                                                                         *)
(* The client owns its provider: on a borrowed one there is no decision to *)
(* make and no score is suppressed.                                        *)
(***************************************************************************)
EXTENDS Naturals, Sequences, FiniteSets

CONSTANTS
  Paths,      \* goroutines
  Rates,      \* sample rates
  Hash,       \* the hashes of the traces, a sequence: what the sampler compares with a rate
  MaxSpans    \* bound: spans of a behaviour

ASSUME SamplerAssumption == Rates \subseteq Nat /\ Rates # {} /\ Hash \in Seq(Nat)

VARIABLES
  ctx,        \* the context of each path
  spans       \* every span started, in order

pathVars == <<ctx, spans>>

-----------------------------------------------------------------------------
Traces == 1..Len(Hash)
Invalid == 0
IsSpan(s) == s # Invalid
Used == {spans[s].trace : s \in DOMAIN spans}
NoDecision == [trace |-> 0, sampled |-> FALSE, authoritative |-> FALSE, lastSDKSpanID |-> Invalid]
TraceOf(s) == IF IsSpan(s) THEN spans[s].trace ELSE 0

\* lost is history: the traces in which a foreign span came between two
\* observations of the path.
Background == [ambient |-> Invalid, decision |-> NoDecision, rate |-> CHOOSE r \in Rates : TRUE,
               parent |-> Invalid, lost |-> {}]

sampledAt(trace, rate) == Hash[trace] < rate

\* sampler.ShouldSample
ShouldSample(c, trace) ==
  IF c.decision.trace = trace THEN c.decision.sampled ELSE sampledAt(trace, c.rate)

\* Mutant: the parent's decision is taken as it is.
MutOverrideDecision(c) == spans[c.parent].decision
\* What a start under WithParent inherits: the parent's decision, without the
\* authority the path has lost in the parent's trace.
overrideDecision(c) ==
  LET decision == spans[c.parent].decision
      known == c.decision.trace = decision.trace
      foreign == TraceOf(c.ambient) = decision.trace /\ ~(known /\ c.decision.lastSDKSpanID = c.ambient)
  IN [decision EXCEPT !.authoritative = @ /\ (known => c.decision.authoritative) /\ ~foreign]

\* Mutant: any span of the trace continues the path.
MutContinues(c, parent) == TraceOf(parent) = c.decision.trace
Continues(c, parent) == TraceOf(parent) = c.decision.trace /\ parent = c.decision.lastSDKSpanID

nextTraceDecision(c, parent, started, trace, sampled) ==
  IF c.decision.trace = trace
  THEN [trace |-> trace, sampled |-> c.decision.sampled, lastSDKSpanID |-> started,
        authoritative |-> c.decision.authoritative /\ Continues(c, parent)]
  ELSE [trace |-> trace, sampled |-> sampled, lastSDKSpanID |-> started, authoritative |-> ~IsSpan(parent)]

-----------------------------------------------------------------------------
(* The client.                                                             *)

StartContext(c) ==
  IF IsSpan(c.parent) THEN [c EXCEPT !.ambient = c.parent, !.decision = overrideDecision(c), !.parent = Invalid] ELSE c

\* The traces a start loses for the path: a foreign span is its parent, or is
\* ambient in the trace of the parent WithParent names; and what the parent's
\* own path has lost.
Losses(c, parent) ==
  {TraceOf(s) : s \in {t \in {parent, c.ambient} : IsSpan(t) /\ ~spans[t].sdk /\ TraceOf(t) = TraceOf(parent)}}
  \cup (IF IsSpan(parent) THEN spans[parent].lost ELSE {})

Started(c, base, parent, trace, sampled) ==
  LET id == Len(spans) + 1
      decision == nextTraceDecision(base, parent, id, trace, sampled)
      lost == c.lost \cup Losses(c, parent)
  IN [context |-> [base EXCEPT !.ambient = id, !.decision = decision, !.lost = lost],
      span |-> [trace |-> trace, parent |-> parent, sdk |-> TRUE, sampled |-> sampled,
                decision |-> decision, lost |-> lost]]
Install(p, started) ==
  /\ ctx' = [ctx EXCEPT ![p] = started.context]
  /\ spans' = Append(spans, started.span)

Fresh == Traces \ Used
StartObservation(p) ==
  LET base == StartContext(ctx[p])
  IN /\ Len(spans) < MaxSpans
     /\ \E trace \in IF IsSpan(base.ambient) THEN {TraceOf(base.ambient)} ELSE Fresh :
          Install(p, Started(ctx[p], base, base.ambient, trace, ShouldSample(base, trace)))

\* An experiment item starts a trace of its own, always sampled.
StartItemRoot(p) ==
  /\ Len(spans) < MaxSpans
  /\ \E trace \in Fresh :
       Install(p, Started(ctx[p], [ctx[p] EXCEPT !.parent = Invalid], Invalid, trace, TRUE))

WithSampleRate(p, rate) == ctx[p].rate # rate /\ ctx' = [ctx EXCEPT ![p].rate = rate] /\ UNCHANGED spans
WithParent(p, s) == spans[s].sdk /\ ctx[p].parent # s /\ ctx' = [ctx EXCEPT ![p].parent = s] /\ UNCHANGED spans

\* suppressScore for a score of the trace, recorded on the path.
suppressScore(c, trace) ==
  /\ c.decision.trace = trace /\ c.decision.authoritative /\ ~c.decision.sampled
  /\ IsSpan(c.ambient) /\ TraceOf(c.ambient) = trace /\ c.ambient = c.decision.lastSDKSpanID

-----------------------------------------------------------------------------
(* The application.                                                        *)

ForeignSpan(trace, parent) ==
  [trace |-> trace, parent |-> parent, sdk |-> FALSE, sampled |-> TRUE, decision |-> NoDecision, lost |-> {}]
\* Another tracer's span, under the ambient span or in a trace of its own.
StartForeign(p) ==
  /\ Len(spans) < MaxSpans
  /\ \E trace \in IF IsSpan(ctx[p].ambient) THEN {TraceOf(ctx[p].ambient)} ELSE Fresh :
       /\ spans' = Append(spans, ForeignSpan(trace, ctx[p].ambient))
       /\ ctx' = [ctx EXCEPT ![p].ambient = Len(spans) + 1]
\* A request of another service, of any trace.
Extract(p) ==
  /\ Len(spans) < MaxSpans
  /\ \E trace \in Used :
       /\ spans' = Append(spans, ForeignSpan(trace, Invalid))
       /\ ctx' = [ctx EXCEPT ![p].ambient = Len(spans) + 1]
\* A span is made active, or none.
Activate(p, s) == ctx[p].ambient # s /\ ctx' = [ctx EXCEPT ![p].ambient = s] /\ UNCHANGED spans
Fork(p, q) == ctx[p] # ctx[q] /\ ctx' = [ctx EXCEPT ![q] = ctx[p]] /\ UNCHANGED spans

PathInit == ctx = [p \in Paths |-> Background] /\ spans = <<>>
PathNext ==
  \E p \in Paths :
    \/ StartObservation(p) \/ StartItemRoot(p) \/ StartForeign(p) \/ Extract(p)
    \/ \E rate \in Rates : WithSampleRate(p, rate)
    \/ \E s \in DOMAIN spans : WithParent(p, s)
    \/ \E s \in DOMAIN spans \cup {Invalid} : Activate(p, s)
    \/ \E q \in Paths : Fork(p, q)
PathSpec == PathInit /\ [][PathNext]_pathVars

-----------------------------------------------------------------------------
\* A suppressed score had nothing to attach to: from the ambient span up to the
\* root of the trace there are observations of this client only, none of them
\* sampled, whatever foreign spans, forks, overridden parents and rates the
\* path went through.
SuppressionIsSound ==
  \A p \in Paths, trace \in Used : suppressScore(ctx[p], trace) =>
    \E lineage \in SUBSET DOMAIN spans :
      /\ ctx[p].ambient \in lineage
      /\ \A s \in lineage : /\ spans[s].sdk /\ ~spans[s].sampled /\ spans[s].trace = trace
                            /\ spans[s].parent \in lineage \cup {Invalid}

\* Authority a path has lost in the trace it is in, or loses by the foreign span
\* it is under, stays lost for what it starts in that trace, under its own
\* observations or under a parent from another path.
HasLost(c) ==
  ~c.decision.authoritative \/ (TraceOf(c.ambient) = c.decision.trace /\ ~spans[c.ambient].sdk)
AuthorityStaysLost ==
  [][spans' # spans /\ spans'[Len(spans')].sdk =>
       \A p \in Paths : /\ ctx'[p] # ctx[p] /\ ctx[p].decision # NoDecision /\ HasLost(ctx[p])
                        /\ ctx'[p].decision.trace = ctx[p].decision.trace
                        => ~ctx'[p].decision.authoritative]_pathVars

\* "Score-suppression authority that ctx's path already lost in parent's trace
\* is not restored."
AuthorityNeverReturns ==
  \A p \in Paths : ctx[p].decision.authoritative => ctx[p].decision.trace \notin ctx[p].lost
=============================================================================
