----------------------------- MODULE GeminiStream -----------------------------
(***************************************************************************)
(* The parser of one Gemini attempt: streamed chunks of candidates, whose  *)
(* texts gather by candidate and whose other parts gather in one list,     *)
(* under one byte budget; or one unary body.  There is no terminal event:  *)
(* a stream that ends after an event has succeeded.                        *)
(***************************************************************************)
EXTENDS Naturals, Sequences

CONSTANTS
  Answers,         \* what the provider may send: chunks, or unary bodies
  MaxAnswers,      \* bound: chunks of one stream
  maxCandidates,   \* of candidates, of extra parts and of finish reasons
  geminiCap        \* the capture cap

PartTypes == [kind : {"empty", "text", "thought", "call", "media"}, text : Seq(STRING), size : Nat]
CandidateTypes == [parts : Seq(PartTypes), reason : Nat]
ASSUME AnswersAssumption ==
  Answers \subseteq [type : {"garbled", "error", "chunk"}, candidates : Seq(CandidateTypes)]
ASSUME GeminiBounds == maxCandidates \in Nat /\ geminiCap \in Nat

VARIABLES
  gem,        \* the call
  outcome,    \* the terminal, "none" until there is one
  heard,      \* the number of events
  told        \* the texts and parts the provider sent (history)

geminiVars == <<gem, outcome, heard, told>>

-----------------------------------------------------------------------------
Candidates == 1..maxCandidates
Silent == [deltas |-> [n \in Candidates |-> <<>>], extras |-> <<>>]
newGemini == [kept |-> Silent, bytes |-> 0, over |-> FALSE, partial |-> FALSE, reasons |-> 0,
            stream |-> FALSE, unary |-> FALSE, error |-> FALSE]
GeminiPartial(c) == [c EXCEPT !.partial = TRUE]

\* charge, over the cap.
DropAll(c) == [c EXCEPT !.kept = Silent, !.over = TRUE]
Charged(c, n) == [c EXCEPT !.bytes = @ + n]

appendDelta(c, n, text) ==
  CASE c.over -> c
    [] ~c.over /\ n \notin Candidates -> GeminiPartial(c)
    [] OTHER -> IF c.bytes + Len(text) > geminiCap THEN DropAll(c)
                ELSE [Charged(c, Len(text)) EXCEPT !.kept.deltas[n] = @ \o text]

\* Parts beyond the limit are ignored.
retainExtra(c, part) ==
  CASE c.over \/ Len(c.kept.extras) >= maxCandidates -> c
    [] OTHER -> IF c.bytes + part.size > geminiCap THEN DropAll(c)
                ELSE [Charged(c, part.size) EXCEPT !.kept.extras = Append(@, part)]

retainFinishReason(c, size) ==
  CASE size = 0 \/ c.reasons >= maxCandidates -> c
    [] OTHER -> IF c.bytes + size > geminiCap THEN GeminiPartial(c) ELSE [Charged(c, size) EXCEPT !.reasons = @ + 1]

\* A part is an extra, a thought included, or the text of its candidate; an
\* empty one bears nothing.
consumePart(c, n, part) ==
  CASE part.kind = "empty" -> c
    [] part.kind = "text"  -> appendDelta(c, n, part.text)
    [] part.kind \in {"thought", "call", "media"} -> retainExtra(c, part)

ConsumeParts(c, n, parts) ==
  LET after[k \in 0..Len(parts)] == IF k = 0 THEN c ELSE consumePart(after[k - 1], n, parts[k])
  IN after[Len(parts)]
consumeCandidate(c, n, candidate) ==
  retainFinishReason(ConsumeParts(c, n, candidate.parts), candidate.reason)
consumeResponse(c, candidates) ==
  LET after[n \in 0..Len(candidates)] == IF n = 0 THEN c ELSE consumeCandidate(after[n - 1], n, candidates[n])
  IN after[Len(candidates)]

FeedAnswer(c, e) ==
  LET d == [c EXCEPT !.stream = TRUE]
  IN CASE e.type = "garbled" -> GeminiPartial(d)
       [] e.type = "error"   -> [d EXCEPT !.error = TRUE]
       [] e.type = "chunk"   -> consumeResponse(d, e.candidates)

RetainReasons(c, candidates) ==
  LET after[n \in 0..Len(candidates)] == IF n = 0 THEN c ELSE retainFinishReason(after[n - 1], candidates[n].reason)
  IN after[Len(candidates)]

\* FinishUnary: the candidates are rendered from the body itself.
FinishAnswer(c, e) ==
  CASE e.type = "garbled" -> GeminiPartial(c)
    [] e.type = "error"   -> [c EXCEPT !.unary = TRUE]
    [] e.type = "chunk"   ->
         [RetainReasons(c, e.candidates) EXCEPT !.unary = \E n \in DOMAIN e.candidates : e.candidates[n].parts # <<>>]

\* What a chunk holds that can be exported.
TellPart(t, n, part) ==
  CASE part.kind = "text" /\ n \in Candidates -> [t EXCEPT !.deltas[n] = @ \o part.text]
    [] part.kind \in {"thought", "call", "media"} -> [t EXCEPT !.extras = Append(@, part)]
    [] OTHER -> t
TellParts(t, n, parts) ==
  LET got[k \in 0..Len(parts)] == IF k = 0 THEN t ELSE TellPart(got[k - 1], n, parts[k])
  IN got[Len(parts)]
Tell(t, candidates) ==
  LET got[n \in 0..Len(candidates)] == IF n = 0 THEN t ELSE TellParts(got[n - 1], n, candidates[n].parts)
  IN got[Len(candidates)]

GeminiInit == gem = newGemini /\ outcome = "none" /\ heard = 0 /\ told = Silent
Stream(e) ==
  /\ outcome = "none" /\ ~gem.unary /\ heard < MaxAnswers /\ heard' = heard + 1
  /\ gem' = FeedAnswer(gem, e)
  /\ outcome' = IF e.type = "error" THEN "error" ELSE "none"
  /\ told' = IF e.type = "chunk" THEN Tell(told, e.candidates) ELSE told
EndOfStream ==
  /\ outcome = "none" /\ gem.stream
  /\ outcome' = "success" /\ UNCHANGED <<gem, heard, told>>
WholeAnswer(e) ==
  /\ heard = 0 /\ heard' = MaxAnswers
  /\ gem' = FinishAnswer(gem, e) /\ UNCHANGED <<outcome, told>>
GeminiNext == EndOfStream \/ \E e \in Answers : Stream(e) \/ WholeAnswer(e)
GeminiSpec == GeminiInit /\ [][GeminiNext]_geminiVars

-----------------------------------------------------------------------------
\* The texts and the parts of a stream are exported whole, every candidate's
\* and in order, as far as the limit on parts; or, once either went over the
\* budget they share, not at all.
CandidatesWholeOrNothing ==
  IF gem.over THEN gem.kept = Silent
  ELSE /\ gem.kept.deltas = told.deltas
       /\ gem.kept.extras = SubSeq(told.extras, 1, Len(gem.kept.extras))
       /\ gem.kept.extras = told.extras \/ Len(gem.kept.extras) = maxCandidates
=============================================================================
