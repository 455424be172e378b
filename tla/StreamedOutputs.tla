----------------------------- MODULE StreamedOutputs ----------------------------
(***************************************************************************)
(* The two parsers that gather streamed output under a byte budget, chat   *)
(* choices and Gemini candidates, side by side: they share no state, and   *)
(* promise the same of what they export.                                   *)
(***************************************************************************)
EXTENDS ChatStream, GeminiStream

\* A streamed output is exported whole or not at all, by either parser: all the
\* texts, arguments and parts the provider sent for a choice or candidate in the
\* order they were sent, or nothing once the budget was exceeded, to the end of
\* the stream.  What each takes of an event is said with its own conjunct: of a
\* tool call's names the last, of a crowded choice nothing is claimed.
WholeOrNothing == ChoicesWholeOrNothing /\ CandidatesWholeOrNothing
=============================================================================
