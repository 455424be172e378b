------------------------------- MODULE MCAdapters ------------------------------
(***************************************************************************)
(* TLC instances of the provider adapters: one tapped attempt              *)
(* (WiretapAttempt), the framer its response may go through (SseFramer),   *)
(* and the parsers of the payloads (ResponsesStream; ChatStream and        *)
(* GeminiStream of StreamedOutputs).  They share no state: a behaviour is  *)
(* one of any, and the others stay as they were.                           *)
(*                                                                         *)
(* The two directions of an attempt meet only where the finalizer takes    *)
(* the recorder's snapshot, which does not look at how the response was    *)
(* read: the instance follows a captured request with a response that is   *)
(* not inspected, and inspected responses by themselves.                   *)
(***************************************************************************)
EXTENDS WiretapAttempt, SseFramer, ResponsesStream, StreamedOutputs, SequencesExt, TLC

VARIABLE part   \* the component the behaviour is one of

parserVars == <<responsesVars, chatVars, geminiVars>>

-----------------------------------------------------------------------------
(* Streams of a few lines of every kind.                                   *)

Kinds == {<<>>, <<"\r">>, <<"D">>, <<"D", ":", "x">>, <<"D", ":", " ", "x", "\r">>, <<"D", ":", "t">>, <<":", "x">>}
MCStreams == {FlattenSeq([i \in 1..4 |-> Append(s[i], "\n")]) : s \in [1..4 -> Kinds]}

-----------------------------------------------------------------------------
(* Responses events: texts at two indices and past the bound, items with   *)
(* and without identities, media, every class and status of a terminal.    *)

X == <<"x">>
YY == <<"y", "y">>
Base == [type |-> "unusable", index |-> 0, id |-> "", slot |-> <<"args", 0>>, text |-> <<>>, oversized |-> FALSE,
         transcript |-> FALSE, class |-> "", item |-> [id |-> "", kind |-> "message", text |-> <<>>, large |-> FALSE],
         body |-> [valid |-> TRUE, status |-> "", id |-> "", error |-> FALSE, output |-> FALSE, items |-> <<>>]]
TextAt(i, id, t) == [Base EXCEPT !.type = "delta", !.index = i, !.id = id, !.slot = <<"text", 0>>, !.text = t]
ItemOf(id, kind, t, large) == [id |-> id, kind |-> kind, text |-> t, large |-> large]
Terminal(class, status, valid) ==
  [Base EXCEPT !.type = "terminal", !.class = class, !.body.status = status, !.body.valid = valid]
MCEvents ==
  {TextAt(0, id, t) : id \in {"", "a"}, t \in {X, YY}}
  \cup {[TextAt(1, "b", X) EXCEPT !.slot = <<"args", 0>>], TextAt(2, "", X),
        [TextAt(1, "a", YY) EXCEPT !.slot = <<"args", 0>>, !.type = "text"],
        [TextAt(0, "", YY) EXCEPT !.type = "text"], [TextAt(0, "", <<>>) EXCEPT !.type = "text"],
        [TextAt(0, "", X) EXCEPT !.slot = <<"text", 9>>],
        [TextAt(0, "", X) EXCEPT !.slot = <<"refusal", 0>>],
        [TextAt(1, "", X) EXCEPT !.slot = <<"summary", 0>>],
        [Base EXCEPT !.type = "image", !.index = 1], [Base EXCEPT !.type = "audio"],
        [Base EXCEPT !.type = "audio", !.transcript = TRUE],
        [Base EXCEPT !.type = "added", !.index = 1, !.item.id = "a", !.item.kind = "function_call"],
        [Base EXCEPT !.type = "added", !.item.kind = ""],
        [Base EXCEPT !.type = "error"], Base,
        [Base EXCEPT !.type = "lifecycle", !.body.id = "r"],
        [TextAt(0, "", YY) EXCEPT !.oversized = TRUE]}
  \cup {[Base EXCEPT !.type = "done", !.item = ItemOf("a", k, YY, l)] :
          k \in {"message", "web_search_call"}, l \in BOOLEAN}
  \cup {Terminal(c, s, TRUE) : c \in {"completed", "failed", "incomplete"}, s \in {"", "completed", "failed", "queued"}}
  \cup {Terminal("completed", "", FALSE), [Terminal("failed", "completed", TRUE) EXCEPT !.oversized = TRUE],
        [Terminal("failed", "failed", TRUE) EXCEPT !.oversized = TRUE, !.body.error = TRUE],
        [Terminal("failed", "failed", TRUE) EXCEPT !.body.error = TRUE], [Base EXCEPT !.type = "error", !.oversized = TRUE],
        [Terminal("completed", "completed", TRUE) EXCEPT
           !.body.output = TRUE, !.body.items = <<ItemOf("a", "message", X, FALSE)>>]}
MCBodies ==
  {[Base.body EXCEPT !.valid = v, !.status = s, !.error = (s = "failed")] @@ [oversized |-> o, httpError |-> h] :
     v \in BOOLEAN, s \in {"", "failed", "queued"}, o \in BOOLEAN, h \in BOOLEAN}

-----------------------------------------------------------------------------
(* Chat chunks of one choice and of two, with texts, contents and refusals *)
(* alone and together, and tool calls of one event and of several.         *)

A == <<"a">>
BB == <<"b", "b">>
Stop == <<"stop">>
Long == <<"length", "length">>
Piece(i, name, args) == [index |-> i, name |-> name, args |-> args, legacy |-> FALSE]
Choice(i, content, tools, r) ==
  [index |-> i, text |-> <<>>, content |-> content, refusal |-> <<>>, tools |-> tools, reason |-> r]
Chunk(cs) == [type |-> "chunk", choices |-> cs]
MCChunks ==
  {Chunk(<<Choice(i, t, <<>>, r)>>) : i \in {0, 1, 2}, t \in {A, <<>>}, r \in {<<>>, Stop}}
  \cup {Chunk(<<Choice(0, BB, <<>>, Long)>>), Chunk(<<Choice(0, <<>>, <<>>, Stop), Choice(1, A, <<>>, <<>>)>>),
        Chunk(<<[Choice(0, <<>>, <<>>, <<>>) EXCEPT !.text = BB]>>),
        Chunk(<<[Choice(0, <<>>, <<>>, <<>>) EXCEPT !.refusal = BB]>>),
        Chunk(<<[Choice(0, A, <<>>, <<>>) EXCEPT !.refusal = BB]>>),
        Chunk(<<[Choice(1, <<>>, <<Piece(0, A, A)>>, <<>>) EXCEPT !.text = A]>>),
        Chunk(<<Choice(0, A, <<Piece(1, A, A), Piece(0, <<>>, A)>>, <<>>)>>),
        Chunk(<<Choice(1, <<>>, <<[Piece(0, BB, <<>>) EXCEPT !.legacy = TRUE], Piece(0, A, <<>>)>>, <<>>)>>),
        Chunk(<<Choice(1, <<>>, <<[Piece(0, <<>>, <<>>) EXCEPT !.legacy = TRUE], Piece(1, <<>>, <<>>)>>, <<>>)>>),
        Chunk(<<Choice(1, <<>>, <<Piece(2, A, <<>>)>>, <<>>)>>),
        [type |-> "done", choices |-> <<>>], [type |-> "garbled", choices |-> <<>>], [type |-> "error", choices |-> <<>>]}
MCReplies ==
  {[type |-> t, valid |-> v, count |-> n, reasons |-> rs] :
     t \in {"empty", "failure", "garbled", "embeddings", "choices"}, v \in BOOLEAN, n \in 0..2,
     rs \in {<<>>, <<Stop, Stop, Long>>}}

-----------------------------------------------------------------------------
(* Gemini chunks of up to three candidates, of texts, calls and thoughts.  *)

Part(kind, text, size) == [kind |-> kind, text |-> text, size |-> size]
Of(parts, reason) == [parts |-> parts, reason |-> reason]
CandidatesOf(cs) == [type |-> "chunk", candidates |-> cs]
MCGemini ==
  LET a == Part("text", <<"a">>, 0)   bb == Part("text", <<"b", "b">>, 0)
      fn == Part("call", <<>>, 1)     thought == Part("thought", <<"t">>, 2)
  IN {[type |-> "garbled", candidates |-> <<>>], [type |-> "error", candidates |-> <<>>],
      CandidatesOf(<<Of(<<a>>, 0)>>), CandidatesOf(<<Of(<<>>, 2), Of(<<bb, fn>>, 0)>>),
      CandidatesOf(<<Of(<<thought, a>>, 1)>>), CandidatesOf(<<Of(<<fn, Part("empty", <<>>, 0)>>, 0)>>),
      CandidatesOf(<<Of(<<>>, 0), Of(<<a>>, 1), Of(<<bb>>, 1)>>)}

-----------------------------------------------------------------------------
Stopped == phase = "new" /\ ~sampled
MCInit ==
  /\ part \in {"attempt", "framer", "responses", "chat", "gemini"}
  /\ Init /\ (part # "attempt" => Stopped)
  /\ FramerInit /\ (part # "framer" => ~chunked /\ stream = FlattenSeq([i \in 1..4 |-> <<"\n">>]))
  /\ ResponsesInit /\ ChatInit /\ GeminiInit

OneDirection == rec.gen > 0 => body.mode \in {"none", "ignore"}
AttemptNext == part = "attempt" /\ Next /\ OneDirection' /\ UNCHANGED <<part, framerVars, parserVars>>
FramingNext == part = "framer" /\ FramerNext /\ UNCHANGED <<part, vars, parserVars>>
EventNext ==
  part = "responses" /\ ResponsesNext /\ UNCHANGED <<part, vars, framerVars, chatVars, geminiVars>>
ChoicesNext == part = "chat" /\ ChatNext /\ UNCHANGED <<part, vars, framerVars, responsesVars, geminiVars>>
CandidatesNext == part = "gemini" /\ GeminiNext /\ UNCHANGED <<part, vars, framerVars, responsesVars, chatVars>>
MCNext == AttemptNext \/ FramingNext \/ EventNext \/ ChoicesNext \/ CandidatesNext

MCSteps == MCInit /\ [][MCNext]_<<part, vars, framerVars, parserVars>>

\* WiretapAttempt!FairSpec's fairness, of the behaviours that are its own.
MCSpec == MCSteps /\ WF_vars(part = "attempt" /\ Running)

\* The behaviours of one part, for the runs that ask of one alone.
AttemptSpec == part = "attempt" /\ MCSteps
FramingSpec == part = "framer" /\ MCSteps
EventSpec == part = "responses" /\ MCSteps
=============================================================================
