----------------------------- MODULE ServiceProofs -----------------------------
(***************************************************************************)
(* The REST gate drains for good, listings end, and a write is applied     *)
(* once and reported truly, for any number of calls of any operation.      *)
(* Every item of an experiment is run once and its result is true, for any *)
(* number of items, workers and evaluators.                                *)
(*                                                                         *)
(* The invariant of the calls ties what the server does with a write to    *)
(* where its caller is: before the write is sent the server knows nothing  *)
(* of it, and an error that does not say unknown is one the server will    *)
(* not come back on.  It counts the pages a listing asked for by the turn  *)
(* it is in: the page number, or the number of cursors met.                *)
(*                                                                         *)
(* The invariant of an experiment follows the claim counter: an item       *)
(* beyond it is untouched and one within it is finished, or is one busy    *)
(* worker's, whose step says how far its root, its link and its result     *)
(* have come.                                                              *)
(***************************************************************************)
EXTENDS RestCall, ExperimentRunner, FiniteSetTheorems, TLAPS

-----------------------------------------------------------------------------
(* Only reads are listings: a write makes one request, and is sent once.    *)

Proper(o) == o.send.write \in BOOLEAN /\ (o.send.write => o.pages = "one")

LEMMA OnlyReadsAreListings == \A m \in Methods : Proper(Method[m])
<1> USE DEF Proper, Single, Numbered, Cursors, Body, Masked, WriteCall, ReadCall, PageCall
<1>1. /\ Proper(UpsertDataset) /\ Proper(GetDataset) /\ Proper(UpsertDatasetItem) /\ Proper(GetDatasetItem)
      /\ Proper(DeleteDatasetItem) /\ Proper(DatasetItems) /\ Proper(Datasets)
  BY DEF UpsertDataset, GetDataset, UpsertDatasetItem, GetDatasetItem, DeleteDatasetItem, DatasetItems,
         Datasets, SendUpsertDataset, SendGetDataset, SendUpsertItem, SendGetItem, SendDeleteItem,
         SendListItems, SendListDatasets
<1>2. /\ Proper(CreateAnnotationQueue) /\ Proper(GetAnnotationQueue) /\ Proper(AnnotationQueues)
      /\ Proper(CreateAnnotationQueueItem) /\ Proper(GetAnnotationQueueItem)
      /\ Proper(UpdateAnnotationQueueItem) /\ Proper(DeleteAnnotationQueueItem)
      /\ Proper(AnnotationQueueItems)
      /\ Proper(annotationQueueAssignment(TRUE)) /\ Proper(annotationQueueAssignment(FALSE))
  BY DEF CreateAnnotationQueue, GetAnnotationQueue, AnnotationQueues, CreateAnnotationQueueItem,
         GetAnnotationQueueItem, UpdateAnnotationQueueItem, DeleteAnnotationQueueItem,
         AnnotationQueueItems, annotationQueueAssignment,
         SendCreateAnnotationQueue, SendGetAnnotationQueue, SendListAnnotationQueues,
         SendCreateAnnotationQueueItem, SendGetAnnotationQueueItem, SendUpdateAnnotationQueueItem,
         SendDeleteAnnotationQueueItem, SendListAnnotationQueueItems, SendAssignAnnotationQueue
<1>3. /\ Proper(CreateScoreConfig) /\ Proper(GetScoreConfig) /\ Proper(UpdateScoreConfig)
      /\ Proper(ScoreConfigs) /\ Proper(CreateScore) /\ Proper(Scores)
      /\ Proper(CreateComment) /\ Proper(GetComment) /\ Proper(Comments)
      /\ Proper(Experiments) /\ Proper(ExperimentItems) /\ Proper(linkDatasetRunItem)
  BY DEF CreateScoreConfig, GetScoreConfig, UpdateScoreConfig, ScoreConfigs, CreateScore, Scores,
         CreateComment, GetComment, Comments, Experiments, ExperimentItems, linkDatasetRunItem,
         SendCreateScoreConfig, SendGetScoreConfig, SendUpdateScoreConfig, SendListScoreConfigs,
         SendCreateScore, SendListScores, SendCreateComment, SendGetComment, SendListComments,
         SendListExperiments, SendListExperimentItems, SendCreateRunItem
<1> HIDE DEF Proper, Single, Numbered, Cursors, Body, Masked, WriteCall, ReadCall, PageCall
<1>4. Methods =
  {"UpsertDataset", "GetDataset", "UpsertDatasetItem", "GetDatasetItem", "DeleteDatasetItem",
   "DatasetItems", "Datasets", "CreateAnnotationQueue", "GetAnnotationQueue", "AnnotationQueues",
   "CreateAnnotationQueueItem", "GetAnnotationQueueItem", "UpdateAnnotationQueueItem",
   "DeleteAnnotationQueueItem", "AnnotationQueueItems", "AssignAnnotationQueue",
   "UnassignAnnotationQueue", "CreateScoreConfig", "GetScoreConfig", "UpdateScoreConfig",
   "ScoreConfigs", "CreateScore", "Scores", "CreateComment", "GetComment", "Comments",
   "Experiments", "ExperimentItems", "linkDatasetRunItem"}
  BY DEF Methods, Method
<1>5. ASSUME NEW m \in {"UpsertDataset", "GetDataset", "UpsertDatasetItem", "GetDatasetItem", "DeleteDatasetItem",
      "DatasetItems", "Datasets"}
      PROVE  Proper(Method[m])
  BY <1>1 DEF Method
<1>6. ASSUME NEW m \in {"CreateAnnotationQueue", "GetAnnotationQueue", "AnnotationQueues",
      "CreateAnnotationQueueItem", "GetAnnotationQueueItem", "UpdateAnnotationQueueItem",
      "DeleteAnnotationQueueItem", "AnnotationQueueItems"}
      PROVE  Proper(Method[m])
  BY <1>2 DEF Method
<1>7. ASSUME NEW m \in {"CreateScoreConfig", "GetScoreConfig", "UpdateScoreConfig", "ScoreConfigs", "CreateScore",
      "Scores", "CreateComment", "GetComment", "Comments", "Experiments", "ExperimentItems",
      "linkDatasetRunItem"}
      PROVE  Proper(Method[m])
  BY <1>3 DEF Method
<1>8. Proper(Method["AssignAnnotationQueue"]) /\ Proper(Method["UnassignAnnotationQueue"])
  <2>1. /\ Method["AssignAnnotationQueue"] = annotationQueueAssignment(TRUE)
        /\ Method["UnassignAnnotationQueue"] = annotationQueueAssignment(FALSE)
    BY DEF Method
  <2> QED BY <1>2, <2>1
<1> QED BY <1>4, <1>5, <1>6, <1>7, <1>8

-----------------------------------------------------------------------------
(* The invariant.                                                          *)

Steps == {"none", "ready", "mask", "shutting", "enter", "attempt", "sent", "backoff",
          "answered", "failed", "done"}
Results == {"none", "invalid", "shutdown", "notFound", "unknown", "context", "failed", "ok",
            "repeated", "broke"}
WireStates == {"none", "dialing", "sent", "applied", "refused"}
Failures == [unknown : BOOLEAN, notFound : BOOLEAN, retry : BOOLEAN]
Answers == [entries : BOOLEAN, total : Nat, next : Tokens \cup {NoToken}]

Typed ==
  /\ method \in [Callers -> Methods \cup {NoMethod}]
  /\ at \in [Callers -> Steps] /\ result \in [Callers -> Results]
  /\ failure \in [Callers -> Failures] /\ tries \in [Callers -> Nat]
  /\ page \in [Callers -> Nat] /\ asked \in [Callers -> Nat]
  /\ seen \in [Callers -> SUBSET Tokens] /\ answer \in [Callers -> Answers]
  /\ server \in [Callers -> WireStates] /\ applied \in [Callers -> Nat]

Called(c) == at[c] # "none" => method[c] \in Methods

(* What the server does with a write against where its caller is: until the *)
(* write is sent the server knows nothing of it, and an error that does not *)
(* say unknown is one the server will not come back on.                    *)
Unsent == {"ready", "mask", "shutting", "enter", "attempt"}
Settled(c) == server[c] \in {"none", "refused"}
OfWrite(c) ==
  /\ at[c] # "backoff"
  /\ at[c] \in Unsent => server[c] = "none"
  /\ server[c] = "applied" => applied[c] = 1
  /\ at[c] = "answered" => server[c] = "applied"
  /\ at[c] = "failed" => (failure[c].unknown \/ Settled(c)) /\ ~(failure[c].notFound /\ failure[c].unknown)
  /\ at[c] = "done" => /\ result[c] = "ok" => server[c] = "applied"
                       /\ result[c] \notin {"ok", "unknown"} => Settled(c)
Wire(c) ==
  /\ at[c] = "none" => server[c] = "none"
  /\ applied[c] > 0 => at[c] # "none" /\ IsWrite(c) /\ server[c] = "applied"
  /\ at[c] # "none" /\ IsWrite(c) => OfWrite(c)

(* The pages asked for against the turn the listing is in.                 *)
Turn(c) == IF Op(c).pages = "numbered" THEN page[c] ELSE Cardinality(seen[c]) + 1
Asking(c) == at[c] \in {"ready", "mask", "shutting", "enter"} \/ (at[c] = "attempt" /\ tries[c] = 0)
Turns(c) ==
  at[c] # "none" =>
    /\ asked[c] <= Turn(c)
    /\ Asking(c) => asked[c] < Turn(c)
    /\ Op(c).pages = "numbered" =>
         page[c] <= PagesHeld + 1 /\ (at[c] = "answered" /\ answer[c].entries => page[c] <= PagesHeld)
    /\ Op(c).pages = "one" => seen[c] = {}

Gate ==
  /\ stop \in {"cancel", "drain", "drained", "expired"} => closing
  /\ stop = "drained" => inside = {}

Inv == Typed /\ Gate /\ \A c \in Callers : Called(c) /\ Wire(c) /\ Turns(c)

-----------------------------------------------------------------------------
LEMMA Follows ==
  \A n : /\ Following("ready", n) \in {"mask", "enter"} /\ Following("mask", n) \in {"mask", "enter"}
         /\ Following("enter", n) = "attempt"
BY DEF Following

LEMMA InitHolds == Init => Inv
<1> SUFFICES ASSUME Init
             PROVE  Inv
  OBVIOUS
<1>1. Typed
  BY MethodAssumption, BoundAssumption
     DEF Init, Typed, Steps, Results, Failures, Answers, NoFailure, NoPage, WireStates
<1>2. Gate
  BY DEF Init, Gate
<1>3. ASSUME NEW c \in Callers
      PROVE  Called(c) /\ Wire(c) /\ Turns(c)
  <2>1. Called(c)
    BY <1>1 DEF Init, Typed, Called
  <2>2. Wire(c)
    BY DEF Init, Wire, OfWrite, Unsent
  <2>3. Turn(c) = 1
    BY FS_EmptySet DEF Init, Turn
  <2>4. Turns(c)
    BY <2>3, BoundAssumption DEF BoundAssumption, Init, Turns, NoPage
  <2> QED BY <2>1, <2>2, <2>4
<1> QED BY <1>1, <1>2, <1>3 DEF Inv

LEMMA TurnIsNat ==
  ASSUME Typed, NEW c \in Callers
  PROVE  Turn(c) \in Nat /\ IsFiniteSet(seen[c]) /\ Cardinality(seen[c]) \in Nat
<1>1. IsFiniteSet(seen[c])
  BY BoundAssumption, FS_Subset DEF BoundAssumption, Typed
<1> QED BY <1>1, FS_CardinalityType DEF Turn, Typed

(* A step of one caller that neither asks for a page nor turns one.        *)
LEMMA SameTurn ==
  ASSUME Inv, method' = method, page' = page, seen' = seen, asked' = asked,
         NEW c \in Callers, Turns(c),
         at'[c] # "none" => at[c] # "none", Asking(c)' => Asking(c),
         at'[c] = "answered" => at[c] = "answered" /\ answer'[c] = answer[c]
  PROVE  Turns(c)'
<1>1. Turn(c)' = Turn(c) /\ Op(c)' = Op(c)
  BY DEF Turn, Op
<1> QED BY <1>1 DEF Turns

Same(d) ==
  /\ at'[d] = at[d] /\ result'[d] = result[d] /\ failure'[d] = failure[d] /\ tries'[d] = tries[d]
  /\ page'[d] = page[d] /\ asked'[d] = asked[d] /\ seen'[d] = seen[d] /\ answer'[d] = answer[d]
  /\ server'[d] = server[d] /\ applied'[d] = applied[d]

(* A step of caller c leaves the others as they are.                       *)
LEMMA Combine ==
  ASSUME Inv, method' = method, Typed', Gate', NEW c \in Callers, \A d \in Callers \ {c} : Same(d),
         Wire(c)', Turns(c)', at[c] # "none"
  PROVE  Inv'
<1>1. ASSUME NEW d \in Callers, d # c
      PROVE  Called(d)' /\ Wire(d)' /\ Turns(d)'
  <2>1. Called(d) /\ Wire(d) /\ Turns(d) /\ Same(d)
    BY <1>1 DEF Inv
  <2>2. Op(d)' = Op(d) /\ IsWrite(d)' = IsWrite(d) /\ Turn(d)' = Turn(d)
    BY <2>1 DEF Op, IsWrite, Turn, Same
  <2>3. Called(d)'
    BY <2>1 DEF Called, Same
  <2>4. Wire(d)'
    BY <2>1, <2>2 DEF Wire, OfWrite, Settled, Same
  <2>5. Turns(d)'
    BY <2>1, <2>2 DEF Turns, Asking, Same
  <2> QED BY <2>3, <2>4, <2>5
<1>2. Called(c)'
  BY DEF Inv, Called
<1> QED BY <1>1, <1>2 DEF Inv

-----------------------------------------------------------------------------
(* What the parts of a step do.                                            *)

LEMMA WriteIsBoolean ==
  ASSUME NEW c \in Callers, Called(c), at[c] # "none"
  PROVE  IsWrite(c) \in BOOLEAN /\ (IsWrite(c) => ~Listing(c))
BY OnlyReadsAreListings DEF Called, IsWrite, Listing, Op, Proper

LEMMA FailureFields ==
  ASSUME NEW u \in BOOLEAN
  PROVE  /\ Failure(u) \in Failures /\ Failure(u).unknown = u
         /\ Failure(u).notFound = FALSE /\ Failure(u).retry = FALSE
<1>1. NoFailure \in Failures /\ NoFailure.notFound = FALSE /\ NoFailure.retry = FALSE
  BY DEF NoFailure, Failures
<1> HIDE DEF NoFailure
<1> QED BY <1>1 DEF Failure, Failures

LEMMA CanceledEffect ==
  ASSUME Typed, NEW c \in Callers, NEW u \in BOOLEAN, canceledError(c, u)
  PROVE  /\ at' \in [Callers -> Steps] /\ failure' \in [Callers -> Failures]
         /\ at'[c] = "failed" /\ failure'[c].unknown = u /\ ~failure'[c].notFound
         /\ \A d \in Callers \ {c} : at'[d] = at[d] /\ failure'[d] = failure[d]
<1> DEFINE f == Failure(u)
<1>1. f \in Failures /\ f.unknown = u /\ ~f.notFound
  BY FailureFields
<1> HIDE DEF f
<1> QED BY <1>1 DEF canceledError, Go, Typed, Steps, f

LEMMA FailsEffect ==
  ASSUME Typed, NEW c \in Callers, NEW f \in Failures, Fails(c, f)
  PROVE  /\ at' \in [Callers -> Steps] /\ failure' \in [Callers -> Failures] /\ failure'[c] = f
         /\ at'[c] \in {"failed", "backoff"} /\ (at'[c] = "backoff" => f.retry)
         /\ \A d \in Callers \ {c} : at'[d] = at[d] /\ failure'[d] = failure[d]
BY DEF Fails, Retries, Go, Typed, Steps

(* Before the request.                                                     *)
LEMMA BeforeTheRequest ==
  ASSUME Inv, NEW c \in Callers, ContextEnds(c) \/ Ready(c) \/ Mask(c) \/ MaskShutsDown(c) \/ MaskGoesOn(c) \/ Serialize(c) \/ enter(c)
  PROVE  Inv'
<1>1. Typed /\ Gate /\ Called(c) /\ Wire(c) /\ Turns(c)
  BY DEF Inv
<1>2. CASE ContextEnds(c)
  <2>1. method' = method /\ at[c] # "none" /\ IsWrite(c)' = IsWrite(c)
    BY <1>1, <1>2 DEF ContextEnds, callVars, pageVars, wireVars, gateVars, IsWrite, Op, Typed, Wire
  <2>2. Typed'
    BY <1>1, <1>2, <2>1 DEF ContextEnds, callVars, pageVars, wireVars, gateVars, Typed, Steps, Results
  <2>3. Gate'
    BY <1>1, <1>2 DEF ContextEnds, callVars, pageVars, wireVars, gateVars, Gate
  <2>4. \A d \in Callers \ {c} : Same(d)
    BY <1>1, <1>2 DEF ContextEnds, callVars, pageVars, wireVars, gateVars, Typed, Same
  <2>5. Wire(c)'
    BY <1>1, <1>2, <2>1 DEF ContextEnds, callVars, pageVars, wireVars, gateVars, Typed, Wire, OfWrite, Settled, Unsent
  <2>6. Turns(c)'
    BY <1>1, <1>2, <2>1, SameTurn DEF ContextEnds, callVars, pageVars, wireVars, gateVars, Typed, Asking
  <2> QED BY <2>1, <2>2, <2>3, <2>4, <2>5, <2>6, Combine
<1>3. CASE Ready(c)
  <2>1. method' = method /\ at[c] # "none" /\ IsWrite(c)' = IsWrite(c)
    BY <1>1, <1>3 DEF Ready, Go, Return, callVars, pageVars, wireVars, gateVars, IsWrite, Op, Typed, Wire
  <2>2. Typed'
    BY <1>1, <1>3, <2>1, Follows DEF Ready, Go, Return, callVars, pageVars, wireVars, gateVars, Typed, Steps, Results
  <2>3. Gate'
    BY <1>1, <1>3 DEF Ready, Go, Return, callVars, pageVars, wireVars, gateVars, Gate
  <2>4. \A d \in Callers \ {c} : Same(d)
    BY <1>1, <1>3 DEF Ready, Go, Return, callVars, pageVars, wireVars, gateVars, Typed, Same
  <2>5. Wire(c)'
    BY <1>1, <1>3, <2>1, Follows DEF Ready, Go, Return, callVars, pageVars, wireVars, gateVars, Typed, Wire, OfWrite, Settled, Unsent
  <2>6. Turns(c)'
    BY <1>1, <1>3, <2>1, SameTurn, Follows DEF Ready, Go, Return, callVars, pageVars, wireVars, gateVars, Typed, Asking
  <2> QED BY <2>1, <2>2, <2>3, <2>4, <2>5, <2>6, Combine
<1>4. CASE Mask(c)
  <2>1. method' = method /\ at[c] # "none" /\ IsWrite(c)' = IsWrite(c)
    BY <1>1, <1>4 DEF Mask, Go, Return, callVars, pageVars, wireVars, gateVars, IsWrite, Op, Typed, Wire
  <2>2. Typed'
    BY <1>1, <1>4, <2>1, Follows DEF Mask, Go, Return, callVars, pageVars, wireVars, gateVars, Typed, Steps, Results
  <2>3. Gate'
    BY <1>1, <1>4 DEF Mask, Go, Return, callVars, pageVars, wireVars, gateVars, Gate
  <2>4. \A d \in Callers \ {c} : Same(d)
    BY <1>1, <1>4 DEF Mask, Go, Return, callVars, pageVars, wireVars, gateVars, Typed, Same
  <2>5. Wire(c)'
    BY <1>1, <1>4, <2>1, Follows DEF Mask, Go, Return, callVars, pageVars, wireVars, gateVars, Typed, Wire, OfWrite, Settled, Unsent
  <2>6. Turns(c)'
    BY <1>1, <1>4, <2>1, SameTurn, Follows DEF Mask, Go, Return, callVars, pageVars, wireVars, gateVars, Typed, Asking
  <2> QED BY <2>1, <2>2, <2>3, <2>4, <2>5, <2>6, Combine
<1>5. CASE MaskShutsDown(c)
  <2>1. method' = method /\ at[c] # "none" /\ IsWrite(c)' = IsWrite(c)
    BY <1>1, <1>5 DEF MaskShutsDown, Go, callVars, pageVars, wireVars, gateVars, IsWrite, Op, Typed, Wire
  <2>2. Typed'
    BY <1>1, <1>5, <2>1 DEF MaskShutsDown, Go, callVars, pageVars, wireVars, gateVars, Typed, Steps, Results
  <2>3. Gate'
    BY <1>1, <1>5 DEF MaskShutsDown, Go, callVars, pageVars, wireVars, gateVars, Gate
  <2>4. \A d \in Callers \ {c} : Same(d)
    BY <1>1, <1>5 DEF MaskShutsDown, Go, callVars, pageVars, wireVars, gateVars, Typed, Same
  <2>5. Wire(c)'
    BY <1>1, <1>5, <2>1 DEF MaskShutsDown, Go, callVars, pageVars, wireVars, gateVars, Typed, Wire, OfWrite, Settled, Unsent
  <2>6. Turns(c)'
    BY <1>1, <1>5, <2>1, SameTurn DEF MaskShutsDown, Go, callVars, pageVars, wireVars, gateVars, Typed, Asking
  <2> QED BY <2>1, <2>2, <2>3, <2>4, <2>5, <2>6, Combine
<1>6. CASE MaskGoesOn(c)
  <2>1. method' = method /\ at[c] # "none" /\ IsWrite(c)' = IsWrite(c)
    BY <1>1, <1>6 DEF MaskGoesOn, Go, callVars, pageVars, wireVars, gateVars, IsWrite, Op, Typed, Wire
  <2>2. Typed'
    BY <1>1, <1>6, <2>1 DEF MaskGoesOn, Go, callVars, pageVars, wireVars, gateVars, Typed, Steps, Results
  <2>3. Gate'
    BY <1>1, <1>6 DEF MaskGoesOn, Go, callVars, pageVars, wireVars, gateVars, Gate
  <2>4. \A d \in Callers \ {c} : Same(d)
    BY <1>1, <1>6 DEF MaskGoesOn, Go, callVars, pageVars, wireVars, gateVars, Typed, Same
  <2>5. Wire(c)'
    BY <1>1, <1>6, <2>1 DEF MaskGoesOn, Go, callVars, pageVars, wireVars, gateVars, Typed, Wire, OfWrite, Settled, Unsent
  <2>6. Turns(c)'
    BY <1>1, <1>6, <2>1, SameTurn DEF MaskGoesOn, Go, callVars, pageVars, wireVars, gateVars, Typed, Asking
  <2> QED BY <2>1, <2>2, <2>3, <2>4, <2>5, <2>6, Combine
<1>7. CASE Serialize(c)
  <2>1. method' = method /\ at[c] # "none" /\ IsWrite(c)' = IsWrite(c)
    BY <1>1, <1>7 DEF Serialize, Go, Return, callVars, pageVars, wireVars, gateVars, IsWrite, Op, Typed, Wire
  <2>2. Typed'
    BY <1>1, <1>7, <2>1 DEF Serialize, Go, Return, callVars, pageVars, wireVars, gateVars, Typed, Steps, Results
  <2>3. Gate'
    BY <1>1, <1>7 DEF Serialize, Go, Return, callVars, pageVars, wireVars, gateVars, Gate
  <2>4. \A d \in Callers \ {c} : Same(d)
    BY <1>1, <1>7 DEF Serialize, Go, Return, callVars, pageVars, wireVars, gateVars, Typed, Same
  <2>5. Wire(c)'
    BY <1>1, <1>7, <2>1 DEF Serialize, Go, Return, callVars, pageVars, wireVars, gateVars, Typed, Wire, OfWrite, Settled, Unsent
  <2>6. Turns(c)'
    BY <1>1, <1>7, <2>1, SameTurn DEF Serialize, Go, Return, callVars, pageVars, wireVars, gateVars, Typed, Asking
  <2> QED BY <2>1, <2>2, <2>3, <2>4, <2>5, <2>6, Combine
<1>8. CASE enter(c)
  <2>1. method' = method /\ at[c] # "none" /\ IsWrite(c)' = IsWrite(c)
    BY <1>1, <1>8 DEF enter, Go, Return, Admitted, callVars, pageVars, wireVars, gateVars, IsWrite, Op, Typed, Wire
  <2>2. Typed'
    BY <1>1, <1>8, <2>1, Follows DEF enter, Go, Return, Admitted, callVars, pageVars, wireVars, gateVars, Typed, Steps, Results
  <2>3. Gate'
    BY <1>1, <1>8 DEF enter, Go, Return, Admitted, callVars, pageVars, wireVars, gateVars, Gate
  <2>4. \A d \in Callers \ {c} : Same(d)
    BY <1>1, <1>8 DEF enter, Go, Return, Admitted, callVars, pageVars, wireVars, gateVars, Typed, Same
  <2>5. Wire(c)'
    BY <1>1, <1>8, <2>1, Follows DEF enter, Go, Return, Admitted, callVars, pageVars, wireVars, gateVars, Typed, Wire, OfWrite, Settled, Unsent
  <2>6. Turns(c)'
    BY <1>1, <1>8, <2>1, SameTurn, Follows DEF enter, Go, Return, Admitted, callVars, pageVars, wireVars, gateVars, Typed, Asking
  <2> QED BY <2>1, <2>2, <2>3, <2>4, <2>5, <2>6, Combine
<1> QED BY <1>2, <1>3, <1>4, <1>5, <1>6, <1>7, <1>8

(* What the server does, and a request on its way.                         *)
LEMMA OnTheWire ==
  ASSUME Inv, NEW c \in Callers, Transmit(c) \/ Serve(c)
  PROVE  Inv'
<1>1. Typed /\ Gate /\ Called(c) /\ Wire(c) /\ Turns(c)
  BY DEF Inv
<1>2. CASE Transmit(c)
  <2>1. method' = method /\ at[c] # "none" /\ IsWrite(c)' = IsWrite(c)
    BY <1>1, <1>2 DEF Transmit, callVars, pageVars, wireVars, gateVars, IsWrite, Op, Typed, Wire
  <2>2. Typed'
    BY <1>1, <1>2, <2>1 DEF Transmit, callVars, pageVars, wireVars, gateVars, Typed, Steps, Results, WireStates
  <2>3. Gate'
    BY <1>1, <1>2 DEF Transmit, callVars, pageVars, wireVars, gateVars, Gate
  <2>4. \A d \in Callers \ {c} : Same(d)
    BY <1>1, <1>2 DEF Transmit, callVars, pageVars, wireVars, gateVars, Typed, Same
  <2>5. Wire(c)'
    BY <1>1, <1>2, <2>1 DEF Transmit, callVars, pageVars, wireVars, gateVars, Typed, Wire, OfWrite, Settled, Unsent
  <2>6. Turns(c)'
    BY <1>1, <1>2, <2>1, SameTurn DEF Transmit, callVars, pageVars, wireVars, gateVars, Typed, Asking
  <2> QED BY <2>1, <2>2, <2>3, <2>4, <2>5, <2>6, Combine
<1>3. CASE Serve(c)
  <2>1. method' = method /\ at[c] # "none" /\ IsWrite(c)' = IsWrite(c)
    BY <1>1, <1>3 DEF Serve, callVars, pageVars, wireVars, gateVars, IsWrite, Op, Typed, Wire
  <2>2. Typed'
    BY <1>1, <1>3, <2>1 DEF Serve, callVars, pageVars, wireVars, gateVars, Typed, Steps, Results, WireStates
  <2>3. Gate'
    BY <1>1, <1>3 DEF Serve, callVars, pageVars, wireVars, gateVars, Gate
  <2>4. \A d \in Callers \ {c} : Same(d)
    BY <1>1, <1>3 DEF Serve, callVars, pageVars, wireVars, gateVars, Typed, Same
  <2>5. Wire(c)'
    BY <1>1, <1>3, <2>1 DEF Serve, callVars, pageVars, wireVars, gateVars, Typed, Wire, OfWrite, Settled, Unsent
  <2>6. Turns(c)'
    BY <1>1, <1>3, <2>1, SameTurn DEF Serve, callVars, pageVars, wireVars, gateVars, Typed, Asking
  <2> QED BY <2>1, <2>2, <2>3, <2>4, <2>5, <2>6, Combine
<1> QED BY <1>2, <1>3

(* The attempt.                                                            *)
LEMMA AttemptHolds ==
  ASSUME Inv, NEW c \in Callers, Attempt(c)
  PROVE  Inv'
<1>1. Typed /\ Gate /\ Called(c) /\ Wire(c) /\ Turns(c)
  BY DEF Inv
<1>2. /\ method' = method /\ at[c] = "attempt" /\ IsWrite(c)' = IsWrite(c) /\ Op(c)' = Op(c)
      /\ page' = page /\ seen' = seen /\ result' = result /\ tries' = tries /\ answer' = answer
      /\ applied' = applied /\ Gate'
  BY <1>1 DEF Attempt, callVars, pageVars, wireVars, gateVars, IsWrite, Op, Gate
<1>3. CASE opctx[c]
  <2>1. canceledError(c, FALSE) /\ server' = server /\ asked' = asked
    BY <1>3 DEF Attempt
  <2>2. /\ at' \in [Callers -> Steps] /\ failure' \in [Callers -> Failures]
        /\ at'[c] = "failed" /\ failure'[c].unknown = FALSE /\ ~failure'[c].notFound
        /\ \A d \in Callers \ {c} : at'[d] = at[d] /\ failure'[d] = failure[d]
    BY <1>1, <2>1, CanceledEffect
  <2>3. Typed' /\ \A d \in Callers \ {c} : Same(d)
    BY <1>1, <1>2, <2>1, <2>2 DEF Typed, Same
  <2>4. Wire(c)'
    BY <1>1, <1>2, <2>1, <2>2 DEF Wire, OfWrite, Settled, Unsent
  <2>5. Turns(c)'
    BY <1>1, <1>2, <2>1, <2>2, SameTurn DEF Asking
  <2> QED BY <1>2, <2>3, <2>4, <2>5, Combine
<1>4. CASE ~opctx[c]
  <2>1. /\ at' = [at EXCEPT ![c] = "sent"] /\ server' = [server EXCEPT ![c] = "dialing"]
        /\ asked' = [asked EXCEPT ![c] = IF tries[c] = 0 THEN @ + 1 ELSE @] /\ failure' = failure
    BY <1>4 DEF Attempt, Go
  <2>2. Typed' /\ \A d \in Callers \ {c} : Same(d)
    BY <1>1, <1>2, <2>1 DEF Typed, Steps, WireStates, Same
  <2>3. Wire(c)'
    BY <1>1, <1>2, <2>1 DEF Typed, Wire, OfWrite, Settled, Unsent
  <2>4. Turn(c)' = Turn(c) /\ Turn(c) \in Nat
    BY <1>1, <1>2, TurnIsNat DEF Turn
  <2>5. at'[c] = "sent" /\ asked'[c] <= Turn(c) /\ seen'[c] = seen[c] /\ page'[c] = page[c]
    BY <1>1, <1>2, <2>1, <2>4 DEF Typed, Turns, Asking
  <2>6. Turns(c)'
    BY <1>1, <1>2, <2>4, <2>5 DEF Turns, Asking
  <2> QED BY <1>2, <2>2, <2>3, <2>6, Combine
<1> QED BY <1>3, <1>4

(* An attempt that fails: by the network, by a status, by its answer.      *)
LEMMA FailureHolds ==
  ASSUME Inv, NEW c \in Callers, at[c] = "sent", NEW f \in Failures,
         Fails(c, f) \/ (canceledError(c, IsWrite(c)) /\ f = Failure(IsWrite(c))),
         IsWrite(c) => (f.unknown \/ server'[c] \in {"none", "refused"}) /\ ~(f.notFound /\ f.unknown) /\ ~f.retry,
         server' = server \/ (server[c] = "dialing" /\ server' = [server EXCEPT ![c] = "none"]),
         method' = method, page' = page, seen' = seen, asked' = asked, answer' = answer,
         result' = result, tries' = tries, applied' = applied, stop' = stop, closing' = closing, inside' = inside
  PROVE  Inv'
<1>1. Typed /\ Gate /\ Called(c) /\ Wire(c) /\ Turns(c) /\ IsWrite(c) \in BOOLEAN
  BY WriteIsBoolean DEF Inv
<1>2. /\ at' \in [Callers -> Steps] /\ failure' \in [Callers -> Failures]
      /\ at'[c] \in {"failed", "backoff"} /\ (at'[c] = "backoff" => f.retry)
      /\ failure'[c].unknown = f.unknown /\ (failure'[c].notFound => f.notFound)
      /\ \A d \in Callers \ {c} : at'[d] = at[d] /\ failure'[d] = failure[d]
  <2>1. CASE Fails(c, f)
    BY <1>1, <2>1, FailsEffect
  <2>2. CASE canceledError(c, IsWrite(c)) /\ f = Failure(IsWrite(c))
    <3>1. f.unknown = IsWrite(c)
      BY <1>1, <2>2, FailureFields
    <3> QED BY <1>1, <2>2, <3>1, CanceledEffect
  <2> QED BY <2>1, <2>2
<1>3. Typed' /\ \A d \in Callers \ {c} : Same(d)
  BY <1>1, <1>2 DEF Typed, WireStates, Same
<1>4. Gate'
  BY <1>1 DEF Gate
<1>5. IsWrite(c)' = IsWrite(c) /\ (server'[c] = "applied" => server[c] = "applied")
      /\ (server[c] = "applied" => server'[c] = "applied")
  BY <1>1 DEF IsWrite, Op, Typed
<1>6. Wire(c)'
  BY <1>1, <1>2, <1>5 DEF Wire, OfWrite, Settled, Unsent
<1>7. Turns(c)'
  BY <1>1, <1>2, SameTurn DEF Asking
<1> QED BY <1>3, <1>4, <1>6, <1>7, Combine

LEMMA AttemptFails ==
  ASSUME Inv, NEW c \in Callers, DoFails(c) \/ Refused(c) \/ AnswerLost(c)
  PROVE  Inv'
<1>1. Typed /\ Wire(c) /\ at[c] = "sent" /\ IsWrite(c) \in BOOLEAN
  <2>1. at[c] = "sent"
    BY DEF DoFails, Refused, AnswerLost
  <2> QED BY <2>1, WriteIsBoolean DEF Inv
<1>2. CASE DoFails(c)
  <2> DEFINE x == IsWrite(c) /\ server[c] # "dialing"
             f == IF opctx[c] THEN Failure(IsWrite(c)) ELSE [Failure(x) EXCEPT !.retry = ~IsWrite(c)]
  <2>1. f \in Failures /\ f.notFound = FALSE
        /\ (IsWrite(c) => ~f.retry /\ (f.unknown \/ server[c] = "dialing"))
    <3>1. x \in BOOLEAN /\ (IsWrite(c) /\ ~x => server[c] = "dialing")
      BY <1>1
    <3> HIDE DEF x
    <3>2. /\ Failure(x) \in Failures /\ Failure(x).unknown = x /\ Failure(x).notFound = FALSE
          /\ Failure(IsWrite(c)) \in Failures /\ Failure(IsWrite(c)).unknown = IsWrite(c)
          /\ Failure(IsWrite(c)).notFound = FALSE /\ Failure(IsWrite(c)).retry = FALSE
      BY <1>1, <3>1, FailureFields
    <3>3. CASE opctx[c]
      BY <1>1, <3>2, <3>3
    <3>4. CASE ~opctx[c]
      <4> DEFINE g == [Failure(x) EXCEPT !.retry = ~IsWrite(c)]
      <4>1. g \in Failures /\ g.unknown = x /\ g.notFound = FALSE /\ g.retry = ~IsWrite(c)
        BY <1>1, <3>2 DEF Failures
      <4> HIDE DEF g
      <4>2. f = g
        BY <3>4 DEF g
      <4> QED BY <1>1, <3>1, <4>1, <4>2
    <3> QED BY <3>3, <3>4
  <2>2. Fails(c, f) \/ (canceledError(c, IsWrite(c)) /\ f = Failure(IsWrite(c)))
    BY <1>2 DEF DoFails
  <2> HIDE DEF f
  <2>3. server' = server \/ (server[c] = "dialing" /\ server' = [server EXCEPT ![c] = "none"])
    BY <1>1, <1>2 DEF DoFails, Typed
  <2>4. server[c] = "dialing" => server'[c] = "none"
    BY <1>1, <1>2 DEF DoFails, Typed
  <2>5. UNCHANGED <<method, page, seen, asked, answer, result, tries, applied, stop, closing, inside>>
    BY <1>2 DEF DoFails, pageVars, gateVars
  <2> QED BY <1>1, <2>1, <2>2, <2>3, <2>4, <2>5, FailureHolds
<1>3. CASE Refused(c)
  <2>1. PICK status \in Statuses : /\ status \in NotApplied => server[c] = "refused"
                                  /\ Fails(c, StatusFailure(c, status))
    BY <1>3 DEF Refused
  <2> DEFINE f == StatusFailure(c, status)
  <2>2. /\ f \in Failures /\ ~(f.notFound /\ f.unknown)
        /\ IsWrite(c) => ~f.retry /\ (f.unknown \/ server[c] = "refused")
    BY <1>1, <2>1 DEF StatusFailure, Failures, writeRejectedBeforeCommit, retryableStatus, NotApplied
  <2> HIDE DEF f
  <2>3. UNCHANGED <<method, page, seen, asked, answer, result, tries, applied, server, stop, closing, inside>>
    BY <1>3 DEF Refused, pageVars, gateVars, wireVars
  <2> QED BY <1>1, <2>1, <2>2, <2>3, FailureHolds DEF f
<1>4. CASE AnswerLost(c)
  <2> DEFINE f == Failure(IsWrite(c))
  <2>1. Fails(c, f) \/ canceledError(c, IsWrite(c))
    BY <1>4 DEF AnswerLost, IsWrite
  <2>2. f \in Failures /\ f.unknown = IsWrite(c) /\ f.notFound = FALSE /\ f.retry = FALSE
    BY <1>1, FailureFields
  <2>3. UNCHANGED <<method, page, seen, asked, answer, result, tries, applied, server, stop, closing, inside>>
    BY <1>4 DEF AnswerLost, pageVars, gateVars, wireVars
  <2> QED BY <1>1, <2>1, <2>2, <2>3, FailureHolds
<1> QED BY <1>2, <1>3, <1>4

LEMMA PagesTyped ==
  ASSUME NEW c \in Callers
  PROVE  \A p \in PagesOf(c) : p \in Answers /\ (Op(c).pages = "numbered" /\ p.entries => page[c] <= PagesHeld)
<1>1. CASE Op(c).pages = "numbered"
  <2>1. SUFFICES ASSUME NEW p \in [entries : IF page[c] <= PagesHeld THEN BOOLEAN ELSE {FALSE},
                                   total : 0..PagesHeld + 2, next : {NoToken}]
                 PROVE  p \in Answers /\ (p.entries => page[c] <= PagesHeld)
    BY <1>1 DEF PagesOf
  <2>2. p.entries \in BOOLEAN /\ (p.entries => page[c] <= PagesHeld)
    OBVIOUS
  <2>3. p.total \in Nat
    BY BoundAssumption DEF BoundAssumption
  <2> QED BY <2>2, <2>3 DEF Answers
<1>2. CASE Op(c).pages # "numbered"
  <2>1. SUFFICES ASSUME NEW p \in [entries : {TRUE}, total : {0}, next : Tokens \cup {NoToken}]
                 PROVE  p \in Answers
    BY <1>2 DEF PagesOf
  <2>2. p.entries \in BOOLEAN
    OBVIOUS
  <2>3. p.total \in Nat
    OBVIOUS
  <2> QED BY <2>2, <2>3 DEF Answers
<1> QED BY <1>1, <1>2

(* The answer of the server, and the wait before a retry.                  *)
LEMMA AnsweredHolds ==
  ASSUME Inv, NEW c \in Callers, Answered(c)
  PROVE  Inv'
<1>1. Typed /\ Gate /\ Called(c) /\ Wire(c) /\ Turns(c)
  BY DEF Inv
<1>2. /\ at[c] = "sent" /\ server[c] = "applied" /\ at' = [at EXCEPT ![c] = "answered"]
      /\ failure' = [failure EXCEPT ![c] = NoFailure]
      /\ UNCHANGED <<method, left, ctx, opctx, tries, result, page, seen, asked, server, applied,
                     stopped, closing, canceled, stop, inside>>
  BY DEF Answered, Go, wireVars, gateVars
<1>3. /\ answer' \in [Callers -> Answers] /\ \A d \in Callers \ {c} : answer'[d] = answer[d]
      /\ Op(c).pages = "numbered" /\ answer'[c].entries => page[c] <= PagesHeld
  <2>1. CASE Listing(c)
    <3>1. PICK p \in PagesOf(c) : answer' = [answer EXCEPT ![c] = p]
      BY <2>1 DEF Answered
    <3>2. p \in Answers /\ (Op(c).pages = "numbered" /\ p.entries => page[c] <= PagesHeld)
      BY PagesTyped
    <3> QED BY <1>1, <3>1, <3>2 DEF Typed
  <2>2. CASE ~Listing(c)
    BY <1>1, <2>2 DEF Answered, Typed, Listing
  <2> QED BY <2>1, <2>2
<1>4. Typed' /\ \A d \in Callers \ {c} : Same(d)
  <2>1. NoFailure \in Failures
    BY DEF NoFailure, Failures
  <2> HIDE DEF NoFailure
  <2> QED BY <1>1, <1>2, <1>3, <2>1 DEF Typed, Steps, Same
<1>5. Gate' /\ IsWrite(c)' = IsWrite(c) /\ Op(c)' = Op(c)
  BY <1>1, <1>2 DEF Gate, IsWrite, Op
<1>6. Wire(c)'
  BY <1>1, <1>2, <1>5 DEF Typed, Wire, OfWrite, Settled, Unsent
<1>7. Turns(c)'
  <2>1. Turn(c)' = Turn(c)
    BY <1>2, <1>5 DEF Turn
  <2> QED BY <1>1, <1>2, <1>3, <1>5, <2>1 DEF Turns, Asking, Typed
<1> QED BY <1>1, <1>2, <1>4, <1>5, <1>6, <1>7, Combine

LEMMA BackoffHolds ==
  ASSUME Inv, NEW c \in Callers, Backoff(c)
  PROVE  Inv'
<1>1. Typed /\ Gate /\ Called(c) /\ Wire(c) /\ Turns(c)
  BY DEF Inv
<1>2. /\ at[c] = "backoff"
      /\ UNCHANGED <<method, result, page, seen, asked, answer, server, applied, closing, stop, inside>>
  BY DEF Backoff, pageVars, wireVars, gateVars
<1>3. /\ at' \in [Callers -> Steps] /\ failure' \in [Callers -> Failures] /\ tries' \in [Callers -> Nat]
      /\ at'[c] = "failed" \/ (at'[c] = "attempt" /\ tries'[c] # 0)
      /\ \A d \in Callers \ {c} : at'[d] = at[d] /\ failure'[d] = failure[d] /\ tries'[d] = tries[d]
  <2>1. CASE at' = [at EXCEPT ![c] = "attempt"] /\ tries' = [tries EXCEPT ![c] = @ + 1] /\ failure' = failure
    BY <1>1, <2>1 DEF Typed, Steps
  <2>2. CASE canceledError(c, FALSE) /\ tries' = tries
    BY <1>1, <2>2, CanceledEffect DEF Typed
  <2> QED BY <2>1, <2>2 DEF Backoff, Go
<1>4. Typed' /\ \A d \in Callers \ {c} : Same(d)
  BY <1>1, <1>2, <1>3 DEF Typed, Same
<1>5. Gate' /\ IsWrite(c)' = IsWrite(c)
  BY <1>1, <1>2 DEF Gate, IsWrite, Op
<1>6. Wire(c)'
  BY <1>1, <1>2, <1>3, <1>5 DEF Wire, OfWrite, Settled, Unsent
<1>7. Turns(c)'
  BY <1>1, <1>2, <1>3, SameTurn DEF Asking
<1> QED BY <1>1, <1>2, <1>4, <1>5, <1>6, <1>7, Combine

(* The calls that return after their request.                              *)
LEMMA AfterTheRequest ==
  ASSUME Inv, NEW c \in Callers, release(c) \/ restFailure(c) \/ Succeeds(c)
  PROVE  Inv'
<1>1. Typed /\ Gate /\ Called(c) /\ Wire(c) /\ Turns(c)
  BY DEF Inv
<1>2. /\ UNCHANGED <<method, failure, tries, page, seen, asked, answer, server, applied, closing, stop>>
      /\ inside' \subseteq inside
  BY DEF release, restFailure, Succeeds, callVars, pageVars, wireVars, gateVars
<1>3. Gate' /\ IsWrite(c)' = IsWrite(c)
  BY <1>1, <1>2 DEF Gate, IsWrite, Op
<1>4. CASE release(c)
  <2>1. at' = at /\ result' = result /\ at[c] \in {"answered", "failed"}
    BY <1>4 DEF release, callVars
  <2>2. Typed' /\ \A d \in Callers \ {c} : Same(d)
    BY <1>1, <1>2, <2>1 DEF Typed, Same
  <2>3. Wire(c)'
    BY <1>1, <1>2, <1>3, <2>1 DEF Wire, OfWrite, Settled
  <2>4. Turns(c)'
    BY <1>1, <1>2, <2>1, SameTurn DEF Asking
  <2> QED BY <1>2, <1>3, <2>1, <2>2, <2>3, <2>4, Combine
<1>5. ASSUME NEW r \in Results, Return(c, r), at[c] \in {"answered", "failed"},
             IsWrite(c) => /\ r = "ok" => server[c] = "applied"
                           /\ r \notin {"ok", "unknown"} => Settled(c)
      PROVE  Inv'
  <2>1. at' = [at EXCEPT ![c] = "done"] /\ result' = [result EXCEPT ![c] = r]
    BY <1>5 DEF Return, Go
  <2>2. Typed' /\ \A d \in Callers \ {c} : Same(d)
    BY <1>1, <1>2, <2>1 DEF Typed, Steps, Same
  <2>3. Wire(c)'
    BY <1>1, <1>2, <1>3, <1>5, <2>1 DEF Typed, Wire, OfWrite, Settled, Unsent
  <2>4. Turns(c)'
    BY <1>1, <1>2, <1>5, <2>1, SameTurn DEF Typed, Asking
  <2> QED BY <1>2, <1>3, <1>5, <2>2, <2>3, <2>4, Combine
<1>6. CASE Succeeds(c)
  BY <1>1, <1>5, <1>6 DEF Succeeds, Wire, OfWrite, Results
<1>7. CASE restFailure(c)
  <2> DEFINE r == IF failure[c].notFound /\ Op(c).missing # "" THEN "notFound"
                  ELSE IF failure[c].unknown THEN "unknown"
                  ELSE IF Reason(c) = "own" THEN "failed" ELSE Reason(c)
  <2>1. Reason(c) \in {"context", "shutdown", "own"}
    BY DEF Reason
  <2>2. Return(c, r) /\ at[c] = "failed"
    BY <1>7 DEF restFailure
  <2>3. r \in Results /\ r # "ok" /\ (r # "unknown" => ~failure[c].unknown \/ failure[c].notFound)
    BY <2>1 DEF Results
  <2> HIDE DEF r
  <2> QED BY <1>1, <1>5, <2>2, <2>3 DEF Wire, OfWrite
<1> QED BY <1>4, <1>6, <1>7

(* A page: the listing ends, or goes on to its next turn.                  *)
LEMMA YieldHolds ==
  ASSUME Inv, NEW c \in Callers, Yield(c)
  PROVE  Inv'
<1>1. Typed /\ Gate /\ Called(c) /\ Wire(c) /\ Turns(c)
  BY DEF Inv
<1>2. /\ at[c] = "answered" /\ server' = [server EXCEPT ![c] = "none"] /\ ~IsWrite(c)
      /\ UNCHANGED <<method, failure, tries, asked, answer, applied, closing, stop, inside>>
  BY <1>1, WriteIsBoolean DEF Yield, gateVars
<1>3. Gate' /\ IsWrite(c)' = IsWrite(c) /\ Op(c)' = Op(c)
  BY <1>1, <1>2 DEF Gate, IsWrite, Op
<1>4. Turn(c) \in Nat /\ IsFiniteSet(seen[c]) /\ Cardinality(seen[c]) \in Nat
  BY <1>1, TurnIsNat
<1>5. asked[c] <= Turn(c) /\ asked[c] \in Nat
  BY <1>1, <1>2 DEF Turns, Typed
<1>6. ASSUME at' = [at EXCEPT ![c] = "ready"], result' = result,
             page' \in [Callers -> Nat], seen' \in [Callers -> SUBSET Tokens],
             \A d \in Callers \ {c} : page'[d] = page[d] /\ seen'[d] = seen[d],
             Turn(c)' = Turn(c) + 1,
             Op(c).pages = "numbered" => page'[c] <= PagesHeld + 1, Op(c).pages # "one"
      PROVE  Inv'
  <2>1. Typed' /\ \A d \in Callers \ {c} : Same(d)
    BY <1>1, <1>2, <1>6 DEF Typed, Steps, WireStates, Same
  <2>2. Wire(c)'
    BY <1>1, <1>2, <1>3, <1>6 DEF Typed, Wire
  <2>3. at'[c] = "ready" /\ asked'[c] = asked[c]
    BY <1>1, <1>2, <1>6 DEF Typed
  <2>4. Turns(c)'
    BY <1>3, <1>4, <1>5, <1>6, <2>3 DEF Turns
  <2> QED BY <1>2, <1>3, <2>1, <2>2, <2>4, Combine
<1>7. ASSUME NEW r \in Results, Return(c, r), page' = page, seen' = seen
      PROVE  Inv'
  <2>1. at' = [at EXCEPT ![c] = "done"] /\ result' = [result EXCEPT ![c] = r]
    BY <1>7 DEF Return, Go
  <2>2. Typed' /\ \A d \in Callers \ {c} : Same(d)
    BY <1>1, <1>2, <1>7, <2>1 DEF Typed, Steps, WireStates, Same
  <2>3. Wire(c)'
    BY <1>1, <1>2, <1>3, <2>1 DEF Typed, Wire
  <2>4. Turns(c)'
    BY <1>1, <1>2, <1>7, <2>1, SameTurn DEF Typed, Asking
  <2> QED BY <1>2, <1>3, <2>2, <2>3, <2>4, Combine
<1>8. {"ok", "repeated", "broke"} \subseteq Results
  BY DEF Results
<1>9. CASE numberedPages(c)
  <2>1. CASE LastPage(c)
    BY <1>7, <1>8, <1>9, <2>1 DEF numberedPages
  <2>2. CASE ~LastPage(c)
    <3>1. /\ Op(c).pages = "numbered" /\ page' = [page EXCEPT ![c] = @ + 1] /\ seen' = seen
          /\ at' = [at EXCEPT ![c] = "ready"] /\ result' = result /\ answer[c].entries
      BY <1>9, <2>2 DEF numberedPages, LastPage, Go
    <3>2. page[c] <= PagesHeld /\ page[c] \in Nat
      BY <1>1, <1>2, <3>1 DEF Turns, Typed
    <3>3. Turn(c)' = Turn(c) + 1
      BY <1>1, <1>3, <3>1 DEF Turn, Typed
    <3>4. /\ page' \in [Callers -> Nat] /\ page'[c] <= PagesHeld + 1
          /\ seen' \in [Callers -> SUBSET Tokens]
          /\ \A d \in Callers \ {c} : page'[d] = page[d] /\ seen'[d] = seen[d]
      BY <1>1, <3>1, <3>2, BoundAssumption DEF BoundAssumption, Typed
    <3> QED BY <1>6, <3>1, <3>3, <3>4
  <2> QED BY <2>1, <2>2
<1>10. CASE cursorPages(c)
  <2> DEFINE token == answer[c].next
  <2>1. CASE token = NoToken \/ Repeated(c)
    BY <1>7, <1>8, <1>10, <2>1 DEF cursorPages
  <2>2. CASE token # NoToken /\ ~Repeated(c)
    <3>1. /\ Op(c).pages = "cursor" /\ page' = page /\ seen' = [seen EXCEPT ![c] = @ \cup {token}]
          /\ at' = [at EXCEPT ![c] = "ready"] /\ result' = result /\ token \notin seen[c]
      BY <1>10, <2>2 DEF cursorPages, Repeated, Go
    <3>2. token \in Tokens
      BY <1>1, <2>2 DEF Typed, Answers
    <3> HIDE DEF token
    <3>3. Turn(c)' = Turn(c) + 1
      <4>1. Cardinality(seen[c] \cup {token}) = Cardinality(seen[c]) + 1
        BY <1>4, <3>1, FS_AddElement
      <4>2. seen'[c] = seen[c] \cup {token}
        BY <1>1, <3>1 DEF Typed
      <4> QED BY <1>3, <3>1, <4>1, <4>2 DEF Turn
    <3>4. /\ page' \in [Callers -> Nat] /\ seen' \in [Callers -> SUBSET Tokens]
          /\ \A d \in Callers \ {c} : page'[d] = page[d] /\ seen'[d] = seen[d]
      BY <1>1, <3>1, <3>2 DEF Typed
    <3> QED BY <1>6, <3>1, <3>3, <3>4
  <2> QED BY <2>1, <2>2
<1>11. CASE answer[c].entries /\ Return(c, "broke") /\ UNCHANGED <<page, seen>>
  BY <1>7, <1>8, <1>11
<1> QED BY <1>9, <1>10, <1>11 DEF Yield

(* The operation's context and the shutdown.                               *)
LEMMA AroundTheCalls ==
  ASSUME Inv,
         UNCHANGED vars \/ (\E c \in Callers : OperationEnds(c)) \/ ShutdownStarts \/ ShutdownSteps \/ shutdown
  PROVE  Inv'
<1>1. UNCHANGED <<method, at, result, failure, tries, page, seen, answer, asked, server, applied, inside>>
  BY DEF vars, OperationEnds, ShutdownStarts, ShutdownSteps, Publish, beginShutdown, shutdown,
         callVars, pageVars, wireVars
<1>2. Gate'
  BY DEF Inv, Gate, vars, OperationEnds, ShutdownStarts, ShutdownSteps, Publish, beginShutdown, shutdown, gateVars
<1>3. Typed'
  BY <1>1 DEF Inv, Typed
<1>4. ASSUME NEW c \in Callers
      PROVE  Called(c)' /\ Wire(c)' /\ Turns(c)'
  BY <1>1 DEF Inv, Called, Wire, OfWrite, Settled, Turns, Turn, Asking, IsWrite, Op
<1> QED BY <1>2, <1>3, <1>4 DEF Inv

LEMMA StepHolds == Inv /\ [Next]_vars => Inv'
<1> SUFFICES ASSUME Inv, [Next]_vars
             PROVE  Inv'
  OBVIOUS
<1>1. ASSUME NEW c \in Callers, ContextEnds(c) \/ Local(c)
      PROVE  Inv'
  BY <1>1, BeforeTheRequest DEF Local
<1>2. ASSUME NEW c \in Callers, Serve(c) \/ Request(c)
      PROVE  Inv'
  BY <1>2, OnTheWire, AttemptHolds, AttemptFails, AnsweredHolds, BackoffHolds DEF Request
<1>3. ASSUME NEW c \in Callers, After(c)
      PROVE  Inv'
  BY <1>3, AfterTheRequest, YieldHolds DEF After
<1>4. CASE \/ UNCHANGED vars \/ (\E c \in Callers : OperationEnds(c))
           \/ ShutdownStarts \/ ShutdownSteps \/ shutdown
  BY <1>4, AroundTheCalls
<1> QED BY <1>1, <1>2, <1>3, <1>4 DEF Next

(* The invariant holds on every behaviour.                                 *)
THEOREM CallsHold == Spec => []Inv
BY InitHolds, StepHolds, PTL DEF Spec

-----------------------------------------------------------------------------
(* Once Shutdown has drained the gate no operation is inside it: enter and  *)
(* shutdown of rest.go, for any number of calls and of Masks that shut the  *)
(* client down.                                                            *)
THEOREM DrainIsFinal == Spec => []GateStaysDrained
<1>1. Inv => GateStaysDrained
  BY DEF Inv, Gate, GateStaysDrained
<1> QED BY <1>1, CallsHold, PTL

(* A listing asks for at most one page beyond those the server holds, and   *)
(* for no cursor twice, whatever page counts and cursors it is given:       *)
(* the iterators of rest.go and reads.go.                                  *)
THEOREM ListingsEnd == Spec => []ListingsAreBounded
<1>1. Inv => ListingsAreBounded
  <2> SUFFICES ASSUME Inv, NEW c \in Callers, at[c] # "none"
               PROVE  asked[c] <= CASE Op(c).pages = "one" -> 1
                                    [] Op(c).pages = "numbered" -> PagesHeld + 1
                                    [] OTHER -> Cardinality(Tokens) + 1
    BY DEF ListingsAreBounded
  <2>1. /\ asked[c] <= Turn(c) /\ asked[c] \in Nat /\ PagesHeld \in Nat
        /\ Op(c).pages = "numbered" => page[c] <= PagesHeld + 1 /\ page[c] \in Nat
        /\ Op(c).pages = "one" => seen[c] = {}
    BY BoundAssumption DEF BoundAssumption, Inv, Turns, Typed
  <2>2. CASE Op(c).pages = "numbered"
    BY <2>1, <2>2 DEF Turn
  <2>3. CASE Op(c).pages = "one"
    BY <2>1, <2>3, FS_EmptySet DEF Turn
  <2>4. CASE Op(c).pages \notin {"one", "numbered"}
    <3>1. seen[c] \subseteq Tokens /\ IsFiniteSet(Tokens)
      BY BoundAssumption DEF BoundAssumption, Inv, Typed
    <3>2. /\ Cardinality(seen[c]) <= Cardinality(Tokens)
          /\ Cardinality(seen[c]) \in Nat /\ Cardinality(Tokens) \in Nat
      BY <3>1, FS_Subset, FS_CardinalityType
    <3>3. asked[c] <= Cardinality(seen[c]) + 1
      BY <2>1, <2>4 DEF Turn
    <3> QED BY <2>1, <2>4, <3>2, <3>3
  <2> QED BY <2>2, <2>3, <2>4
<1> QED BY <1>1, CallsHold, PTL

-----------------------------------------------------------------------------
(* RestCall implements WriteOnce.                                          *)

LEMMA Unapplied ==
  ASSUME Inv, NEW c \in Callers, server[c] # "applied"
  PROVE  applied[c] = 0
BY DEF Inv, Wire, Typed

(* A step by which no call returns and nothing is applied.                 *)
Steady(c) ==
  \/ (at'[c] = at[c] /\ result'[c] = result[c])
  \/ (at[c] # "done" /\ at'[c] # "done")

LEMMA Quietly ==
  ASSUME applied' = applied, method' = method,
         \A c \in Callers : Steady(c)
  PROVE  UNCHANGED Write!vars
<1>1. \A c \in Callers : Tells(c)' = Tells(c)
  BY DEF Steady, Tells, IsWrite, Op
<1>2. Told' = Told
  BY <1>1 DEF Told
<1> QED BY <1>2 DEF Write!vars

LEMMA Unmoved ==
  ASSUME applied' = applied, method' = method, at' = at, result' = result
  PROVE  [Write!Next]_Write!vars
<1>1. \A c \in Callers : Steady(c)
  BY DEF Steady
<1> QED BY <1>1, Quietly

LEMMA Moving ==
  ASSUME Inv, NEW c \in Callers, NEW step \in Steps \ {"done"}, Go(c, step), at[c] # "done",
         applied' = applied, method' = method, result' = result
  PROVE  [Write!Next]_Write!vars
<1>1. \A d \in Callers : Steady(d)
  BY DEF Steady, Go, Inv, Typed
<1> QED BY <1>1, Quietly

(* A call returns: what it tells is true.                                  *)
LEMMA Returning ==
  ASSUME Inv, Inv', NEW c \in Callers, NEW r, Return(c, r), at[c] \notin {"none", "done"},
         applied' = applied, method' = method
  PROVE  [Write!Next]_Write!vars
<1> DEFINE v == IF r \in {"ok", "unknown"} THEN r ELSE "failed"
<1>1. /\ at' = [at EXCEPT ![c] = "done"] /\ result' = [result EXCEPT ![c] = r]
      /\ at'[c] = "done" /\ result'[c] = r
      /\ \A d \in Callers \ {c} : at'[d] = at[d] /\ result'[d] = result[d]
  BY DEF Return, Go, Inv, Typed
<1>2. \A d \in Callers : IsWrite(d)' = IsWrite(d)
  BY DEF IsWrite, Op
<1>3. /\ Tells(c) = "none" /\ Tells(c)' = IF IsWrite(c) THEN v ELSE "none"
      /\ \A d \in Callers \ {c} : Tells(d)' = Tells(d)
  <2>1. Tells(c) = "none"
    BY DEF Tells
  <2>2. Tells(c)' = IF IsWrite(c) THEN v ELSE "none"
    BY <1>1 DEF Tells, IsWrite, Op
  <2>3. \A d \in Callers \ {c} : Tells(d)' = Tells(d)
    BY <1>1 DEF Tells, IsWrite, Op
  <2> QED BY <2>1, <2>2, <2>3
<1>4. CASE ~IsWrite(c)
  <2>1. \A d \in Callers : Tells(d)' = Tells(d)
    BY <1>3, <1>4
  <2>2. Told' = Told
    BY <2>1 DEF Told
  <2> QED BY <2>2 DEF Write!vars
<1>5. CASE IsWrite(c)
  <2>1. Told' = [Told EXCEPT ![c] = v]
    <3>1. Told' = [d \in Callers |-> IF d = c THEN v ELSE Tells(d)]
      BY <1>3, <1>5 DEF Told
    <3> QED BY <3>1 DEF Told
  <2>2. OfWrite(c)'
    BY <1>1, <1>2, <1>5 DEF Inv, Wire
  <2>3. v = "ok" => applied[c] = 1
    BY <1>1, <2>2 DEF OfWrite
  <2>4. v = "failed" => applied[c] = 0
    <3>1. v = "failed" => server'[c] # "applied"
      BY <1>1, <2>2 DEF OfWrite, Settled
    <3>2. server'[c] # "applied" => applied'[c] = 0
      BY DEF Inv, Wire, Typed
    <3> QED BY <3>1, <3>2
  <2>5. v \in {"ok", "failed", "unknown"}
    OBVIOUS
  <2> HIDE DEF v
  <2>6. Write!Tell(c, v)
    BY <1>3, <2>1, <2>3, <2>4 DEF Write!Tell, Told
  <2> QED BY <2>5, <2>6 DEF Write!Next
<1> QED BY <1>4, <1>5

(* The server applies a write: the first time, and no caller was told that  *)
(* it failed.                                                              *)
LEMMA Applying ==
  ASSUME Inv, NEW c \in Callers, Serve(c)
  PROVE  [Write!Next]_Write!vars
<1>1. /\ server[c] = "sent" /\ at' = at /\ result' = result /\ method' = method /\ at[c] # "none"
      /\ applied \in [Callers -> Nat]
  BY DEF Serve, callVars, Inv, Wire, Typed
<1>2. Told' = Told
  <2>1. \A d \in Callers : Tells(d)' = Tells(d)
    BY <1>1 DEF Tells, IsWrite, Op
  <2> QED BY <2>1 DEF Told
<1>3. CASE applied' = applied
  BY <1>2, <1>3 DEF Write!vars
<1>4. CASE applied' # applied
  <2>1. IsWrite(c) /\ applied' = [applied EXCEPT ![c] = @ + 1]
    BY <1>1, <1>4 DEF Serve
  <2>2. applied[c] = 0 /\ OfWrite(c)
    BY <1>1, <2>1, Unapplied DEF Inv, Wire
  <2>3. Told[c] \in {"none", "unknown"}
    BY <1>1, <2>2 DEF OfWrite, Settled, Told, Tells
  <2>4. applied' = [applied EXCEPT ![c] = 1]
    BY <2>1, <2>2
  <2>5. Write!Apply(c)
    BY <1>2, <2>2, <2>3, <2>4 DEF Write!Apply
  <2> QED BY <2>5 DEF Write!Next
<1> QED BY <1>3, <1>4

LEMMA StepImplements == Inv /\ Inv' /\ [Next]_vars => [Write!Next]_Write!vars
<1> SUFFICES ASSUME Inv, Inv', [Next]_vars
             PROVE  [Write!Next]_Write!vars
  OBVIOUS
<1>1. at \in [Callers -> Steps] /\ result \in [Callers -> Results]
  BY DEF Inv, Typed
<1>2. CASE UNCHANGED vars
  <2>1. applied' = applied /\ method' = method /\ at' = at /\ result' = result
    BY <1>2 DEF vars, callVars, wireVars
  <2> QED BY <2>1, Unmoved
<1>3. CASE ShutdownStarts \/ ShutdownSteps \/ shutdown
  <2>1. applied' = applied /\ method' = method /\ at' = at /\ result' = result
    BY <1>3 DEF ShutdownStarts, ShutdownSteps, Publish, beginShutdown, shutdown, callVars, wireVars
  <2> QED BY <2>1, Unmoved
<1>4. ASSUME NEW c \in Callers, ContextEnds(c) \/ OperationEnds(c) \/ MaskShutsDown(c) \/ MaskGoesOn(c)
                               \/ Transmit(c) \/ release(c)
      PROVE  [Write!Next]_Write!vars
  <2>1. applied' = applied /\ method' = method /\ result' = result
    BY <1>4 DEF ContextEnds, OperationEnds, MaskShutsDown, MaskGoesOn, Transmit, release, callVars, wireVars
  <2>2. \/ at' = at
        \/ \E step \in Steps \ {"done"} : Go(c, step) /\ at[c] # "done"
    BY <1>4
       DEF ContextEnds, OperationEnds, MaskShutsDown, MaskGoesOn, Transmit, release, callVars, wireVars, Steps
  <2> QED BY <2>1, <2>2, Unmoved, Moving
<1>5. ASSUME NEW c \in Callers, Serve(c)
      PROVE  [Write!Next]_Write!vars
  BY <1>5, Applying
<1>6. ASSUME NEW c \in Callers, NEW step \in Steps \ {"done"}, Go(c, step), result' = result, at[c] # "done",
             applied' = applied, method' = method
      PROVE  [Write!Next]_Write!vars
  BY <1>1, <1>6, Moving
<1>7. ASSUME NEW c \in Callers, Ready(c) \/ Mask(c) \/ Serialize(c) \/ enter(c)
      PROVE  [Write!Next]_Write!vars
  <2>1. at[c] \notin {"none", "done"} /\ applied' = applied /\ method' = method
    BY <1>7 DEF Ready, Mask, Serialize, enter, wireVars
  <2>2. \/ \E r : Return(c, r)
        \/ \E step \in {"mask", "enter", "attempt"} : Go(c, step) /\ result' = result
    BY <1>7, Follows DEF Ready, Mask, Serialize, enter
  <2> QED BY <1>6, <2>1, <2>2, Returning DEF Steps
<1>8. ASSUME NEW c \in Callers, Attempt(c) \/ DoFails(c) \/ Refused(c) \/ AnswerLost(c) \/ Answered(c) \/ Backoff(c)
      PROVE  [Write!Next]_Write!vars
  <2>1. at[c] # "done" /\ applied' = applied /\ method' = method /\ result' = result
    BY <1>8 DEF Attempt, DoFails, Refused, AnswerLost, Answered, Backoff, wireVars
  <2>2. \E step \in {"failed", "sent", "backoff", "answered", "attempt"} : Go(c, step)
    BY <1>8 DEF Attempt, DoFails, Refused, AnswerLost, Answered, Backoff, canceledError, Fails
  <2> QED BY <1>6, <2>1, <2>2 DEF Steps
<1>9. ASSUME NEW c \in Callers, restFailure(c) \/ Succeeds(c) \/ Yield(c)
      PROVE  [Write!Next]_Write!vars
  <2>1. at[c] \notin {"none", "done"} /\ applied' = applied /\ method' = method
    BY <1>9 DEF restFailure, Succeeds, Yield, wireVars
  <2>2. (\E r : Return(c, r)) \/ (Go(c, "ready") /\ result' = result)
    BY <1>9 DEF restFailure, Succeeds, Yield, numberedPages, cursorPages
  <2> QED BY <1>6, <2>1, <2>2, Returning DEF Steps
<1> QED BY <1>2, <1>3, <1>4, <1>5, <1>7, <1>8, <1>9 DEF Next, Local, Request, After

(* RestCall implements WriteOnce: the server applies a write at most once   *)
(* (a second time is no step of WriteOnce), success means it was, and an   *)
(* error other than ErrWriteOutcomeUnknown that it never will be, whatever *)
(* the network, the gateway and Shutdown do (transport's rest.go).         *)
THEOREM WritesAreOnce == Spec => ImplementsWriteOnce
<1>1. Init => Write!Init
  <2> SUFFICES ASSUME Init
               PROVE  Write!Init
    OBVIOUS
  <2>1. Told = [c \in Callers |-> "none"]
    BY DEF Init, Told, Tells
  <2>2. applied = [c \in Callers |-> 0]
    BY DEF Init
  <2> QED BY <2>1, <2>2 DEF Write!Init
<1> QED BY <1>1, CallsHold, StepImplements, PTL DEF Spec, ImplementsWriteOnce, Write!Spec

-----------------------------------------------------------------------------
(* Experiments.                                                             *)

WorkerType ==
  [at : {"claim", "check", "start", "root", "link", "identify", "task", "evaluate", "gone"},
   item : 0..Items, evaluator : Nat]
ResultType ==
  [err : {"none", "not started", "failed"}, written : BOOLEAN, dataset : BOOLEAN, traced : BOOLEAN,
   evals : Nat, evalErr : BOOLEAN]
RootType ==
  [at : {"none", "dropped", "open", "ended"}, identity : SUBSET FullIdentity, failed : BOOLEAN, kept : BOOLEAN]
RunType ==
  [at : {"wait"} \cup Past, evaluator : Nat, evals : Nat, scored : Nat, dataset : 0..Items,
   returns : {"none", "canceled", "flush failed", "ok"}]

RunTyped ==
  /\ ended \in BOOLEAN /\ clientStopped \in BOOLEAN /\ next \in Nat
  /\ worker \in [Workers -> WorkerType]
  /\ results \in [Index -> ResultType] /\ root \in [Index -> RootType]
  /\ link \in [Index -> {"none", "stored"}]
  /\ runs \in [Index -> Nat] /\ scores \in [Index -> Nat]
  /\ run \in RunType

Busy(w) == worker[w].at \notin {"claim", "gone"}

\* An item nobody has claimed.
Untouched(i) ==
  results[i] = NoResult /\ root[i] = NoRoot /\ link[i] = "none" /\ runs[i] = 0 /\ scores[i] = 0

Exported(i) == root[i].at = "ended" /\ root[i].identity = FullIdentity

\* An item whose worker has left it.
Finished(i) ==
  /\ results[i].written /\ (runs[i] = 1 \/ results[i].err # "none")
  /\ results[i].dataset => link[i] = "stored" /\ results[i].traced
  /\ results[i].traced => Exported(i)
  /\ scores[i] > 0 => results[i].traced
  /\ ~results[i].traced /\ root[i].at = "ended" => "id" \notin root[i].identity

\* An item whose worker is about to take step.
Doing(i, step) ==
  /\ ~results[i].written
  /\ step \in {"check", "start", "root"} => Untouched(i)
  /\ step # "evaluate" => scores[i] = 0 /\ runs[i] = 0
  /\ step = "link" =>
       results[i] = NoResult /\ link[i] = "none" /\ root[i].at = "open" /\ "id" \notin root[i].identity
  /\ step = "identify" => root[i].at = "open" /\ ~results[i].traced
  /\ results[i].dataset => link[i] = "stored"
  /\ step \in {"task", "evaluate"} => results[i].traced
  /\ step = "task" => root[i].at = "open" /\ root[i].identity = FullIdentity
  /\ step = "evaluate" => Exported(i) /\ runs[i] = 1

Claims ==
  /\ \A v, w \in Workers : v # w => worker[v].item = 0 \/ worker[v].item # worker[w].item
  /\ \A w \in Workers :
       /\ worker[w].item <= next
       /\ Busy(w) => worker[w].item \in Index /\ Doing(worker[w].item, worker[w].at)
       /\ worker[w].at = "gone" => next >= Items
  /\ \A i \in Index :
       /\ next < i => Untouched(i)
       /\ i <= next => Finished(i) \/ \E w \in Workers : Busy(w) /\ worker[w].item = i

Caller ==
  /\ run.at \in Past => \A w \in Workers : worker[w].at = "gone"
  /\ run.dataset # 0 => run.at \in Past /\ link[run.dataset] = "stored"
  /\ run.scored > 0 => run.dataset # 0

RunInv == RunTyped /\ Claims /\ Caller

-----------------------------------------------------------------------------
LEMMA RunInitHolds == RunInit => RunInv
<1> SUFFICES ASSUME RunInit
             PROVE  RunInv
  OBVIOUS
<1> USE SizesAssumption DEF RunInit, NoResult, NoRoot
<1>1. RunTyped
  <2>1. worker \in [Workers -> WorkerType] /\ 0 \in 0..Items
    BY DEF WorkerType
  <2>2. results \in [Index -> ResultType]
    BY DEF ResultType
  <2>3. root \in [Index -> RootType]
    BY DEF RootType
  <2>4. run \in RunType
    BY DEF RunType
  <2> QED BY <2>1, <2>2, <2>3, <2>4 DEF RunTyped
<1>2. Claims
  <2>1. \A w \in Workers : worker[w].item = 0 /\ worker[w].at = "claim" /\ ~Busy(w)
    BY DEF Busy
  <2>2. \A i \in Index : Untouched(i) /\ next < i
    BY DEF Untouched, Index
  <2> QED BY <2>1, <2>2 DEF Claims, Index
<1>3. Caller
  BY DEF Caller, Past
<1> QED BY <1>1, <1>2, <1>3 DEF RunInv

(* A busy worker's step touches its own item only, which it goes on with or *)
(* leaves finished.                                                        *)
Apart(w, i) ==
  /\ \A v \in Workers \ {w} : worker'[v] = worker[v]
  /\ \A j \in Index \ {i} : /\ results'[j] = results[j] /\ root'[j] = root[j] /\ link'[j] = link[j]
                            /\ runs'[j] = runs[j] /\ scores'[j] = scores[j]
  /\ worker'[w].item = i /\ next' = next /\ run' = run

LEMMA OwnStep ==
  ASSUME RunInv, NEW w \in Workers, NEW i \in Index, i = worker[w].item, Busy(w),
         RunTyped', Apart(w, i),
         \/ Busy(w)' /\ \E step : worker'[w].at = step /\ Doing(i, step)'
         \/ worker'[w].at = "claim" /\ Finished(i)'
  PROVE  RunInv'
<1>1. \A v \in Workers \ {w} : (Busy(v)' <=> Busy(v)) /\ worker'[v] = worker[v] /\ worker[v].item # i
  BY SizesAssumption DEF Apart, Busy, RunInv, Claims, Index
<1>2. \A j \in Index \ {i} : /\ Untouched(j)' <=> Untouched(j)
                             /\ Finished(j)' <=> Finished(j)
                             /\ \A step : Doing(j, step)' <=> Doing(j, step)
  <2> SUFFICES ASSUME NEW j \in Index \ {i}
               PROVE  /\ Untouched(j)' <=> Untouched(j)
                      /\ Finished(j)' <=> Finished(j)
                      /\ \A step : Doing(j, step)' <=> Doing(j, step)
    OBVIOUS
  <2>1. /\ results'[j] = results[j] /\ root'[j] = root[j] /\ link'[j] = link[j]
        /\ runs'[j] = runs[j] /\ scores'[j] = scores[j]
    BY DEF Apart
  <2>2. Untouched(j)' <=> Untouched(j) BY <2>1 DEF Untouched
  <2>3. Exported(j)' <=> Exported(j) BY <2>1 DEF Exported
  <2>4. Finished(j)' <=> Finished(j) BY <2>1, <2>3 DEF Finished
  <2>5. ASSUME NEW step PROVE Doing(j, step)' <=> Doing(j, step) BY <2>1, <2>2, <2>3 DEF Doing
  <2> QED BY <2>2, <2>4, <2>5
<1>3. worker'[w].at # "gone" /\ worker'[w].item = i /\ next' = next /\ i <= next
  BY DEF Busy, Apart, RunInv, Claims
<1>4. Claims'
  <2>1. \A v, u \in Workers : v # u => worker'[v].item = 0 \/ worker'[v].item # worker'[u].item
    BY <1>1, <1>3 DEF RunInv, Claims
  <2>2. ASSUME NEW v \in Workers
        PROVE  /\ worker'[v].item <= next'
               /\ Busy(v)' => worker'[v].item \in Index /\ Doing(worker[v].item, worker[v].at)'
               /\ worker'[v].at = "gone" => next' >= Items
    <3>1. CASE v = w
      <4>1. Busy(w)' => Doing(worker[w].item, worker[w].at)'
        BY <1>3 DEF Busy
      <4> QED BY <1>3, <3>1, <4>1
    <3>2. CASE v # w
      <4>1. Busy(v)' => Doing(worker[v].item, worker[v].at)'
        <5> SUFFICES ASSUME Busy(v)'
                     PROVE  Doing(worker[v].item, worker[v].at)'
          OBVIOUS
        <5> DEFINE j == worker[v].item
                   step == worker[v].at
        <5>1. j \in Index \ {i} /\ Doing(j, step) /\ worker'[v] = worker[v]
          BY <1>1, <3>2 DEF RunInv, Claims
        <5>2. \A k \in Index \ {i} : \A s : Doing(k, s) => Doing(k, s)'
          BY <1>2
        <5>3. \A k \in Index \ {i} : \A s : k = j /\ s = step => Doing(k, s)'
          BY <5>1, <5>2
        <5> QED BY <5>1, <5>3
      <4> QED BY <1>1, <1>3, <3>2, <4>1 DEF RunInv, Claims
    <3> QED BY <3>1, <3>2
  <2>3. ASSUME NEW j \in Index
        PROVE  /\ next' < j => Untouched(j)'
               /\ j <= next' => Finished(j)' \/ \E v \in Workers : Busy(v)' /\ worker'[v].item = j
    <3>1. CASE j = i
      <4>1. next \in Nat /\ i \in Nat
        BY SizesAssumption DEF RunInv, RunTyped, Index
      <4> QED BY <1>3, <3>1, <4>1
    <3>2. CASE j # i
      <4>1. /\ next < j => Untouched(j)
            /\ j <= next => Finished(j) \/ \E v \in Workers : Busy(v) /\ worker[v].item = j
        BY DEF RunInv, Claims
      <4> QED BY <1>1, <1>2, <1>3, <3>2, <4>1
    <3> QED BY <3>1, <3>2
  <2> QED BY <2>1, <2>2, <2>3 DEF Claims
<1>5. Caller'
  <2>1. run.at \notin Past
    BY DEF Busy, RunInv, Caller
  <2> QED BY <2>1 DEF Apart, RunInv, Caller
<1> QED BY <1>4, <1>5 DEF RunInv

-----------------------------------------------------------------------------
(* The workers. *)

\* What Fail and Go do to the worker and the result at hand.
LeftWith(w, i, r) ==
  /\ worker' \in [Workers -> WorkerType] /\ results' \in [Index -> ResultType]
  /\ \A v \in Workers \ {w} : worker'[v] = worker[v]
  /\ worker'[w].at = "claim" /\ worker'[w].item = i
  /\ \A j \in Index \ {i} : results'[j] = results[j]
  /\ results'[i].written /\ results'[i].err # "none"
  /\ results'[i].dataset = r.dataset /\ results'[i].traced = r.traced

LEMMA Failing ==
  ASSUME RunInv, NEW w \in Workers, NEW i \in Index, i = worker[w].item, NEW r \in ResultType,
         NEW err \in {"not started", "failed"}, Fail(w, r, err)
  PROVE  LeftWith(w, i, r)
BY ZenonT(30) DEF LeftWith, Fail, WriteResult, GoOn, RunInv, RunTyped, WorkerType, ResultType

LEMMA Going ==
  ASSUME RunInv, NEW w \in Workers, NEW step \in {"start", "root", "link", "identify", "task"}, GoOn(w, step)
  PROVE  /\ worker' \in [Workers -> WorkerType]
         /\ \A v \in Workers \ {w} : worker'[v] = worker[v]
         /\ worker'[w].at = step /\ worker'[w].item = worker[w].item
         /\ Busy(w)'
BY DEF GoOn, RunInv, RunTyped, WorkerType, Busy

LEMMA ClaimHolds == ASSUME RunInv, NEW w \in Workers, Claim(w) PROVE RunInv'
<1>1. UNCHANGED <<ended, clientStopped, results, root, link, runs, scores, run>> /\ next' = next + 1 /\ next \in Nat
  BY DEF Claim, RunInv, RunTyped
<1>2. /\ worker' \in [Workers -> WorkerType]
      /\ \A v \in Workers \ {w} : worker'[v] = worker[v]
      /\ next >= Items => worker'[w].at = "gone" /\ worker'[w].item = worker[w].item
      /\ next < Items => worker'[w].at = "check" /\ worker'[w].item = next + 1 /\ next + 1 \in Index
  <2>1. worker \in [Workers -> WorkerType] /\ worker[w] \in WorkerType
    BY DEF RunInv, RunTyped
  <2>2. CASE next >= Items
    <3>1. worker' = [worker EXCEPT ![w] = [@ EXCEPT !.at = "gone"]]
      BY <2>2 DEF Claim
    <3> QED BY <1>1, <2>1, <2>2, <3>1, SizesAssumption DEF WorkerType
  <2>3. CASE ~(next >= Items)
    <3>1. worker' = [worker EXCEPT ![w] = [at |-> "check", item |-> next + 1, evaluator |-> 0]]
      BY <2>3 DEF Claim
    <3>2. next + 1 \in Index /\ next + 1 \in 0..Items
      BY <1>1, <2>3, SizesAssumption DEF Index
    <3> QED BY <1>1, <2>1, <2>3, <3>1, <3>2, SizesAssumption DEF WorkerType
  <2> QED BY <2>2, <2>3
<1>3. RunTyped'
  BY <1>1, <1>2 DEF RunInv, RunTyped
<1>4. /\ \A v \in Workers : worker[v].item \in Nat /\ worker[v].item <= next
      /\ worker[w].at = "claim" /\ run.at \notin Past
  BY SizesAssumption DEF RunInv, RunTyped, WorkerType, Claims, Claim, Caller
<1>5. \A i \in Index : /\ i \in Nat
                       /\ Untouched(i)' <=> Untouched(i)
                       /\ Finished(i)' <=> Finished(i)
                       /\ \A step : Doing(i, step)' <=> Doing(i, step)
  BY <1>1, SizesAssumption DEF Untouched, Finished, Doing, Exported, Index
<1>6. \A v \in Workers \ {w} : Busy(v)' <=> Busy(v)
  BY <1>2 DEF Busy
<1>7. Claims'
  <2>1. \A u, v \in Workers : u # v => worker'[u].item = 0 \/ worker'[u].item # worker'[v].item
    BY <1>1, <1>2, <1>4, SizesAssumption DEF RunInv, Claims
  <2>2. ASSUME NEW v \in Workers
        PROVE  /\ worker'[v].item <= next'
               /\ Busy(v)' => worker'[v].item \in Index /\ Doing(worker[v].item, worker[v].at)'
               /\ worker'[v].at = "gone" => next' >= Items
    <3>1. CASE v = w
      <4>1. CASE next >= Items
        BY <1>1, <1>2, <1>4, <3>1, <4>1, SizesAssumption DEF Busy
      <4>2. CASE next < Items
        <5>1. Untouched(next + 1)
          BY <1>1, <1>2, <4>2 DEF RunInv, Claims
        <5>2. Doing(next + 1, "check")
          BY <5>1 DEF Doing, Untouched, NoResult
        <5>3. \A j \in Index : \A step : j = next + 1 /\ step = "check" => Doing(j, step)'
          BY <1>5, <5>2
        <5>4. Doing(worker[v].item, worker[v].at)'
          BY <1>2, <3>1, <4>2, <5>3
        <5> QED BY <1>1, <1>2, <3>1, <4>2, <5>4
      <4> QED BY <1>1, <4>1, <4>2, SizesAssumption
    <3>2. CASE v # w
      <4>1. /\ worker[v].item <= next
            /\ Busy(v) => worker[v].item \in Index /\ Doing(worker[v].item, worker[v].at)
            /\ worker[v].at = "gone" => next >= Items
        BY DEF RunInv, Claims
      <4>2. \A j \in Index : \A step : j = worker[v].item /\ step = worker[v].at /\ Doing(j, step) => Doing(j, step)'
        BY <1>5
      <4>3. Busy(v)' => Doing(worker[v].item, worker[v].at)'
        BY <1>2, <1>6, <3>2, <4>1, <4>2
      <4> QED BY <1>1, <1>2, <1>4, <1>6, <3>2, <4>1, <4>3, SizesAssumption
    <3> QED BY <3>1, <3>2
  <2>3. ASSUME NEW i \in Index
        PROVE  /\ next' < i => Untouched(i)'
               /\ i <= next' => Finished(i)' \/ \E v \in Workers : Busy(v)' /\ worker'[v].item = i
    <3>1. CASE i = next + 1
      <4>1. next < Items
        BY <1>1, <3>1, SizesAssumption DEF Index
      <4>2. Busy(w)' /\ worker'[w].item = i
        BY <1>2, <3>1, <4>1 DEF Busy
      <4> QED BY <1>1, <3>1, <4>2
    <3>2. CASE i # next + 1
      <4>1. /\ next < i => Untouched(i)
            /\ i <= next => Finished(i) \/ \E v \in Workers : Busy(v) /\ worker[v].item = i
        BY DEF RunInv, Claims
      <4>2. \A v \in Workers : Busy(v) => v # w
        BY <1>4 DEF Busy
      <4> QED BY <1>1, <1>2, <1>5, <1>6, <3>2, <4>1, <4>2
    <3> QED BY <3>1, <3>2
  <2> QED BY <2>1, <2>2, <2>3 DEF Claims
<1>8. Caller'
  BY <1>1, <1>4 DEF RunInv, Caller
<1> QED BY <1>3, <1>7, <1>8 DEF RunInv
LEMMA NothingIsResult == NoResult \in ResultType /\ ~NoResult.dataset /\ ~NoResult.traced /\ ~NoResult.written
BY DEF NoResult, ResultType

LEMMA LeftUntouched ==
  ASSUME NEW w \in Workers, NEW i \in Index, Untouched(i), LeftWith(w, i, NoResult),
         UNCHANGED <<root, link, runs, scores>>
  PROVE  Finished(i)'
BY NothingIsResult DEF LeftWith, Finished, Untouched, NoRoot

LEMMA CheckHolds ==
  ASSUME RunInv, NEW w \in Workers, NEW i \in Index, i = worker[w].item, Check(w)
  PROVE  RunInv'
<1>1. Busy(w) /\ Doing(i, "check") /\ i <= next
  BY DEF Check, Busy, RunInv, Claims
<1>2. UNCHANGED <<ended, clientStopped, next, root, link, runs, scores, run>> /\ Untouched(i)
  BY <1>1 DEF Check, Doing
<1>3. ASSUME NEW err \in {"not started", "failed"}, Fail(w, NoResult, err)
      PROVE  RunInv'
  <2>0. LeftWith(w, i, NoResult)
    BY <1>3, Failing, NothingIsResult
  <2>1. RunTyped' /\ Apart(w, i) /\ worker'[w].at = "claim"
    BY <1>2, <1>3, <2>0 DEF LeftWith, RunInv, RunTyped, Apart
  <2>2. Finished(i)'
    BY <1>2, <2>0, LeftUntouched
  <2> QED BY <1>1, <2>1, <2>2, OwnStep
<1>4. CASE GoOn(w, "start") /\ UNCHANGED results
  <2>1. RunTyped' /\ Apart(w, i) /\ worker'[w].at = "start" /\ Busy(w)'
    BY <1>2, <1>4, Going DEF RunInv, RunTyped, Apart
  <2>2. Doing(i, "start")'
    BY <1>1, <1>2, <1>4 DEF Doing, Untouched
  <2> QED BY <1>1, <2>1, <2>2, OwnStep
<1> QED BY <1>3, <1>4 DEF Check

LEMMA PrepareHolds ==
  ASSUME RunInv, NEW w \in Workers, NEW i \in Index, i = worker[w].item, Prepare(w)
  PROVE  RunInv'
<1>1. Busy(w) /\ Doing(i, "start") /\ i <= next
  BY DEF Prepare, Busy, RunInv, Claims
<1>2. UNCHANGED <<ended, clientStopped, next, root, link, runs, scores, run>> /\ Untouched(i)
  BY <1>1 DEF Prepare, Doing
<1>3. CASE Fail(w, NoResult, "failed")
  <2>0. LeftWith(w, i, NoResult)
    BY <1>3, Failing, NothingIsResult
  <2>1. RunTyped' /\ Apart(w, i) /\ worker'[w].at = "claim"
    BY <1>2, <1>3, <2>0 DEF LeftWith, RunInv, RunTyped, Apart
  <2>2. Finished(i)'
    BY <1>2, <2>0, LeftUntouched
  <2> QED BY <1>1, <2>1, <2>2, OwnStep
<1>4. CASE GoOn(w, "root") /\ UNCHANGED results
  <2>1. RunTyped' /\ Apart(w, i) /\ worker'[w].at = "root" /\ Busy(w)'
    BY <1>2, <1>4, Going DEF RunInv, RunTyped, Apart
  <2>2. Doing(i, "root")'
    BY <1>1, <1>2, <1>4 DEF Doing, Untouched
  <2> QED BY <1>1, <2>1, <2>2, OwnStep
<1> QED BY <1>3, <1>4 DEF Prepare

LEMMA StartRootHolds ==
  ASSUME RunInv, NEW w \in Workers, NEW i \in Index, i = worker[w].item, StartRoot(w)
  PROVE  RunInv'
<1>1. Busy(w) /\ Doing(i, "root") /\ i <= next
  BY DEF StartRoot, Busy, RunInv, Claims
<1>2. UNCHANGED <<ended, clientStopped, next, link, runs, scores, run>> /\ Untouched(i)
  BY <1>1 DEF StartRoot, Doing
<1>3. ASSUME Fail(w, NoResult, "failed"), root' \in [Index -> RootType], root'[i].at # "ended",
             \A j \in Index \ {i} : root'[j] = root[j]
      PROVE  RunInv'
  <2>0. LeftWith(w, i, NoResult)
    BY <1>3, Failing, NothingIsResult
  <2>1. RunTyped' /\ Apart(w, i) /\ worker'[w].at = "claim"
    BY <1>2, <1>3, <2>0 DEF LeftWith, RunInv, RunTyped, Apart
  <2>2. Finished(i)'
    BY <1>1, <1>2, <1>3, <2>0, NothingIsResult DEF LeftWith, Finished, Untouched
  <2> QED BY <1>1, <2>1, <2>2, OwnStep
<1>4. CASE Fail(w, NoResult, "failed") /\ UNCHANGED root
  BY <1>2, <1>3, <1>4 DEF RunInv, RunTyped, Untouched, NoRoot
<1>5. CASE /\ root' = [root EXCEPT ![i] = [NoRoot EXCEPT !.at = "dropped", !.kept = FALSE]]
           /\ Fail(w, NoResult, "failed")
  <2>1. [NoRoot EXCEPT !.at = "dropped", !.kept = FALSE] \in RootType
    BY DEF NoRoot, RootType
  <2>2. [NoRoot EXCEPT !.at = "dropped", !.kept = FALSE].at # "ended"
    BY DEF NoRoot
  <2> QED BY <1>1, <1>3, <1>5, <2>1, <2>2 DEF RunInv, RunTyped
<1>6. CASE /\ root' = [root EXCEPT ![i] = [NoRoot EXCEPT !.at = "open", !.identity = StartAttributes(i)]]
           /\ GoOn(w, IF i \in Linked THEN "link" ELSE "identify") /\ UNCHANGED results
  <2>1. [NoRoot EXCEPT !.at = "open", !.identity = StartAttributes(i)] \in RootType
    BY DEF NoRoot, RootType, StartAttributes, Shared, FullIdentity
  <2>2. /\ [NoRoot EXCEPT !.at = "open", !.identity = StartAttributes(i)].at = "open"
        /\ i \in Linked => "id" \notin [NoRoot EXCEPT !.at = "open", !.identity = StartAttributes(i)].identity
    BY DEF NoRoot, StartAttributes, Shared
  <2> DEFINE step == IF i \in Linked THEN "link" ELSE "identify"
  <2>3. step \in {"link", "identify"} /\ GoOn(w, step) /\ (step = "link" => i \in Linked)
    BY <1>6
  <2> HIDE DEF step
  <2>4. /\ root' \in [Index -> RootType] /\ root'[i].at = "open"
        /\ i \in Linked => "id" \notin root'[i].identity
        /\ \A j \in Index \ {i} : root'[j] = root[j]
    BY <1>1, <1>6, <2>1, <2>2 DEF RunInv, RunTyped
  <2>5. RunTyped' /\ Apart(w, i) /\ worker'[w].at = step /\ Busy(w)'
    BY <1>2, <1>6, <2>3, <2>4, Going DEF RunInv, RunTyped, Apart
  <2>6. Doing(i, step)'
    BY <1>1, <1>2, <1>6, <2>3, <2>4 DEF Doing, Untouched, NoResult
  <2> QED BY <1>1, <2>5, <2>6, OwnStep
<1> QED BY <1>4, <1>5, <1>6 DEF StartRoot
LEMMA EndsRoot ==
  ASSUME RunInv, NEW i \in Index, NEW identity \in SUBSET FullIdentity, NEW failed \in BOOLEAN,
         EndRoot(i, identity, failed)
  PROVE  /\ root' \in [Index -> RootType] /\ root'[i].at = "ended" /\ root'[i].identity = identity
         /\ \A j \in Index \ {i} : root'[j] = root[j]
BY DEF EndRoot, RunInv, RunTyped, RootType

LEMMA ResultGrows ==
  ASSUME NEW r \in ResultType
  PROVE  /\ [r EXCEPT !.dataset = TRUE] \in ResultType /\ [r EXCEPT !.traced = TRUE] \in ResultType
         /\ [r EXCEPT !.dataset = TRUE].written = r.written /\ [r EXCEPT !.dataset = TRUE].traced = r.traced
         /\ [r EXCEPT !.traced = TRUE].written = r.written /\ [r EXCEPT !.traced = TRUE].dataset = r.dataset
         /\ [r EXCEPT !.traced = TRUE].traced
BY DEF ResultType

LEMMA LinkHolds ==
  ASSUME RunInv, NEW w \in Workers, NEW i \in Index, i = worker[w].item, linkItem(w)
  PROVE  RunInv'
<1>1. Busy(w) /\ Doing(i, "link")
  BY DEF linkItem, Busy, RunInv, Claims
<1>2. UNCHANGED <<ended, clientStopped, next, runs, scores, run>>
  BY DEF linkItem
<1>3. ASSUME link' = [link EXCEPT ![i] = "stored"], results' = [results EXCEPT ![i].dataset = TRUE],
             GoOn(w, "identify"), root' = root
      PROVE  RunInv'
  <2>1. /\ results' \in [Index -> ResultType] /\ link' \in [Index -> {"none", "stored"}] /\ link'[i] = "stored"
        /\ ~results'[i].written /\ ~results'[i].traced
        /\ \A j \in Index \ {i} : results'[j] = results[j] /\ link'[j] = link[j]
    <3>1. results'[i] = [results[i] EXCEPT !.dataset = TRUE] /\ results[i] \in ResultType
      BY <1>3 DEF RunInv, RunTyped
    <3>2. results' \in [Index -> ResultType] /\ \A j \in Index \ {i} : results'[j] = results[j]
      BY <1>3, <3>1, ResultGrows DEF RunInv, RunTyped
    <3>3. ~results[i].written /\ ~results[i].traced
      BY <1>1, NothingIsResult DEF Doing
    <3> QED BY <1>3, <3>1, <3>2, <3>3, ResultGrows DEF RunInv, RunTyped
  <2>2. /\ worker' \in [Workers -> WorkerType] /\ worker'[w].at = "identify" /\ worker'[w].item = i
        /\ Busy(w)' /\ \A v \in Workers \ {w} : worker'[v] = worker[v]
    BY <1>3, Going
  <2>3. RunTyped' /\ Apart(w, i)
    BY <1>2, <1>3, <2>1, <2>2 DEF RunInv, RunTyped, Apart
  <2>4. Doing(i, "identify")'
    BY <1>1, <1>2, <1>3, <2>1 DEF Doing
  <2> QED BY <1>1, <2>2, <2>3, <2>4, OwnStep
<1>4. ASSUME NEW l \in {"none", "stored"}, link' = [link EXCEPT ![i] = l],
             EndRoot(i, root[i].identity, TRUE), Fail(w, NoResult, "failed")
      PROVE  RunInv'
  <2>1. LeftWith(w, i, NoResult)
    BY <1>4, Failing, NothingIsResult
  <2>2. root[i].identity \in SUBSET FullIdentity
    BY DEF RunInv, RunTyped, RootType
  <2>3. /\ root' \in [Index -> RootType] /\ root'[i].at = "ended" /\ root'[i].identity = root[i].identity
        /\ \A j \in Index \ {i} : root'[j] = root[j]
    BY <1>4, <2>2, EndsRoot
  <2>4. RunTyped' /\ Apart(w, i) /\ worker'[w].at = "claim"
    BY <1>2, <1>4, <2>1, <2>3 DEF LeftWith, RunInv, RunTyped, Apart
  <2>5. Finished(i)'
    BY <1>1, <1>2, <2>1, <2>3, NothingIsResult DEF LeftWith, Finished, Doing, RunInv, RunTyped
  <2> QED BY <1>1, <2>4, <2>5, OwnStep
<1> QED BY <1>3, <1>4 DEF linkItem

LEMMA IdentifyHolds ==
  ASSUME RunInv, NEW w \in Workers, NEW i \in Index, i = worker[w].item, Identify(w)
  PROVE  RunInv'
<1>1. Busy(w) /\ Doing(i, "identify")
  BY DEF Identify, Busy, RunInv, Claims
<1>2. UNCHANGED <<ended, clientStopped, next, link, runs, scores, run>>
  BY DEF Identify
<1>3. ASSUME root' = [root EXCEPT ![i].identity = FullIdentity], results' = [results EXCEPT ![i].traced = TRUE],
             GoOn(w, "task")
      PROVE  RunInv'
  <2>1. /\ root' \in [Index -> RootType] /\ root'[i].at = "open" /\ root'[i].identity = FullIdentity
        /\ \A j \in Index \ {i} : root'[j] = root[j]
    BY <1>1, <1>3 DEF RunInv, RunTyped, RootType, Doing
  <2>2. /\ results' \in [Index -> ResultType] /\ results'[i].traced /\ ~results'[i].written
        /\ results'[i].dataset = results[i].dataset /\ \A j \in Index \ {i} : results'[j] = results[j]
    <3>1. results'[i] = [results[i] EXCEPT !.traced = TRUE] /\ results[i] \in ResultType
      BY <1>3 DEF RunInv, RunTyped
    <3>2. results' \in [Index -> ResultType] /\ \A j \in Index \ {i} : results'[j] = results[j]
      BY <1>3, <3>1, ResultGrows DEF RunInv, RunTyped
    <3> QED BY <1>1, <3>1, <3>2, ResultGrows DEF Doing
  <2>3. /\ worker' \in [Workers -> WorkerType] /\ worker'[w].at = "task" /\ worker'[w].item = i
        /\ Busy(w)' /\ \A v \in Workers \ {w} : worker'[v] = worker[v]
    BY <1>3, Going
  <2>4. RunTyped' /\ Apart(w, i)
    BY <1>2, <2>1, <2>2, <2>3 DEF RunInv, RunTyped, Apart
  <2>5. Doing(i, "task")'
    BY <1>1, <1>2, <2>1, <2>2 DEF Doing
  <2> QED BY <1>1, <2>3, <2>4, <2>5, OwnStep
<1>4. ASSUME NEW held \in {FullIdentity, Shared}, EndRoot(i, withoutIdentity(held), TRUE),
             Fail(w, NoResult, "failed")
      PROVE  RunInv'
  <2>1. LeftWith(w, i, NoResult)
    BY <1>4, Failing, NothingIsResult
  <2>2. withoutIdentity(held) \in SUBSET FullIdentity /\ "id" \notin withoutIdentity(held)
    BY DEF withoutIdentity, FullIdentity, Shared
  <2>3. /\ root' \in [Index -> RootType] /\ root'[i].at = "ended" /\ "id" \notin root'[i].identity
        /\ \A j \in Index \ {i} : root'[j] = root[j]
    BY <1>4, <2>2, EndsRoot
  <2>4. RunTyped' /\ Apart(w, i) /\ worker'[w].at = "claim"
    BY <1>2, <1>4, <2>1, <2>3 DEF LeftWith, RunInv, RunTyped, Apart
  <2>5. Finished(i)'
    BY <1>1, <1>2, <2>1, <2>3, NothingIsResult DEF LeftWith, Finished, Doing
  <2> QED BY <1>1, <2>4, <2>5, OwnStep
<1> QED BY <1>3, <1>4 DEF Identify, StartFailed
LEMMA TaskHolds ==
  ASSUME RunInv, NEW w \in Workers, NEW i \in Index, i = worker[w].item, Task(w)
  PROVE  RunInv'
<1>1. Busy(w) /\ Doing(i, "task") /\ results[i] \in ResultType /\ root[i].identity = FullIdentity
  BY DEF Task, Busy, RunInv, Claims, RunTyped, Doing
<1>2. UNCHANGED <<ended, clientStopped, next, link, scores, run>> /\ runs' = [runs EXCEPT ![i] = @ + 1]
  BY DEF Task
<1>3. /\ runs' \in [Index -> Nat] /\ runs'[i] = 1 /\ \A j \in Index \ {i} : runs'[j] = runs[j]
  BY <1>1, <1>2 DEF RunInv, RunTyped, Doing
<1>4. ASSUME EndRoot(i, root[i].identity, TRUE) \/ EndRoot(i, root[i].identity, FALSE)
      PROVE  /\ root' \in [Index -> RootType] /\ Exported(i)'
             /\ \A j \in Index \ {i} : root'[j] = root[j]
  <2>1. FullIdentity \in SUBSET FullIdentity
    OBVIOUS
  <2> QED BY <1>1, <1>4, <2>1, EndsRoot DEF Exported
<1>5. CASE EndRoot(i, root[i].identity, TRUE) /\ Fail(w, results[i], "failed")
  <2>1. LeftWith(w, i, results[i])
    BY <1>1, <1>5, Failing
  <2>2. /\ root' \in [Index -> RootType] /\ Exported(i)' /\ \A j \in Index \ {i} : root'[j] = root[j]
    BY <1>4, <1>5
  <2>3. RunTyped' /\ Apart(w, i) /\ worker'[w].at = "claim"
    BY <1>2, <1>3, <2>1, <2>2 DEF LeftWith, RunInv, RunTyped, Apart
  <2>4. Finished(i)'
    BY <1>1, <1>2, <2>1, <2>2 DEF LeftWith, Finished, Doing
  <2> QED BY <1>1, <2>3, <2>4, OwnStep
<1>6. ASSUME EndRoot(i, root[i].identity, FALSE), results' = results,
             worker' = [worker EXCEPT ![w] = [@ EXCEPT !.at = "evaluate", !.evaluator = 1]]
      PROVE  RunInv'
  <2>1. /\ worker' \in [Workers -> WorkerType] /\ worker'[w].at = "evaluate" /\ worker'[w].item = i
        /\ \A v \in Workers \ {w} : worker'[v] = worker[v]
    BY <1>6 DEF RunInv, RunTyped, WorkerType
  <2>2. /\ root' \in [Index -> RootType] /\ Exported(i)' /\ \A j \in Index \ {i} : root'[j] = root[j]
    BY <1>4, <1>6
  <2>3. RunTyped' /\ Apart(w, i) /\ Busy(w)'
    BY <1>2, <1>3, <1>6, <2>1, <2>2 DEF RunInv, RunTyped, Apart, Busy
  <2>4. Doing(i, "evaluate")'
    BY <1>1, <1>2, <1>3, <1>6, <2>2 DEF Doing
  <2> QED BY <1>1, <2>1, <2>3, <2>4, OwnStep
<1> QED BY <1>5, <1>6 DEF Task

LEMMA Evaluates ==
  ASSUME NEW r \in ResultType, NEW wrong \in BOOLEAN
  PROVE  /\ [r EXCEPT !.evalErr = TRUE] \in ResultType
         /\ [r EXCEPT !.evalErr = TRUE].written = r.written /\ [r EXCEPT !.evalErr = TRUE].traced = r.traced
         /\ [r EXCEPT !.evalErr = TRUE].dataset = r.dataset
         /\ [r EXCEPT !.evals = @ + 1, !.evalErr = wrong] \in ResultType
         /\ [r EXCEPT !.evals = @ + 1, !.evalErr = wrong].written = r.written
         /\ [r EXCEPT !.evals = @ + 1, !.evalErr = wrong].traced = r.traced
         /\ [r EXCEPT !.evals = @ + 1, !.evalErr = wrong].dataset = r.dataset
<1>1. r.evals \in Nat
  BY DEF ResultType
<1>2. r.evals + 1 \in Nat
  BY <1>1
<1> QED BY <1>2 DEF ResultType

LEMMA EvaluateHolds ==
  ASSUME RunInv, NEW w \in Workers, NEW i \in Index, i = worker[w].item, Evaluate(w)
  PROVE  RunInv'
<1>1. Busy(w) /\ Doing(i, "evaluate") /\ results[i] \in ResultType /\ worker[w] \in WorkerType
  BY DEF Evaluate, Busy, RunInv, Claims, RunTyped
<1>2. /\ UNCHANGED <<ended, clientStopped, next, root, link, runs, run>>
      /\ worker' = [worker EXCEPT ![w].evaluator = @ + 1]
  BY DEF Evaluate
<1>3. /\ worker' \in [Workers -> WorkerType] /\ worker'[w].at = "evaluate" /\ worker'[w].item = i
      /\ \A v \in Workers \ {w} : worker'[v] = worker[v]
  <2>1. worker \in [Workers -> WorkerType] /\ worker[w].at = "evaluate"
    BY DEF Evaluate, RunInv, RunTyped
  <2> QED BY <1>1, <1>2, <2>1 DEF WorkerType
<1>4. PICK r \in ResultType : /\ results' = [results EXCEPT ![i] = r]
                              /\ r.written = results[i].written /\ r.traced = results[i].traced
                              /\ r.dataset = results[i].dataset
  <2>1. CASE results' = [results EXCEPT ![i].evalErr = TRUE]
    <3>1. results' = [results EXCEPT ![i] = [results[i] EXCEPT !.evalErr = TRUE]]
      BY <2>1 DEF RunInv, RunTyped
    <3> QED BY <1>1, <3>1, Evaluates
  <2>2. CASE results' = results
    BY <1>1, <2>2 DEF RunInv, RunTyped
  <2>3. ASSUME NEW taken \in BOOLEAN,
               results' = [results EXCEPT ![i].evals = @ + 1, ![i].evalErr = @ \/ ~taken]
        PROVE  \E r \in ResultType : /\ results' = [results EXCEPT ![i] = r]
                                     /\ r.written = results[i].written /\ r.traced = results[i].traced
                                     /\ r.dataset = results[i].dataset
    <3> DEFINE wrong == results[i].evalErr \/ ~taken
    <3>1. results' = [results EXCEPT ![i] = [results[i] EXCEPT !.evals = @ + 1, !.evalErr = wrong]]
      BY <2>3 DEF RunInv, RunTyped
    <3>2. wrong \in BOOLEAN
      OBVIOUS
    <3> HIDE DEF wrong
    <3> QED BY <1>1, <3>1, <3>2, Evaluates
  <2> QED BY <2>1, <2>2, <2>3 DEF Evaluate
<1>5. scores' \in [Index -> Nat] /\ \A j \in Index \ {i} : scores'[j] = scores[j]
  <2>1. scores' = scores \/ \E n \in {scores[i], scores[i] + 1} : scores' = [scores EXCEPT ![i] = n]
    BY DEF Evaluate, RunInv, RunTyped
  <2> QED BY <2>1 DEF RunInv, RunTyped
<1>6. /\ results' \in [Index -> ResultType] /\ results'[i] = r /\ \A j \in Index \ {i} : results'[j] = results[j]
  BY <1>4 DEF RunInv, RunTyped
<1>7. RunTyped' /\ Apart(w, i) /\ Busy(w)'
  BY <1>2, <1>3, <1>5, <1>6 DEF RunInv, RunTyped, Apart, Busy
<1>8. Doing(i, "evaluate")'
  BY <1>1, <1>2, <1>4, <1>6 DEF Doing, Exported
<1> QED BY <1>1, <1>3, <1>7, <1>8, OwnStep

LEMMA FinishHolds ==
  ASSUME RunInv, NEW w \in Workers, NEW i \in Index, i = worker[w].item, Finish(w)
  PROVE  RunInv'
<1>1. Busy(w) /\ Doing(i, "evaluate") /\ results[i] \in ResultType
  BY DEF Finish, Busy, RunInv, Claims, RunTyped
<1>2. /\ UNCHANGED <<ended, clientStopped, next, root, link, runs, scores, run>>
      /\ WriteResult(i, results[i]) /\ GoOn(w, "claim")
  BY DEF Finish
<1>3. /\ worker' \in [Workers -> WorkerType] /\ worker'[w].at = "claim" /\ worker'[w].item = i
      /\ \A v \in Workers \ {w} : worker'[v] = worker[v]
  BY <1>2 DEF GoOn, RunInv, RunTyped, WorkerType
<1>4. /\ results' \in [Index -> ResultType] /\ \A j \in Index \ {i} : results'[j] = results[j]
      /\ results'[i].written /\ results'[i].traced = results[i].traced /\ results'[i].dataset = results[i].dataset
  BY <1>1, <1>2 DEF WriteResult, RunInv, RunTyped, ResultType
<1>5. RunTyped' /\ Apart(w, i)
  BY <1>2, <1>3, <1>4 DEF RunInv, RunTyped, Apart
<1>6. Finished(i)'
  BY <1>1, <1>2, <1>4 DEF Doing, Finished, Exported
<1> QED BY <1>1, <1>3, <1>5, <1>6, OwnStep

-----------------------------------------------------------------------------
(* The caller. *)

LEMMA CallerHolds == ASSUME RunInv, CallerSteps PROVE RunInv'
<1>1. UNCHANGED <<ended, clientStopped, next, worker, results, root, link, runs, scores>> /\ run \in RunType
  BY DEF CallerSteps, Collect, CheckCanceled, RunEvaluate, RunScore, Flush, RunInv, RunTyped
<1>2. Claims'
  BY <1>1 DEF RunInv, Claims, Busy, Untouched, Finished, Doing, Exported
<1>3. \A w \in Workers : worker[w].at = "gone"
  BY DEF CallerSteps, Collect, CheckCanceled, RunEvaluate, RunScore, Flush, RunInv, Caller, Past
<1>4. CASE Collect
  <2>0. PICK d \in FirstLinked : run' = [run EXCEPT !.at = "canceled?", !.dataset = d]
    BY <1>4 DEF Collect
  <2>1. d = 0 \/ (d \in Index /\ link[d] = "stored")
    <3>1. CASE d \in LinkedResults
      <4>1. 1 \in Workers
        BY <3>1, SizesAssumption DEF Workers, LinkedResults, Index
      <4>2. next >= Items /\ \A w \in Workers : ~Busy(w)
        BY <1>3, <4>1 DEF RunInv, Claims, Busy
      <4>3. d \in Index /\ d <= next
        BY <3>1, <4>2, SizesAssumption DEF LinkedResults, RunInv, RunTyped, Index
      <4>4. Finished(d)
        BY <4>2, <4>3 DEF RunInv, Claims
      <4> QED BY <3>1, <4>3, <4>4 DEF LinkedResults, Finished
    <3>2. CASE LinkedResults = {}
      BY <3>2 DEF FirstLinked
    <3> QED BY <3>1, <3>2 DEF FirstLinked
  <2>2. run'.dataset # 0 => run'.dataset \in Index /\ link[run'.dataset] = "stored"
    BY <1>1, <2>0, <2>1 DEF RunType
  <2>3. run' \in RunType /\ run'.at \in Past /\ run'.scored = run.scored
    <3>1. d \in 0..Items
      BY <2>1, SizesAssumption DEF Index
    <3> QED BY <1>1, <2>0, <3>1 DEF RunType, Past
  <2>4. run.dataset = 0 /\ run.scored = 0
    <3>1. run.at \notin Past /\ run.scored \in Nat
      BY <1>1, <1>4 DEF Collect, RunType, Past
    <3> QED BY <3>1 DEF RunInv, Caller
  <2> QED BY <1>1, <1>2, <1>3, <2>2, <2>3, <2>4 DEF RunInv, RunTyped, Caller
<1>5. CASE CheckCanceled \/ RunEvaluate \/ RunScore \/ Flush
  <2>1. /\ run' \in RunType /\ run'.at \in Past /\ run'.dataset = run.dataset
        /\ run'.scored = run.scored \/ (run.dataset = 0 => run'.scored = 0)
    <3>1. ASSUME NEW step \in Past, NEW returns \in {"canceled", "flush failed", "ok"},
                 run' = [run EXCEPT !.at = step] \/ run' = [run EXCEPT !.at = step, !.returns = returns]
          PROVE  /\ run' \in RunType /\ run'.at \in Past /\ run'.dataset = run.dataset
                 /\ run'.scored = run.scored
      BY <1>1, <3>1 DEF RunType
    <3>2. CASE CheckCanceled
      <4>1. \E step \in Past : run' = [run EXCEPT !.at = step] \/ run' = [run EXCEPT !.at = step, !.returns = "canceled"]
        BY <3>2 DEF CheckCanceled, ReturnRun, Past
      <4> QED BY <3>1, <4>1
    <3>3. CASE RunEvaluate
      <4>1. PICK made \in {0, 1} :
              run' = [run EXCEPT !.at = "canceled?", !.evaluator = @ + 1, !.evals = @ + made]
        BY <3>3 DEF RunEvaluate
      <4>2. run.evaluator \in Nat /\ run.evals \in Nat
        BY <1>1 DEF RunType
      <4>3. run.evaluator + 1 \in Nat /\ run.evals + made \in Nat
        BY <4>2
      <4> QED BY <1>1, <4>1, <4>3 DEF RunType, Past
    <3>4. CASE RunScore
      <4>1. PICK taken \in IF run.dataset = 0 \/ clientStopped THEN {0} ELSE 0..run.evals :
              run' = [run EXCEPT !.at = "flush", !.scored = taken]
        BY <3>4 DEF RunScore
      <4>2. taken \in Nat /\ (run.dataset = 0 => taken = 0)
        <5>1. run.evals \in Nat
          BY <1>1 DEF RunType
        <5>2. CASE run.dataset = 0 \/ clientStopped
          BY <5>2
        <5>3. CASE ~(run.dataset = 0 \/ clientStopped)
          BY <5>1, <5>3
        <5> QED BY <5>2, <5>3
      <4> QED BY <1>1, <4>1, <4>2 DEF RunType, Past
    <3>5. CASE Flush
      BY <3>1, <3>5 DEF Flush, ReturnRun, Past
    <3> QED BY <1>5, <3>2, <3>3, <3>4, <3>5
  <2>2. run.at \in Past
    BY <1>5 DEF CheckCanceled, RunEvaluate, RunScore, Flush, Past
  <2>3. Caller'
    BY <1>1, <1>3, <2>1, <2>2 DEF RunInv, Caller
  <2> QED BY <1>1, <1>2, <2>1, <2>3 DEF RunInv, RunTyped
<1> QED BY <1>4, <1>5 DEF CallerSteps
LEMMA NextHolds == ASSUME RunInv, [RunNext]_runVars PROVE RunInv'
<1>1. CASE UNCHANGED runVars \/ RunContextEnds \/ ClientStops
  <2>1. UNCHANGED <<next, worker, results, root, link, runs, scores, run>> /\ ended' \in BOOLEAN /\ clientStopped' \in BOOLEAN
    BY <1>1 DEF runVars, RunContextEnds, ClientStops, RunInv, RunTyped
  <2>2. RunTyped'
    BY <2>1 DEF RunInv, RunTyped
  <2>3. Claims'
    BY <2>1 DEF RunInv, Claims, Busy, Untouched, Finished, Doing, Exported
  <2>4. Caller'
    BY <2>1 DEF RunInv, Caller
  <2> QED BY <2>2, <2>3, <2>4 DEF RunInv
<1>3. CASE CallerSteps
  BY <1>3, CallerHolds
<1>2. ASSUME NEW w \in Workers, WorkerSteps(w)
      PROVE  RunInv'
  <2>1. CASE Claim(w)
    BY <2>1, ClaimHolds
  <2>2. CASE Check(w) \/ runExperimentItem(w)
    <3>1. Busy(w)
      BY <2>2 DEF Busy, Check, runExperimentItem, Prepare, StartRoot, linkItem, Identify, Task,
                  Evaluate, Finish
    <3>2. PICK i \in Index : i = worker[w].item
      BY <3>1 DEF RunInv, Claims
    <3> QED BY <2>2, <3>2, CheckHolds, PrepareHolds, StartRootHolds, LinkHolds, IdentifyHolds, TaskHolds,
               EvaluateHolds, FinishHolds DEF runExperimentItem
  <2> QED BY <1>2, <2>1, <2>2 DEF WorkerSteps
<1> QED BY <1>1, <1>2, <1>3 DEF RunNext

(* The invariant holds on every behaviour.                                 *)
THEOREM RunsHold == RunSpec => []RunInv
BY RunInitHolds, NextHolds, PTL DEF RunSpec

(* No item is run by two workers, and once the workers are gone every item *)
(* was run or its error says why not: the claim counter and the workers of *)
(* RunExperiment, for any number of items and workers.                     *)
THEOREM EveryItemOnce == RunSpec => []EachItemOnce
<1>1. ASSUME RunInv
      PROVE  EachItemOnce
  <2>1. ASSUME run.at \in Past, NEW i \in Index
        PROVE  Finished(i)
    <3>1. 1 \in Workers
      BY SizesAssumption DEF Workers, Index
    <3>2. next >= Items /\ \A w \in Workers : ~Busy(w)
      BY <1>1, <2>1, <3>1 DEF RunInv, Claims, Caller, Busy
    <3>3. i <= next
      BY <1>1, <3>2, SizesAssumption DEF RunInv, RunTyped, Index
    <3> QED BY <1>1, <3>2, <3>3 DEF RunInv, Claims
  <2> QED BY <1>1, <2>1 DEF EachItemOnce, RunInv, Claims, Finished
<1> QED BY <1>1, RunsHold, PTL

(* A result names the dataset run and the trace only if the server and the *)
(* exporter have them, and a root that failed to start carries no identity *)
(* of an item: the failure paths of runExperimentItem.                     *)
THEOREM ResultsHold == RunSpec => []ResultsAreTrue
<1>1. ASSUME RunInv
      PROVE  ResultsAreTrue
  <2>1. ASSUME NEW i \in Index
        PROVE  Untouched(i) \/ Finished(i) \/ \E step : Doing(i, step)
    BY <1>1, SizesAssumption DEF RunInv, RunTyped, Claims, Index
  <2>2. ASSUME NEW i \in Index
        PROVE  /\ results[i].written => Finished(i)
               /\ scores[i] > 0 => results[i].traced /\ Exported(i)
    <3>1. CASE Untouched(i)
      BY <3>1, NothingIsResult DEF Untouched
    <3>2. CASE Finished(i)
      BY <3>2 DEF Finished
    <3>3. ASSUME NEW step, Doing(i, step)
          PROVE  /\ results[i].written => Finished(i)
                 /\ scores[i] > 0 => results[i].traced /\ Exported(i)
      BY <3>3 DEF Doing
    <3> QED BY <2>1, <3>1, <3>2, <3>3
  <2>3. run.scored > 0 => link[run.dataset] = "stored"
    BY <1>1 DEF RunInv, Caller
  <2>4. ResultsNameWhatExists
    BY <2>2, <2>3 DEF ResultsNameWhatExists, Finished, Exported
  <2>5. FailedStartsAreNoItems
    BY <2>2 DEF FailedStartsAreNoItems, Finished
  <2> QED BY <2>4, <2>5 DEF ResultsAreTrue
<1> QED BY <1>1, RunsHold, PTL
================================================================================
