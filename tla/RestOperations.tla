---------------------------- MODULE RestOperations ----------------------------
(***************************************************************************)
(* The operations of the public REST API, one definition per public method *)
(* and one per request it makes.                                           *)
(*                                                                         *)
(* A request is what the transport builds: whether it is a write, whether  *)
(* its 2xx answer is decoded, and the faults for which the decoded answer  *)
(* is refused.  A fault is a field of the answer with what is wrong with   *)
(* it: absent or malformed, or different from what the caller asked for.   *)
(*                                                                         *)
(* A method is a request with what surrounds it: the defects of the        *)
(* arguments that fail before anything is sent, the values a strict Mask   *)
(* sees before that, the error a 404 becomes, and how its pages go on.     *)
(***************************************************************************)
EXTENDS Naturals, FiniteSets, Sequences

Absent(fields)  == fields \X {"absent"}
Differs(fields) == fields \X {"differs"}

\* Requests.  A write is decoded unless its method says otherwise.
WriteCall(refuses) == [write |-> TRUE, decodes |-> TRUE, refuses |-> refuses]
ReadCall(refuses)  == [write |-> FALSE, decodes |-> TRUE, refuses |-> refuses]
\* A page must carry its data and metadata, the metadata of a numbered listing
\* its page count, and only valid entries.
PageCall(entry)    == ReadCall(Absent({"data", "meta"}) \cup entry)
NumberedMeta       == Absent({"totalPages"})

-----------------------------------------------------------------------------
(* What the decoders require of an answer. *)

Dataset     == Absent({"id", "name", "createdAt", "updatedAt"})
DatasetItem == Absent({"id", "datasetId", "datasetName", "status", "createdAt", "updatedAt"})
ScoreConfig == Absent({"id", "name", "isArchived", "dataType", "categories", "bounds", "createdAt", "updatedAt"})
\* The fields a score config write set, which the answer must report.
ConfigChange == Differs({"name", "dataType", "isArchived", "description", "categories", "minValue", "maxValue"})
AnnotationQueue == Absent({"id", "name", "scoreConfigIds", "createdAt", "updatedAt"})
AnnotationQueueItem ==
  Absent({"objectType", "id", "objectId", "status", "createdAt", "updatedAt"}) \cup Differs({"queueId"})
Comment == Absent({"objectType", "id", "objectId", "content", "createdAt", "updatedAt"})
\* A score's core and subject; score reads also require the optional groups.
ScoreRecord == Absent({"id", "name", "value", "dataType", "source", "environment", "timestamp",
                       "createdAt", "updatedAt", "subject", "subjectKind", "metadata"})
ScoreRecordFull == ScoreRecord \cup Absent({"comment", "configId", "authorUserId", "queueId"})
ExperimentRecord == Absent({"id", "name", "startTime", "itemCount"}) \cup ScoreRecord
ExperimentItemRecord ==
  Absent({"id", "traceId", "experimentId", "experimentItemId", "startTime"}) \cup ScoreRecord
Succeeded == Absent({"success"})

-----------------------------------------------------------------------------
(* The requests. *)

SendUpsertDataset == WriteCall(Dataset \cup Differs({"name"}))
SendGetDataset    == ReadCall(Dataset \cup Differs({"name"}))
SendUpsertItem    == WriteCall(DatasetItem \cup Differs({"datasetName", "id"}))
SendGetItem       == ReadCall(DatasetItem \cup Differs({"id"}))
\* The only write whose 2xx answer is taken as it is.
SendDeleteItem    == [WriteCall({}) EXCEPT !.decodes = FALSE]
SendListItems     == PageCall(DatasetItem \cup NumberedMeta)
SendListDatasets  == PageCall(Dataset \cup NumberedMeta)
SendCreateRunItem == WriteCall(Absent({"datasetRunId"})
                               \cup Differs({"datasetRunName", "datasetItemId", "traceId", "observationId"}))
SendCreateScoreConfig == WriteCall(ScoreConfig \cup ConfigChange)
SendGetScoreConfig    == ReadCall(ScoreConfig \cup Differs({"id"}))
SendUpdateScoreConfig == WriteCall(ScoreConfig \cup ConfigChange \cup Differs({"id"}))
SendListScoreConfigs  == PageCall(ScoreConfig \cup NumberedMeta)
SendCreateAnnotationQueue ==
  WriteCall(AnnotationQueue \cup Differs({"name", "description", "scoreConfigIds"}))
SendGetAnnotationQueue    == ReadCall(AnnotationQueue \cup Differs({"id"}))
SendListAnnotationQueues  == PageCall(AnnotationQueue \cup NumberedMeta)
SendCreateAnnotationQueueItem ==
  WriteCall(AnnotationQueueItem \cup Differs({"objectId", "objectType", "status"}))
SendGetAnnotationQueueItem    == ReadCall(AnnotationQueueItem \cup Differs({"id"}))
SendUpdateAnnotationQueueItem == WriteCall(AnnotationQueueItem \cup Differs({"id", "status"}))
SendDeleteAnnotationQueueItem == WriteCall(Succeeded)
SendListAnnotationQueueItems  == PageCall(AnnotationQueueItem \cup Differs({"status"}) \cup NumberedMeta)
SendAssignAnnotationQueue(assign) ==
  WriteCall(IF assign THEN Differs({"queueId", "userId"}) ELSE Succeeded)
SendCreateScore     == WriteCall(Differs({"id"}))
SendListScores      == PageCall(ScoreRecordFull)
SendCreateComment   == WriteCall(Absent({"id"}))
SendGetComment      == ReadCall(Comment \cup Differs({"id"}))
SendListComments    == PageCall(Comment \cup NumberedMeta)
SendListExperiments     == PageCall(ExperimentRecord)
SendListExperimentItems == PageCall(ExperimentItemRecord)

-----------------------------------------------------------------------------
(* The methods.  missing is the error a 404 becomes, "" when it keeps its   *)
(* status; checks are the defects found first, body those found when the    *)
(* body is serialized, once the Mask has seen its values.                   *)

Single(request, missing, checks) ==
  [send |-> request, missing |-> missing, checks |-> checks, body |-> {},
   masks |-> 0, strict |-> FALSE, pages |-> "one"]
Numbered(request, missing, checks) == [Single(request, missing, checks) EXCEPT !.pages = "numbered"]
Cursors(request, checks) == [Single(request, "", checks) EXCEPT !.pages = "cursor"]
\* A method that serializes a body, whose defects are then found.
Body(method, defects) == [method EXCEPT !.body = defects]
\* A method that masks up to n values, failing on one it would have to omit.
Masked(method, n) == [method EXCEPT !.masks = n, !.strict = TRUE]

\* The defects maskedDatasetContent finds in what the Mask returned: it
\* panicked, removed the value, or left one that cannot be stored.
maskedDatasetContent == {"panicked", "removed", "invalidRaw", "unserializable", "oversized", "null"}

\* The defects marshalBody finds in the finished body.
marshalBody == {"invalidUTF8", "unserializable", "oversized"}

\* setListFilters: a filter value that Langfuse would split, trim or drop.
setListFilters == {"blankFilter", "commaFilter", "paddedFilter"}
restPageSize == {"pageSize"}
requireQueueItem == {"queueId", "itemId"}
requireIDs == {"configId", "configIdUTF8"}

UpsertDataset  == Masked(Body(Single(SendUpsertDataset, "", {"name"}), marshalBody), 1)
GetDataset     == Single(SendGetDataset, "ErrDatasetNotFound", {"name"})
UpsertDatasetItem == 
  Masked(Body(Single(SendUpsertItem, "ErrDatasetNotFound", {"name"}), marshalBody), 3)
GetDatasetItem == Single(SendGetItem, "ErrDatasetItemNotFound", {"id"})
DeleteDatasetItem == Single(SendDeleteItem, "ErrDatasetItemNotFound", {"id"})
DatasetItems   == Numbered(SendListItems, "ErrDatasetNotFound", {"name"})
Datasets       == Numbered(SendListDatasets, "", {})

\* annotation queues
CreateAnnotationQueue ==
  Body(Single(SendCreateAnnotationQueue, "", {"name", "description", "noConfigs"} \cup requireIDs), marshalBody)
GetAnnotationQueue == Single(SendGetAnnotationQueue, "ErrAnnotationQueueNotFound", {"queueId"})
AnnotationQueues   == Numbered(SendListAnnotationQueues, "", restPageSize)
CreateAnnotationQueueItem ==
  Body(Single(SendCreateAnnotationQueueItem, "ErrAnnotationQueueNotFound",
              {"queueId", "objectId", "objectType", "status"}), marshalBody)
GetAnnotationQueueItem ==
  Single(SendGetAnnotationQueueItem, "ErrAnnotationQueueItemNotFound", requireQueueItem)
UpdateAnnotationQueueItem ==
  Body(Single(SendUpdateAnnotationQueueItem, "ErrAnnotationQueueItemNotFound",
              requireQueueItem \cup {"status"}), marshalBody)
DeleteAnnotationQueueItem ==
  Single(SendDeleteAnnotationQueueItem, "ErrAnnotationQueueItemNotFound", requireQueueItem)
AnnotationQueueItems ==
  Numbered(SendListAnnotationQueueItems, "ErrAnnotationQueueNotFound", restPageSize \cup {"queueId", "status"})
annotationQueueAssignment(assign) ==
  Body(Single(SendAssignAnnotationQueue(assign), "", {"queueId", "userId"}), marshalBody)

\* score configs, scores, comments, experiments
CreateScoreConfig == Body(Single(SendCreateScoreConfig, "", {"spec"}), marshalBody)
GetScoreConfig    == Single(SendGetScoreConfig, "ErrScoreConfigNotFound", {"id"})
UpdateScoreConfig == Body(Single(SendUpdateScoreConfig, "ErrScoreConfigNotFound", {"id", "update"}), marshalBody)
ScoreConfigs      == Numbered(SendListScoreConfigs, "", restPageSize)
\* The metadata of a score is masked too, but a value the Mask spoils is left out.
CreateScore       == [Body(Single(SendCreateScore, "", {"score", "timestamp", "source", "noConfig"}),
                           {"unserializable", "oversized"}) EXCEPT !.masks = 1]
scoreReadQuery    == restPageSize \cup setListFilters
                     \cup {"targets", "observationIds", "sources", "dataTypes", "values", "bounds", "times"}
Scores            == Cursors(SendListScores, scoreReadQuery)
CreateComment     == Body(Single(SendCreateComment, "ErrCommentObjectNotFound",
                                 {"objectType", "objectId", "startTime", "content"}), marshalBody)
GetComment        == Single(SendGetComment, "ErrCommentNotFound", {"id"})
Comments          == Numbered(SendListComments, "", restPageSize \cup {"objectType", "objectWithoutType"})
experimentReadQuery == {"from", "pageSize"} \cup setListFilters
Experiments       == Cursors(SendListExperiments, experimentReadQuery)
ExperimentItems   == Cursors(SendListExperimentItems, experimentReadQuery)

\* The runner's link of an item to its dataset run: the body comes first.
linkDatasetRunItem == Single(SendCreateRunItem, "ErrDatasetItemNotFound", marshalBody)

\* Every method by its name.
Method == [
  UpsertDataset |-> UpsertDataset, GetDataset |-> GetDataset, UpsertDatasetItem |-> UpsertDatasetItem,
  GetDatasetItem |-> GetDatasetItem, DeleteDatasetItem |-> DeleteDatasetItem,
  DatasetItems |-> DatasetItems, Datasets |-> Datasets,
  CreateAnnotationQueue |-> CreateAnnotationQueue, GetAnnotationQueue |-> GetAnnotationQueue,
  AnnotationQueues |-> AnnotationQueues, CreateAnnotationQueueItem |-> CreateAnnotationQueueItem,
  GetAnnotationQueueItem |-> GetAnnotationQueueItem, UpdateAnnotationQueueItem |-> UpdateAnnotationQueueItem,
  DeleteAnnotationQueueItem |-> DeleteAnnotationQueueItem, AnnotationQueueItems |-> AnnotationQueueItems,
  AssignAnnotationQueue |-> annotationQueueAssignment(TRUE),
  UnassignAnnotationQueue |-> annotationQueueAssignment(FALSE),
  CreateScoreConfig |-> CreateScoreConfig, GetScoreConfig |-> GetScoreConfig,
  UpdateScoreConfig |-> UpdateScoreConfig, ScoreConfigs |-> ScoreConfigs, CreateScore |-> CreateScore,
  Scores |-> Scores, CreateComment |-> CreateComment, GetComment |-> GetComment, Comments |-> Comments,
  Experiments |-> Experiments, ExperimentItems |-> ExperimentItems,
  linkDatasetRunItem |-> linkDatasetRunItem]
Methods == DOMAIN Method
=============================================================================
