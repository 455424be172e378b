---------------------------- MODULE ObservationHandle --------------------------
(***************************************************************************)
(* One recording observation shared by goroutines: Update, RecordError,    *)
(* End, and the trace attributes applied to it by WithTraceAttributes.     *)
(*                                                                         *)
(* Update and RecordError hold o.mu twice and give it up in between, to    *)
(* serialize values and to call Mask and Error, which are the              *)
(* application's and may call the handle again; each critical section is   *)
(* one step here.  An attribute is its key and its size in bytes: what a   *)
(* value serializes to does not matter to the accounts kept here.  The     *)
(* version stands for the attributes that trace state sets too.            *)
(***************************************************************************)
EXTENDS Integers, FiniteSets, Sequences

CONSTANTS
  Calls,              \* calls on the handle, one goroutine each
  Inputs,             \* values an Update or a start may carry
  Messages,           \* sizes of an error's status attribute
  MetaOrder,          \* metadata keys, in their lexical order
  LevelBytes, VersionBytes, MetaBytes,
  MaxBytes,           \* MaxObservationAttributeBytes
  MaxDataBytes,       \* MaxObservationDataAttributeBytes
  MaxMetadataEntries,
  MaxErrorEvents

MetaKeys == {MetaOrder[i] : i \in DOMAIN MetaOrder}
ErrorKeys == {"level", "status"}    \* with a reserve in the budget
Keys == ErrorKeys \cup {"version", "input"} \cup MetaKeys

InputType == [level : {"none", "DEFAULT", "ERROR"}, status : Nat, version : BOOLEAN,
              input : Nat, metadata : SUBSET MetaKeys]

ASSUME InputsAssumption ==
  /\ Inputs \subseteq InputType
  /\ (ErrorKeys \cup {"version", "input"}) \cap MetaKeys = {}
  /\ MetaOrder \in Seq(MetaKeys)
  /\ \A i, j \in DOMAIN MetaOrder : MetaOrder[i] = MetaOrder[j] => i = j
ASSUME LimitsAssumption ==
  /\ {LevelBytes, VersionBytes, MetaBytes} \subseteq Nat \ {0} /\ Messages \subseteq Nat \ {0}
  /\ MaxMetadataEntries \in Nat /\ MaxErrorEvents \in Nat /\ {MaxDataBytes, MaxBytes} \subseteq Nat
  (* The budget's reserve holds any level with any status message.         *)
  /\ \A n \in Messages \cup {v.status : v \in Inputs} : MaxDataBytes + LevelBytes + n <= MaxBytes

VARIABLES
  stopped,       \* the client's stopped flag
  ended,         \* o.ended
  metadataKeys,  \* o.metadataKeys
  sizes, bytes,  \* o.attributeSizes and o.attributeBytes
  explicit,      \* o.explicit
  errorEvents,   \* o.errorEvents: slots reserved
  span,          \* [attr, level, failed, events, open]: the OpenTelemetry span
  call           \* [Calls -> [at, attrs, existing, error]]

handleVars == <<ended, metadataKeys, sizes, bytes, explicit, errorEvents>>
vars == <<stopped, handleVars, span, call>>

IdleCall == [at |-> "idle", input |-> <<>>, attrs |-> <<>>, existing |-> {}, error |-> 0]
Went(c, r) == call' = [call EXCEPT ![c] = r]
Done(c) == Went(c, [IdleCall EXCEPT !.at = "done"])

-----------------------------------------------------------------------------
(* From values to attributes                                               *)

Attr(k, n) == [key |-> k, size |-> n]
AttrIf(present, k, n) == IF present THEN <<Attr(k, n)>> ELSE <<>>

Taking(S, keys, k) == IF k \in S THEN Append(keys, k) ELSE keys

InOrder(S) ==
  LET upTo[i \in 0..Len(MetaOrder)] == IF i = 0 THEN <<>> ELSE Taking(S, upTo[i - 1], MetaOrder[i])
  IN upTo[Len(MetaOrder)]

(* Keys the observation has already come first, then as many new ones as   *)
(* the lifetime limit leaves.                                              *)
boundedMetadataKeys(wanted, existing) ==
  LET new == InOrder(wanted \ existing)
      room == MaxMetadataEntries - Cardinality(existing)
  IN InOrder(wanted \cap existing)
     \o SubSeq(new, 1, IF Len(new) < room THEN Len(new) ELSE room)

buildObservationAttributes(v, existing) ==
  AttrIf(v.level # "none", "level", LevelBytes)
  \o AttrIf(v.status > 0, "status", v.status)
  \o AttrIf(v.version, "version", VersionBytes)
  \o AttrIf(v.input > 0, "input", v.input)
  \o LET ks == boundedMetadataKeys(v.metadata, existing)
     IN [i \in DOMAIN ks |-> Attr(ks[i], MetaBytes)]

(* The running account of fitObservationAttributeBudget.  Data must leave  *)
(* room for a level and a status message.                                  *)
Account(sz, used) == [sizes |-> sz, used |-> used, kept |-> <<>>]

Fits(next, reserved) == next <= MaxBytes /\ next - reserved <= MaxDataBytes

fitOne(acc, a) ==
  LET previous == acc.sizes[a.key]
      next == acc.used - previous + a.size
      held == acc.sizes["level"] + acc.sizes["status"]
      reserved == IF a.key \in ErrorKeys THEN held - previous + a.size ELSE held
  IN IF Fits(next, reserved)
       THEN [sizes |-> [acc.sizes EXCEPT ![a.key] = a.size], used |-> next,
             kept |-> Append(acc.kept, a)]
       ELSE acc

fitObservationAttributeBudget(attrs, sz, used) ==
  LET after[i \in 0..Len(attrs)] ==
        IF i = 0 THEN Account(sz, used) ELSE fitOne(after[i - 1], attrs[i])
  IN after[Len(attrs)]

KeysOf(attrs) == {attrs[i].key : i \in DOMAIN attrs}

(* A metadata key the handle does not hold yet passes while there is room; *)
(* the limit counts those the same Update has let through.                 *)
Passing(kept, a) ==
  LET held == metadataKeys \cup (KeysOf(kept) \cap MetaKeys)
  IN IF a.key \in MetaKeys \ held /\ Cardinality(held) >= MaxMetadataEntries
       THEN kept ELSE Append(kept, a)

WithinMetadata(attrs) ==
  LET passed[i \in 0..Len(attrs)] == IF i = 0 THEN <<>> ELSE Passing(passed[i - 1], attrs[i])
  IN passed[Len(attrs)]

(* The span keeps the last value it is given for a key.                    *)
LastOf(kept, k) ==
  kept[CHOOSE i \in DOMAIN kept : kept[i].key = k /\ \A j \in DOMAIN kept : kept[j].key = k => j <= i]

SetAttributes(attr, kept, who) ==
  [k \in Keys |-> IF k \in KeysOf(kept) THEN [by |-> who, size |-> LastOf(kept, k).size]
                                       ELSE attr[k]]

(* Mutant: a key is recorded though the byte budget then omitted it.       *)
MutRecorded(attrs, kept) == (KeysOf(attrs) \cup KeysOf(kept)) \cap MetaKeys

Recorded(attrs, kept) == KeysOf(kept) \cap MetaKeys

acceptedExplicitAttributes(kept) == KeysOf(kept) \cap {"version"}

-----------------------------------------------------------------------------
(* StartObservation; the processor fills a version from the trace state    *)
(* where there is none.                                                    *)
NoAttributes == [k \in Keys |-> [by |-> "none", size |-> 0]]

Init ==
  \E v \in Inputs, traced \in BOOLEAN :
    LET fit == fitObservationAttributeBudget(buildObservationAttributes(v, {}), [k \in Keys |-> 0], 0)
        attr == SetAttributes(NoAttributes, fit.kept, "own")
    IN
    /\ stopped = FALSE /\ ended = FALSE /\ errorEvents = 0
    /\ sizes = fit.sizes /\ bytes = fit.used
    /\ metadataKeys = KeysOf(fit.kept) \cap MetaKeys
    /\ explicit = acceptedExplicitAttributes(fit.kept)
    /\ span = [attr |-> IF traced /\ attr["version"].by = "none"
                          THEN [attr EXCEPT !["version"] = [by |-> "trace", size |-> VersionBytes]]
                          ELSE attr,
               level |-> IF "level" \in KeysOf(fit.kept) THEN v.level ELSE "none",
               failed |-> v.level = "ERROR", events |-> 0, open |-> TRUE]
    /\ call = [c \in Calls |-> IdleCall]

Shutdown == ~stopped /\ stopped' = TRUE /\ UNCHANGED <<handleVars, span, call>>

-----------------------------------------------------------------------------
(* Update                                                                  *)

UpdateBegin(c) ==
  /\ call[c].at = "idle"
  /\ IF stopped \/ ended THEN Done(c)
     ELSE \E v \in Inputs :
            Went(c, [IdleCall EXCEPT !.at = "build", !.input = <<v>>, !.existing = metadataKeys])
  /\ UNCHANGED <<stopped, handleVars, span>>

UpdateBuild(c) ==   \* without the lock: serialization and Mask
  /\ call[c].at = "build"
  /\ IF stopped THEN Done(c)
     ELSE Went(c, [call[c] EXCEPT !.at = "apply", !.existing = {},
             !.attrs = buildObservationAttributes(call[c].input[1], call[c].existing)])
  /\ UNCHANGED <<stopped, handleVars, span>>

(* Mutant: the end is not checked again.                                   *)
MutEndedMeanwhile(c) == ended /\ call[c].at = "build"

EndedMeanwhile(c) == ended

UpdateApply(c) ==
  LET v == call[c].input[1]
      fit == fitObservationAttributeBudget(WithinMetadata(call[c].attrs), sizes, bytes)
  IN
  /\ call[c].at = "apply"
  /\ IF EndedMeanwhile(c) THEN UNCHANGED <<handleVars, span>>
     ELSE /\ sizes' = fit.sizes /\ bytes' = fit.used
          /\ metadataKeys' = metadataKeys \cup Recorded(call[c].attrs, fit.kept)
          /\ explicit' = explicit \cup acceptedExplicitAttributes(fit.kept)
          /\ span' = [span EXCEPT
               !.attr = SetAttributes(@, fit.kept, "own"),
               !.level = IF "level" \in KeysOf(fit.kept) THEN v.level ELSE @,
               !.failed = @ \/ v.level = "ERROR"]
          /\ UNCHANGED <<ended, errorEvents>>
  /\ Done(c)
  /\ UNCHANGED stopped

Update(c) == UpdateBegin(c) \/ UpdateBuild(c) \/ UpdateApply(c)

-----------------------------------------------------------------------------
(* RecordError                                                             *)

Reserved == errorEvents + 1

ErrorBegin(c) ==
  /\ call[c].at = "idle"
  /\ IF stopped \/ ended \/ errorEvents >= MaxErrorEvents
       THEN Done(c) /\ UNCHANGED errorEvents
       ELSE Went(c, [IdleCall EXCEPT !.at = "message"]) /\ errorEvents' = Reserved
  /\ UNCHANGED <<stopped, ended, metadataKeys, sizes, bytes, explicit, span>>

ErrorMessage(c) ==   \* without the lock: err.Error and Mask
  /\ call[c].at = "message"
  /\ IF stopped THEN Done(c)
     ELSE \E n \in Messages : Went(c, [call[c] EXCEPT !.at = "record", !.error = n])
  /\ UNCHANGED <<stopped, handleVars, span>>

ErrorRecord(c) ==
  LET attrs == <<Attr("level", LevelBytes), Attr("status", call[c].error)>>
      fit == fitObservationAttributeBudget(attrs, sizes, bytes)
  IN
  /\ call[c].at = "record"
  /\ IF ended THEN UNCHANGED <<sizes, bytes, span>>
     ELSE /\ sizes' = fit.sizes /\ bytes' = fit.used
          /\ span' = [span EXCEPT
               !.attr = SetAttributes(@, fit.kept, "own"),
               !.level = IF "level" \in KeysOf(fit.kept) THEN "ERROR" ELSE @,
               !.failed = TRUE, !.events = @ + 1]
  /\ Done(c)
  /\ UNCHANGED <<stopped, ended, metadataKeys, explicit, errorEvents>>

RecordError(c) == ErrorBegin(c) \/ ErrorMessage(c) \/ ErrorRecord(c)

-----------------------------------------------------------------------------
(* End, and trace attributes from WithTraceAttributes                      *)

EndMark(c) ==
  /\ call[c].at = "idle"
  /\ IF ended THEN Done(c) /\ UNCHANGED ended
     ELSE ended' = TRUE /\ Went(c, [IdleCall EXCEPT !.at = "end"])
  /\ UNCHANGED <<stopped, metadataKeys, sizes, bytes, explicit, errorEvents, span>>

EndSpan(c) ==   \* without the lock: the application's span processors run
  /\ call[c].at = "end"
  /\ span' = [span EXCEPT !.open = FALSE]
  /\ Done(c)
  /\ UNCHANGED <<stopped, handleVars>>

endOnce(c) == EndMark(c) \/ EndSpan(c)

(* Mutant: what the observation set itself is overwritten.                 *)
MutTraceMaySet(k) == k \in Keys

TraceMaySet(k) == k \notin explicit

(* WithTraceAttributes looks at stopped before, without the lock, so the   *)
(* client may have stopped since.                                          *)
applyTraceState(c) ==
  /\ call[c].at = "idle"
  /\ span' = IF ended \/ ~TraceMaySet("version") THEN span
             ELSE [span EXCEPT !.attr["version"] = [by |-> "trace", size |-> VersionBytes]]
  /\ Done(c)
  /\ UNCHANGED <<stopped, handleVars>>

-----------------------------------------------------------------------------
Next ==
  \/ Shutdown
  \/ \E c \in Calls : Update(c) \/ RecordError(c) \/ endOnce(c) \/ applyTraceState(c)

Spec == Init /\ [][Next]_vars

-----------------------------------------------------------------------------
(* Properties                                                              *)

AttrType == [key : Keys, size : Nat \ {0}]

(* Every variable keeps its type; at most MaxErrorEvents exception events  *)
(* reach the span, however many calls reserve at once.                     *)
TypeOK ==
  /\ stopped \in BOOLEAN /\ ended \in BOOLEAN
  /\ metadataKeys \subseteq MetaKeys /\ explicit \subseteq {"version"}
  /\ sizes \in [Keys -> Nat] /\ bytes \in Nat
  /\ errorEvents \in 0..MaxErrorEvents
  /\ span \in [attr : [Keys -> [by : {"none", "own", "trace"}, size : Nat]],
               level : {"none", "DEFAULT", "ERROR"}, failed : BOOLEAN,
               events : 0..MaxErrorEvents, open : BOOLEAN]
  /\ \A c \in Calls :
       /\ call[c].at \in {"idle", "build", "apply", "message", "record", "end", "done"}
       /\ call[c].existing \subseteq MetaKeys /\ call[c].error \in Messages \cup {0}
       /\ call[c].attrs \in Seq(AttrType)

MetadataTotal(sz) ==
  LET upTo[i \in 0..Len(MetaOrder)] == IF i = 0 THEN 0 ELSE upTo[i - 1] + sz[MetaOrder[i]]
  IN upTo[Len(MetaOrder)]

Total(sz) == sz["level"] + sz["status"] + sz["version"] + sz["input"] + MetadataTotal(sz)

(* The handle's books are the span's: the byte account is what the         *)
(* observation's attributes on the span add up to, the metadata keys are   *)
(* those the span has, and both stay within their limits although updates  *)
(* prepare their attributes from an older view of them.                    *)
AccountExact ==
  /\ TypeOK
  /\ bytes = Total(sizes)
  /\ \A k \in Keys : sizes[k] = IF span.attr[k].by = "own" THEN span.attr[k].size ELSE 0
  /\ metadataKeys = {k \in MetaKeys : span.attr[k].by = "own"}
  /\ Cardinality(metadataKeys) <= MaxMetadataEntries
  /\ bytes <= MaxBytes /\ bytes - sizes["level"] - sizes["status"] <= MaxDataBytes

(* What the observation set explicitly is not replaced by trace state,     *)
(* whichever comes first.                                                  *)
ExplicitWins == \A k \in explicit : span.attr[k].by = "own"

(* After the first End nothing changes what the span exports, although     *)
(* updates and errors may be in the middle of their callbacks.             *)
EndedIsFinal ==
  [][ended => UNCHANGED <<span.attr, span.level, span.failed, span.events>>]_vars
=============================================================================
