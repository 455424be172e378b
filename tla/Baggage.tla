------------------------------- MODULE Baggage -------------------------------
(***************************************************************************)
(* Trace attributes and W3C baggage on one context path of a client.       *)
(*                                                                         *)
(* An attribute is a scalar (user, session, environment, ...) or a         *)
(* metadata key.  It is set by a local call, or accepted from the baggage  *)
(* of a message; the langfuse members of the context's baggage are rebuilt *)
(* from the attributes on a path marked for propagation.  The path goes    *)
(* through several messages: a consumer's loop, a hop there and back.      *)
(*                                                                         *)
(* The masker is Remap, from the metadata keys it is given to those it     *)
(* returns.  A member is whole or absent; its size counts as one.          *)
(***************************************************************************)
EXTENDS Integers, Sequences, FiniteSets

CONSTANTS
  Scalars,      \* the scalar attributes, in wire order
  Keys,         \* the metadata keys, in their order
  Values,       \* the values
  OffWire,      \* the values outside of the wire's domain
  Remap,        \* what the masker makes of the keys
  Structured,   \* the keys the masker returns values for that are no strings
  Messages,     \* the messages: langfuse members, number of foreign ones, trace
  MaxTraces,    \* bound: traces of a behaviour
  MaxMessages,  \* bound: messages received
  MaxMembers,   \* maxBaggageMembers
  MaxMetadata   \* MaxMetadataEntries

ScalarSet == {Scalars[i] : i \in DOMAIN Scalars}
KeySet == {Keys[i] : i \in DOMAIN Keys}
Fields == ScalarSet \cup KeySet
None == "none"
Claim == "trace"

Unrepeated(s) == \A i, j \in DOMAIN s : s[i] = s[j] => i = j
ASSUME NamesAssumption ==
  /\ Scalars \in Seq(ScalarSet) /\ Unrepeated(Scalars) /\ Keys \in Seq(KeySet) /\ Unrepeated(Keys)
  /\ ScalarSet \cap KeySet = {} /\ Claim \notin Fields
  /\ Remap \in [KeySet -> KeySet] /\ None \notin Values
ASSUME MessagesAssumption ==
  \A m \in Messages : /\ m.members = [f \in DOMAIN m.members |-> m.members[f]]
                      /\ m.foreign \in Nat /\ m.trace \in Nat
ASSUME BoundsAssumption == MaxTraces \in Nat /\ MaxMembers \in Nat

VARIABLES
  path,         \* the context
  messages,     \* the number of messages received
  imported,     \* the namespace of the last import that had one (history)
  locals,       \* the value a local call last gave each attribute (history)
  synced        \* whether the client has written the baggage since it came (history)

baggageVars == <<path, messages, imported, locals, synced>>

-----------------------------------------------------------------------------
NoClaim == [id |-> 0, imported |-> FALSE]
Unset == [f \in Fields |-> None]
EmptyPath == [value |-> Unset, accepted |-> {}, wire |-> {}, claim |-> NoClaim, marked |-> FALSE,
              ambient |-> 0, members |-> <<>>, foreign |-> 0]

wireBaggageValue(v) == v # None /\ v \notin OffWire

\* Members in the order of their priority: the claim, the scalars, the keys.
Priority == <<Claim>> \o Scalars \o Keys
Before(m, n) == \E i, j \in DOMAIN Priority : i < j /\ Priority[i] = m /\ Priority[j] = n
TheFirst(n, S) == {m \in S : Cardinality({k \in S : Before(k, m)}) < n}

(* Rebuilding the baggage. *)

Carried(c, f) == wireBaggageValue(c.value[f]) /\ (f \in KeySet => f \in c.wire)
Candidates(c) ==
  {f \in Fields : Carried(c, f)} \cup (IF c.claim.id # 0 /\ c.claim.id = c.ambient THEN {Claim} ELSE {})

\* Foreign members come first; what does not fit is dropped with all behind it.
KeptForeign(c) == IF c.foreign < MaxMembers THEN c.foreign ELSE MaxMembers
wireBaggageMembers(c) ==
  IF ~c.marked THEN <<>>
  ELSE [m \in TheFirst(MaxMembers - KeptForeign(c), Candidates(c)) |-> IF m = Claim THEN c.claim.id ELSE c.value[m]]

\* Mutant: only a change of the members rewrites them.
MutSyncBaggage(c, force) ==
  IF (~c.marked /\ ~force) \/ Candidates(c) = {} THEN c
  ELSE [c EXCEPT !.foreign = KeptForeign(c), !.members = wireBaggageMembers(c)]
syncBaggage(c, force) ==
  IF ~c.marked /\ ~force THEN c
  ELSE [c EXCEPT !.foreign = KeptForeign(c), !.members = wireBaggageMembers(c)]

(* Local attributes. *)

Held(c) == {k \in KeySet : c.value[k] # None}
HasRoom(c, k) == c.value[k] # None \/ Cardinality(Held(c)) < MaxMetadata
Target(f) == IF f \in KeySet THEN Remap[f] ELSE f

\* merge of one attribute: metadata under the key the masker returns.
merge(c, f, v) ==
  [c EXCEPT !.value[Target(f)] = v, !.accepted = @ \ {Target(f)},
            !.wire = IF f \notin KeySet THEN @
                     ELSE IF Target(f) \in Structured THEN @ \ {Target(f)} ELSE @ \cup {Target(f)}]

(* Importing. *)

\* Mutant: an accepted value stays until the next message replaces it.
MutRetires(c, f, ns) == FALSE
\* A namespace retires the accepted scalars it does not confirm.
Retires(c, f, ns) == f \in c.accepted /\ ~(f \in DOMAIN ns /\ wireBaggageValue(ns[f]))
Replaceable(c, f) == c.value[f] = None \/ f \in c.accepted
Accepts(c, f, ns) == f \in DOMAIN ns /\ wireBaggageValue(ns[f]) /\ Replaceable(c, f)

ImportedScalar(c, f, ns) ==
  CASE Accepts(c, f, ns) -> ns[f]
    [] ~Accepts(c, f, ns) /\ Retires(c, f, ns) -> None
    [] OTHER -> c.value[f]

\* mergeImportedMetadata: the keys as the masker returns them, bounded by what
\* the local entries leave; accepted keys outside of them are retired.
LocalKeys(c) == Held(c) \ c.accepted
Masked(c, ns) == {Remap[k] : k \in {j \in KeySet : Accepts(c, j, ns)}}
Normalized(c, ns) ==
  (Masked(c, ns) \cap LocalKeys(c))
  \cup TheFirst(MaxMetadata - Cardinality(LocalKeys(c)), Masked(c, ns) \ LocalKeys(c))
Source(c, k, ns) == CHOOSE j \in KeySet : Accepts(c, j, ns) /\ Remap[j] = k
\* A key that lands on a local entry leaves it alone.
Installs(c, k, ns) == k \in Normalized(c, ns) /\ k \notin LocalKeys(c)
ImportedKey(c, k, ns) ==
  CASE Installs(c, k, ns) -> ns[Source(c, k, ns)]
    [] ~Installs(c, k, ns) /\ k \in c.accepted -> None
    [] OTHER -> c.value[k]

ImportedClaim(c, ns) ==
  LET matches == Claim \in DOMAIN ns /\ c.ambient # 0 /\ ns[Claim] = c.ambient
  IN CASE matches /\ (c.claim.id # c.ambient \/ c.claim.imported) -> [id |-> c.ambient, imported |-> TRUE]
       [] ~matches /\ c.claim.imported -> NoClaim
       [] OTHER -> c.claim

Imported(c) ==
  LET ns == c.members
      installed == {k \in KeySet : Installs(c, k, ns)}
      kept == {f \in ScalarSet : Accepts(c, f, ns)} \cup installed
  IN IF DOMAIN ns = {} THEN c
     ELSE [c EXCEPT !.value = [f \in Fields |-> IF f \in ScalarSet THEN ImportedScalar(c, f, ns) ELSE ImportedKey(c, f, ns)],
                    !.accepted = kept \cup {f \in @ \cap ScalarSet : ~Retires(c, f, ns)},
                    !.wire = ((@ \ c.accepted) \cup installed) \ (Structured \cap installed),
                    !.claim = ImportedClaim(c, ns)]

-----------------------------------------------------------------------------
BaggageInit == path = EmptyPath /\ messages = 0 /\ imported = <<>> /\ locals = Unset /\ synced = TRUE

\* The application gets a message on the path: its baggage and its span.
Receive(m) ==
  /\ messages < MaxMessages /\ messages' = messages + 1
  /\ path' = [path EXCEPT !.members = m.members, !.foreign = m.foreign, !.ambient = m.trace]
  /\ synced' = FALSE /\ UNCHANGED <<imported, locals>>

WithTraceAttributes(f, v) ==
  /\ f \in KeySet => HasRoom(path, Target(f))
  /\ path' = syncBaggage(merge(path, f, v), FALSE)
  /\ locals' = [locals EXCEPT ![Target(f)] = v]
  /\ synced' = (synced \/ path.marked) /\ UNCHANGED <<messages, imported>>

WithBaggagePropagation ==
  /\ path' = syncBaggage([path EXCEPT !.marked = TRUE], TRUE)
  /\ synced' = TRUE /\ UNCHANGED <<messages, imported, locals>>

WithTraceAttributesFromBaggage ==
  /\ path' = syncBaggage(Imported(path), TRUE)
  /\ imported' = IF DOMAIN path.members = {} THEN imported ELSE path.members
  /\ synced' = TRUE /\ UNCHANGED <<messages, locals>>

\* An observation starts, in the ambient trace or in one of its own; a sampled
\* one claims the root of its trace.
StartRoot(trace, sampled) ==
  /\ trace = path.ambient \/ path.ambient = 0
  /\ path' = syncBaggage([path EXCEPT !.ambient = trace,
                            !.claim = IF sampled THEN [id |-> trace, imported |-> FALSE] ELSE @], FALSE)
  /\ synced' = (synced \/ path.marked) /\ UNCHANGED <<messages, imported, locals>>

LeaveTrace == path.ambient # 0 /\ path' = [path EXCEPT !.ambient = 0] /\ synced' = FALSE
          /\ UNCHANGED <<messages, imported, locals>>

BaggageNext ==
  \/ \E m \in Messages : Receive(m)
  \/ \E f \in Fields, v \in Values : WithTraceAttributes(f, v)
  \/ WithBaggagePropagation \/ WithTraceAttributesFromBaggage \/ LeaveTrace
  \/ \E trace \in 1..MaxTraces, sampled \in BOOLEAN : StartRoot(trace, sampled)
BaggageSpec == BaggageInit /\ [][BaggageNext]_baggageVars

-----------------------------------------------------------------------------
\* Attribution is never of an earlier message, and never a message's against a
\* local call: what a local call set is there until the next one, and every
\* accepted attribute is in the last namespace imported.
AttributionIsCurrent ==
  \A f \in Fields :
    /\ locals[f] # None => path.value[f] = locals[f] /\ f \notin path.accepted
    /\ locals[f] = None => (path.value[f] # None <=> f \in path.accepted)
    /\ f \in path.accepted =>
         \E g \in DOMAIN imported \cap Fields : Target(g) = f /\ imported[g] = path.value[f]

\* Once the client has written it, the baggage a message leaves with carries
\* the path's attributes as they are, within the limits and the wire's domain,
\* names no trace but the current one, and without a mark nothing of Langfuse.
BaggageIsTheState ==
  synced =>
    /\ path.foreign + Cardinality(DOMAIN path.members) <= MaxMembers
    /\ \A m \in DOMAIN path.members :
         IF m = Claim THEN path.members[m] = path.ambient /\ path.claim.id = path.ambient
         ELSE m \in Fields /\ path.members[m] = path.value[m] /\ wireBaggageValue(path.value[m])
    /\ ~path.marked => path.members = <<>>
=============================================================================
