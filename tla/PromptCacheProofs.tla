--------------------------- MODULE PromptCacheProofs ---------------------------
(***************************************************************************)
(* The prompt cache never goes backward, a caller receives no cancellation *)
(* but its own or the client's, a drained client fetches nothing, and the  *)
(* recency list, the marks and the counters are exact, for any number of   *)
(* keys, callers, flights and refreshes.                                   *)
(*                                                                         *)
(* The invariant follows each worker from its start to its commit.  A      *)
(* flight owns its key's reservation, the key is not cached while it flies *)
(* and what it fetched is at least as new as what was ever installed; a    *)
(* refresh is ahead of the entry's history only while the very entry and   *)
(* generation it started from are installed.  A flight counts its waiters, *)
(* so that an abandoned one has none to deliver its cancellation to.  The  *)
(* books follow: the list is the set of installed entries, one refresh at  *)
(* most holds an entry, of its very generation, and a counter is the       *)
(* number of the workers it admitted.                                      *)
(***************************************************************************)
EXTENDS PromptCache, FiniteSetTheorems, TLAPS

Answers == [kind : Kinds, ver : Nat]
Entries == [id : Nat, gen : Nat, ver : Nat, refreshing : BOOLEAN, cooling : BOOLEAN]
Phases == {"free", "fetching", "fetched"}
FlightStates ==
  [phase : Phases, key : Keys \cup {NoKey}, waiters : Int, abandoned : BOOLEAN, res : Answers]
RefreshStates ==
  [phase : Phases, key : Keys \cup {NoKey}, id : Nat, gen : Nat, res : Answers]

CacheTyped ==
  /\ server \in [Keys -> [ver : Nat, live : BOOLEAN]]
  /\ entries \in [Keys -> Entries] /\ newest \in [Keys -> Nat]
WorkersTyped ==
  /\ reserved \in [Keys -> FlightIds \cup {NoFlight}]
  /\ flights \in [FlightIds -> FlightStates]
  /\ refreshes \in [RefreshSlots -> RefreshStates]
CallsTyped ==
  /\ pc \in [Callers -> PcStates] /\ key \in [Callers -> Keys \cup {NoKey}]
  /\ gone \in [Callers -> BOOLEAN] /\ mine \in [Callers -> FlightIds \cup {NoFlight}]
  /\ got \in [Callers -> Answers]
StopTyped == closing \in BOOLEAN /\ canceled \in BOOLEAN

Typed == CacheTyped /\ WorkersTyped /\ CallsTyped /\ StopTyped

Flying(f) == flights[f].phase # "free"
Waits(c) == pc[c] \in {"joined", "await", "leave"}

OfCall(c) ==
  /\ pc[c] \notin Returned => key[c] \in Keys
  /\ pc[c] \in Holding => \/ got[c].kind = "none" /\ mine[c] \in FlightIds /\ Flying(mine[c])
                          \/ got[c].kind # "none" /\ mine[c] = NoFlight
  /\ pc[c] \notin Holding => mine[c] = NoFlight /\ got[c] = NoResult
  /\ Waits(c) /\ got[c].kind = "canceled" => canceled
  /\ pc[c] = "foreignCancel" => canceled
  /\ pc[c] \in {"server", "failed", "foreignCancel"} => ~gone[c]

\* What a flight fetched, until it is committed.
Landed(f) ==
  flights[f].phase = "fetched" =>
    /\ flights[f].res.kind # "none"
    /\ flights[f].res.kind = "canceled" => flights[f].abandoned \/ canceled
    /\ flights[f].res.kind = "ok" => /\ newest[flights[f].key] <= flights[f].res.ver
                                     /\ flights[f].res.ver <= server[flights[f].key].ver
Counted(f) ==
  flights[f].waiters = Cardinality(Waiting(f)) /\ (flights[f].abandoned <=> Waiting(f) = {})
Owns(f) == flights[f].key \in Keys /\ reserved[flights[f].key] = f /\ ~Present(flights[f].key)

OfFlight(f) == Flying(f) => Owns(f) /\ Counted(f) /\ Landed(f)

OfReservation(k) == reserved[k] # NoFlight => Flying(reserved[k]) /\ flights[reserved[k]].key = k

OfKey(k) == newest[k] <= server[k].ver /\ (Present(k) => entries[k].ver = newest[k])

OfRefresh(r) ==
  refreshes[r].phase # "free" =>
    /\ refreshes[r].key \in Keys /\ refreshes[r].id # 0
    /\ refreshes[r].id = entries[refreshes[r].key].id => refreshes[r].gen <= entries[refreshes[r].key].gen
    /\ refreshes[r].phase = "fetched" /\ refreshes[r].res.kind = "ok" =>
         /\ refreshes[r].res.ver <= server[refreshes[r].key].ver
         /\ StillInstalled(r) => newest[refreshes[r].key] <= refreshes[r].res.ver

OfStop == (stopper # "idle" => closing) /\ (stopper = "ok" => Drained)

EveryCall == \A c \in Callers : OfCall(c)
EveryFlight == \A f \in FlightIds : OfFlight(f)
EveryReservation == \A k \in Keys : OfReservation(k)
EveryKey == \A k \in Keys : OfKey(k)
EveryRefresh == \A r \in RefreshSlots : OfRefresh(r)

Inv == /\ Typed /\ EveryCall /\ EveryFlight /\ EveryReservation
       /\ EveryKey /\ EveryRefresh /\ OfStop

-----------------------------------------------------------------------------
LEMMA InitHolds == Init => Inv
<1> SUFFICES ASSUME Init
             PROVE  Inv
  OBVIOUS
<1> USE DEF Init
<1>1. NoResult \in Answers
  BY DEF NoResult, Answers, Kinds
<1>2. Typed
  <2>1. CacheTyped
    BY DEF CacheTyped, Entries, NoEntry
  <2>2. IdleFlight \in FlightStates /\ IdleRefresh \in RefreshStates
    BY <1>1 DEF FlightStates, RefreshStates, IdleFlight, IdleRefresh, Phases
  <2>3. WorkersTyped
    BY <2>2 DEF WorkersTyped
  <2>4. CallsTyped /\ StopTyped
    BY <1>1 DEF CallsTyped, StopTyped, PcStates, Returned
  <2> QED BY <2>1, <2>3, <2>4 DEF Typed
<1>3. EveryCall
  BY DEF EveryCall, OfCall, Returned, Holding, Waits
<1>4. \A f \in FlightIds : ~Flying(f)
  BY DEF Flying, IdleFlight
<1>5. EveryFlight /\ EveryReservation
  BY <1>4 DEF EveryFlight, OfFlight, EveryReservation, OfReservation
<1>6. EveryKey
  BY DEF EveryKey, OfKey, Present, NoEntry
<1>7. EveryRefresh /\ OfStop
  BY DEF EveryRefresh, OfRefresh, IdleRefresh, OfStop
<1> QED BY <1>2, <1>3, <1>5, <1>6, <1>7 DEF Inv

-----------------------------------------------------------------------------
(* There is an identity that no entry and no refresh holds.                *)

LEMMA FreshIsFresh ==
  ASSUME Typed
  PROVE  /\ FreshId \in Nat \ {0}
         /\ \A k \in Keys : entries[k].id # FreshId
         /\ \A r \in RefreshSlots : refreshes[r].id # FreshId
<1> DEFINE A == {entries[k].id : k \in Keys}
           B == {refreshes[r].id : r \in RefreshSlots}
           n == Cardinality(Keys) + MaxRefreshes
           a == [k \in Keys |-> entries[k].id]
           b == [r \in RefreshSlots |-> refreshes[r].id]
<1>1. IsFiniteSet(A) /\ Cardinality(A) <= Cardinality(Keys)
  <2>1. a \in Surjection(Keys, A)
    BY DEF Surjection
  <2> QED BY <2>1, FS_Surjection, FiniteAssumption
<1>2. IsFiniteSet(B) /\ Cardinality(B) <= MaxRefreshes
  <2>1. b \in Surjection(RefreshSlots, B)
    BY DEF Surjection
  <2>2. IsFiniteSet(RefreshSlots) /\ Cardinality(RefreshSlots) = MaxRefreshes
    BY FS_Interval, CapsAssumption DEF RefreshSlots
  <2> QED BY <2>1, <2>2, FS_Surjection
<1> HIDE DEF A, B
<1>3. IsFiniteSet(A \cup B) /\ Cardinality(A \cup B) <= n /\ n \in Nat
  <2>1. /\ Cardinality(A \cup B) = Cardinality(A) + Cardinality(B) - Cardinality(A \cap B)
        /\ IsFiniteSet(A \cup B)
    BY <1>1, <1>2, FS_Union
  <2>2. IsFiniteSet(A \cap B)
    BY <1>1, FS_Subset
  <2>3. /\ Cardinality(A) \in Nat /\ Cardinality(B) \in Nat /\ Cardinality(A \cap B) \in Nat
        /\ Cardinality(Keys) \in Nat
    BY <1>1, <1>2, <2>2, FS_CardinalityType, FiniteAssumption
  <2> QED BY <1>1, <1>2, <2>1, <2>3, CapsAssumption
<1>4. \E id \in 1..(n + 1) : id \notin A \cup B
  <2>1. SUFFICES ASSUME 1..(n + 1) \subseteq A \cup B
                 PROVE  FALSE
    OBVIOUS
  <2>2. Cardinality(1..(n + 1)) <= Cardinality(A \cup B)
    BY <1>3, <2>1, FS_Subset
  <2>3. Cardinality(1..(n + 1)) = n + 1
    BY <1>3, FS_Interval
  <2>4. Cardinality(A \cup B) \in Nat
    BY <1>3, FS_CardinalityType
  <2> QED BY <1>3, <2>2, <2>3, <2>4
<1>5. PICK id \in 1..(n + 1) : /\ \A k \in Keys : entries[k].id # id
                               /\ \A r \in RefreshSlots : refreshes[r].id # id
  BY <1>4 DEF A, B
<1>6. \E m \in 1..(Cardinality(Keys) + MaxRefreshes + 1) :
         (\A k \in Keys : entries[k].id # m) /\ (\A r \in RefreshSlots : refreshes[r].id # m)
  BY <1>5
<1>7. FreshId \in 1..(n + 1) /\ (\A k \in Keys : entries[k].id # FreshId)
                             /\ \A r \in RefreshSlots : refreshes[r].id # FreshId
  BY <1>6 DEF FreshId
<1> QED BY <1>3, <1>7

-----------------------------------------------------------------------------
(* Steps of a caller alone.                                                *)

Others(c) ==
  \A d \in Callers \ {c} : /\ pc'[d] = pc[d] /\ key'[d] = key[d] /\ gone'[d] = gone[d]
                           /\ mine'[d] = mine[d] /\ got'[d] = got[d]

Still == UNCHANGED <<server, cacheVars, reserved, flights, refreshes, stopVars>>

LEMMA OwnStep ==
  ASSUME Inv, NEW c \in Callers, Still, Others(c), CallsTyped', OfCall(c)',
         Waits(c)' => Waits(c) /\ mine'[c] = mine[c],
         Waits(c) /\ mine[c] \in FlightIds => Waits(c)',
         closing /\ pc'[c] = "directFetch" => pc[c] = "directFetch"
  PROVE  Inv'
<1> USE DEF Still
<1>1. Typed'
  BY DEF Inv, Typed, CacheTyped, WorkersTyped, StopTyped, cacheVars, stopVars
<1>2. EveryCall'
  <2>1. ASSUME NEW d \in Callers \ {c}
        PROVE  OfCall(d)'
    BY DEF Inv, EveryCall, OfCall, Others, Flying, Waits, stopVars
  <2> QED BY <2>1 DEF EveryCall
<1>3. \A f \in FlightIds : Waiting(f)' = Waiting(f)
  <2> SUFFICES ASSUME NEW f \in FlightIds, NEW d \in Callers
               PROVE  d \in Waiting(f)' <=> d \in Waiting(f)
    BY DEF Waiting
  <2>1. CASE d = c
    BY <2>1 DEF Waiting, Waits
  <2>2. CASE d # c
    BY <2>2 DEF Waiting, Others
  <2> QED BY <2>1, <2>2
<1>4. EveryFlight'
  <2> SUFFICES ASSUME NEW f \in FlightIds, Flying(f)'
               PROVE  Owns(f)' /\ Counted(f)' /\ Landed(f)'
    BY DEF EveryFlight, OfFlight
  <2>1. Owns(f) /\ Counted(f) /\ Landed(f)
    BY DEF Inv, EveryFlight, OfFlight, Flying
  <2> QED BY <1>3, <2>1 DEF Owns, Counted, Landed, Present, cacheVars, stopVars
<1>5. EveryReservation' /\ EveryKey'
  BY DEF Inv, EveryReservation, OfReservation, Flying, EveryKey, OfKey, Present, cacheVars
<1>6. EveryRefresh'
  BY DEF Inv, EveryRefresh, OfRefresh, StillInstalled, cacheVars
<1>7. OfStop'
  <2>1. Drained /\ closing => Drained'
    <3> SUFFICES ASSUME Drained, closing, NEW d \in Callers
                 PROVE  pc'[d] # "directFetch"
      BY DEF Drained
    <3>1. CASE d = c
      BY <3>1 DEF Drained
    <3>2. CASE d # c
      BY <3>2 DEF Drained, Others
    <3> QED BY <3>1, <3>2
  <2> QED BY <2>1 DEF Inv, OfStop, stopVars
<1> QED BY <1>1, <1>2, <1>4, <1>5, <1>6, <1>7 DEF Inv

LEMMA BeginKeeps == ASSUME Inv, NEW c \in Callers, Begin(c) PROVE Inv'
<1> USE DEF Begin, Go
<1>1. PICK k \in Keys : key' = [key EXCEPT ![c] = k]
  OBVIOUS
<1>2. pc[c] \in Returned /\ pc'[c] \in {"lookup", "directCheck"} /\ mine' = mine /\ got' = got
  BY DEF Inv, Typed, CallsTyped
<1>3. Still /\ Others(c)
  BY <1>1 DEF Still, Others, cacheVars, flightVars, refreshVars, stopVars, Inv, Typed, CallsTyped
<1>4. CallsTyped'
  BY <1>1 DEF Inv, Typed, CallsTyped, PcStates
<1>5. mine[c] = NoFlight /\ got[c] = NoResult /\ ~Waits(c)
  BY <1>2 DEF Inv, EveryCall, OfCall, Returned, Holding, Waits
<1>6. key'[c] = k /\ ~Waits(c)'
  BY <1>1, <1>2 DEF Inv, Typed, CallsTyped, Waits
<1>7. OfCall(c)'
  BY <1>2, <1>5, <1>6 DEF OfCall, Returned, Holding, Waits
<1> QED BY <1>2, <1>3, <1>4, <1>5, <1>6, <1>7, OwnStep, KeyAssumption DEF FlightIds

LEMMA ContextEndsKeeps == ASSUME Inv, NEW c \in Callers, ContextEnds(c) PROVE Inv'
<1> USE DEF ContextEnds
<1>1. Still /\ Others(c) /\ CallsTyped'
  BY DEF Still, Others, cacheVars, flightVars, refreshVars, stopVars, Inv, Typed, CallsTyped
<1>2. OfCall(c)'
  BY DEF Inv, EveryCall, OfCall, Flying, Waits, flightVars, stopVars, Returned
<1> QED BY <1>1, <1>2, OwnStep DEF Waits

(* A caller that holds nothing goes on to another such step.               *)
LEMMA EmptyHanded ==
  ASSUME Inv, NEW c \in Callers, NEW where \in PcStates \ Holding, pc[c] \notin Holding,
         Go(c, where), UNCHANGED <<key, gone, mine, got>>, Still,
         where \notin Returned => key[c] \in Keys,
         where = "foreignCancel" => canceled,
         where \in {"server", "failed", "foreignCancel"} => ~gone[c],
         closing => where # "directFetch"
  PROVE  Inv'
<1>1. Others(c) /\ CallsTyped' /\ pc'[c] = where
  BY DEF Go, Others, Inv, Typed, CallsTyped
<1>2. mine[c] = NoFlight /\ got[c] = NoResult
  BY DEF Inv, EveryCall, OfCall
<1>3. ~Waits(c) /\ ~Waits(c)'
  BY <1>1 DEF Waits, Holding
<1>4. OfCall(c)'
  BY <1>1, <1>2, <1>3 DEF OfCall, Still, stopVars
<1> QED BY <1>1, <1>3, <1>4, OwnStep

LEMMA ChecksKeep ==
  ASSUME Inv, NEW c \in Callers,
         MissCheck(c) \/ Refused(c) \/ DirectCheck(c) \/ DirectAdmit(c) \/ DirectFetch(c)
  PROVE  Inv'
<1>1. Still /\ UNCHANGED <<key, gone, mine, got>>
  BY DEF Still, MissCheck, Refused, DirectCheck, DirectAdmit, DirectFetch, flightVars, refreshVars
<1>2. pc[c] \notin Holding /\ key[c] \in Keys
  BY DEF MissCheck, Refused, DirectCheck, DirectAdmit, DirectFetch, Holding, Inv, EveryCall, OfCall, Returned
<1>3. PICK where \in PcStates \ Holding :
        /\ Go(c, where)
        /\ where = "foreignCancel" => canceled
        /\ where \in {"server", "failed", "foreignCancel"} => ~gone[c]
        /\ closing => where # "directFetch"
  <2>1. \A p : p \in {"canceled", "admit", "failed", "directAdmit", "refused", "directFetch", "server"}
                 => p \in PcStates \ Holding
    BY DEF PcStates, Holding, Returned
  <2>2. CASE MissCheck(c)
    BY <2>1, <2>2 DEF MissCheck
  <2>3. CASE Refused(c)
    BY <2>1, <2>3 DEF Refused
  <2>4. CASE DirectCheck(c)
    BY <2>1, <2>4 DEF DirectCheck
  <2>5. CASE DirectAdmit(c)
    BY <2>1, <2>5 DEF DirectAdmit
  <2>6. CASE DirectFetch(c)
    BY <2>1, <2>6 DEF DirectFetch
  <2> QED BY <2>2, <2>3, <2>4, <2>5, <2>6
<1> QED BY <1>1, <1>2, <1>3, EmptyHanded

LEMMA WaitOutKeeps == ASSUME Inv, NEW c \in Callers, WaitOut(c) PROVE Inv'
<1>1. PICK where \in {"canceled", "lookup"} : Release(c, where)
  BY DEF WaitOut
<1>2. Still /\ UNCHANGED <<key, gone>> /\ pc[c] = "waitOut"
  BY DEF WaitOut, Still, flightVars, refreshVars
<1>3. pc'[c] = where /\ mine'[c] = NoFlight /\ got'[c] = NoResult /\ Others(c)
  BY <1>1, <1>2 DEF Release, Go, Others, Inv, Typed, CallsTyped
<1>4. CallsTyped'
  BY <1>1, <1>2 DEF Release, Go, Inv, Typed, CallsTyped, PcStates, Returned, NoResult, Answers, Kinds
<1>5. OfCall(c)'
  BY <1>2, <1>3 DEF Inv, EveryCall, OfCall, Returned, Holding, Waits
<1> QED BY <1>2, <1>3, <1>4, <1>5, OwnStep DEF Waits

LEMMA AwaitKeeps == ASSUME Inv, NEW c \in Callers, AwaitFlight(c) PROVE Inv'
<1> USE DEF AwaitFlight
<1>1. Still /\ UNCHANGED <<key, gone>> /\ pc[c] \in {"joined", "await"}
  BY DEF Still, flightVars, refreshVars
<1>2. CASE UNCHANGED <<mine, got>> /\ (Go(c, "leave") \/ Go(c, "await"))
  <2>1. pc'[c] \in {"leave", "await"} /\ Others(c) /\ CallsTyped'
    BY <1>1, <1>2 DEF Go, Others, Inv, Typed, CallsTyped, PcStates
  <2>2. OfCall(c)'
    BY <1>1, <1>2, <2>1 DEF Inv, EveryCall, OfCall, Returned, Holding, Waits, Flying, Still, stopVars
  <2> QED BY <1>1, <1>2, <2>1, <2>2, OwnStep DEF Waits
<1>3. CASE FlightDone(c) /\ Release(c, Outcome(c))
  <2>1. /\ mine[c] = NoFlight /\ key[c] \in Keys
        /\ got[c].kind = "canceled" => canceled
    BY <1>1, <1>3 DEF Inv, EveryCall, OfCall, Holding, Waits, FlightDone, Returned
  <2>2. pc'[c] = Outcome(c) /\ mine'[c] = NoFlight /\ got'[c] = NoResult /\ Others(c)
    BY <1>1, <1>3 DEF Release, Go, Others, Inv, Typed, CallsTyped
  <2>3. /\ Outcome(c) \in {"canceled", "server", "foreignCancel", "failed"}
        /\ Outcome(c) = "foreignCancel" => canceled
        /\ Outcome(c) # "canceled" => ~gone[c]
    BY <2>1 DEF Outcome
  <2>4. CallsTyped'
    BY <1>1, <1>3, <2>3 DEF Release, Go, Inv, Typed, CallsTyped, PcStates, Returned, NoResult, Answers, Kinds
  <2>5. OfCall(c)'
    BY <1>1, <2>2, <2>3 DEF OfCall, Returned, Holding, Waits, Still, stopVars
  <2> QED BY <1>1, <2>1, <2>2, <2>3, <2>4, <2>5, OwnStep, KeyAssumption DEF FlightIds, Waits
<1> QED BY <1>2, <1>3

-----------------------------------------------------------------------------
(* Steps in which a caller joins, starts or leaves a flight.               *)

LEMMA FlightStep ==
  ASSUME Inv, NEW c \in Callers, NEW f \in FlightIds,
         UNCHANGED <<server, cacheVars, refreshes, stopVars>>, Others(c), CallsTyped', WorkersTyped',
         OfCall(c)', pc'[c] # "directFetch", Flying(f)', closing => Flying(f),
         \A g \in FlightIds \ {f} : /\ flights'[g] = flights[g] /\ Waiting(g)' = Waiting(g)
                                    /\ Flying(g) => reserved'[flights[g].key] = g,
         OfFlight(f)', EveryReservation'
  PROVE  Inv'
<1>1. Typed'
  BY DEF Inv, Typed, CacheTyped, StopTyped, cacheVars, stopVars
<1>2. EveryCall'
  <2>1. \A g \in FlightIds : Flying(g) => Flying(g)'
    BY DEF Flying
  <2>2. ASSUME NEW d \in Callers \ {c}
        PROVE  OfCall(d)'
    BY <2>1 DEF Inv, EveryCall, OfCall, Others, Waits, stopVars
  <2> QED BY <2>2 DEF EveryCall
<1>3. EveryFlight'
  <2>1. ASSUME NEW g \in FlightIds \ {f}, Flying(g)'
        PROVE  Owns(g)' /\ Counted(g)' /\ Landed(g)'
    <3>1. Flying(g) /\ Owns(g) /\ Counted(g) /\ Landed(g)
      BY <2>1 DEF Inv, EveryFlight, OfFlight, Flying
    <3> QED BY <3>1 DEF Owns, Counted, Landed, Present, cacheVars, stopVars
  <2> QED BY <2>1 DEF EveryFlight, OfFlight
<1>4. EveryKey' /\ EveryRefresh'
  BY DEF Inv, EveryKey, OfKey, Present, EveryRefresh, OfRefresh, StillInstalled, cacheVars
<1>5. OfStop'
  <2>1. Drained /\ closing => Drained'
    <3> SUFFICES ASSUME Drained, closing
                 PROVE  Drained'
      OBVIOUS
    <3>1. FALSE
      BY DEF Drained, Flying
    <3> QED BY <3>1
  <2> QED BY <2>1 DEF Inv, OfStop, stopVars
<1> QED BY <1>1, <1>2, <1>3, <1>4, <1>5 DEF Inv

LEMMA WaitingFinite == \A f : IsFiniteSet(Waiting(f))
BY FS_Subset, FiniteAssumption DEF Waiting

\* A caller that holds no flight comes to wait for one.
LEMMA Joins ==
  ASSUME Inv, NEW c \in Callers, NEW f \in FlightIds, pc[c] = "admit", Hold(c, f, "joined"),
         UNCHANGED <<key, gone, got>>
  PROVE  /\ Others(c) /\ CallsTyped' /\ pc'[c] = "joined" /\ mine'[c] = f /\ got[c] = NoResult
         /\ c \notin Waiting(f) /\ Waiting(f)' = Waiting(f) \cup {c}
         /\ \A g \in FlightIds \ {f} : Waiting(g)' = Waiting(g)
         /\ key[c] \in Keys
<1>1. pc'[c] = "joined" /\ mine'[c] = f /\ Others(c) /\ CallsTyped'
  BY DEF Hold, Go, Others, Inv, Typed, CallsTyped, PcStates
<1>2. mine[c] = NoFlight /\ got[c] = NoResult /\ key[c] \in Keys
  BY DEF Inv, EveryCall, OfCall, Holding, Returned
<1>3. ASSUME NEW g \in FlightIds, NEW d \in Callers \ {c}
      PROVE  d \in Waiting(g)' <=> d \in Waiting(g)
  BY <1>1 DEF Waiting, Others
<1>4. ASSUME NEW g \in FlightIds
      PROVE  c \notin Waiting(g) /\ (c \in Waiting(g)' <=> g = f)
  BY <1>1, <1>2, KeyAssumption DEF Waiting, FlightIds
<1>5. \A g \in FlightIds : Waiting(g) \subseteq Callers /\ Waiting(g)' \subseteq Callers
  BY DEF Waiting
<1>6. c \notin Waiting(f) /\ Waiting(f)' = Waiting(f) \cup {c}
  BY <1>3, <1>4, <1>5
<1>7. ASSUME NEW g \in FlightIds \ {f}
      PROVE  Waiting(g)' = Waiting(g)
  BY <1>3, <1>4, <1>5
<1> QED BY <1>1, <1>2, <1>6, <1>7

LEMMA JoinKeeps ==
  ASSUME Inv, NEW c \in Callers, NEW f \in FlightIds, pc[c] = "admit",
         reserved[key[c]] = f, Joinable(f), Hold(c, f, "joined"),
         flights' = [flights EXCEPT ![f].waiters = @ + 1],
         UNCHANGED <<server, cacheVars, refreshVars, stopVars, reserved, key, gone, got>>
  PROVE  Inv'
<1>1. /\ Others(c) /\ CallsTyped' /\ pc'[c] = "joined" /\ mine'[c] = f /\ got[c] = NoResult
      /\ c \notin Waiting(f) /\ Waiting(f)' = Waiting(f) \cup {c}
      /\ \A g \in FlightIds \ {f} : Waiting(g)' = Waiting(g)
      /\ key[c] \in Keys
  BY Joins
<1>2. Flying(f) /\ Owns(f) /\ Counted(f) /\ Landed(f)
  <2>1. reserved[key[c]] # NoFlight
    BY KeyAssumption DEF FlightIds
  <2> QED BY <1>1, <2>1 DEF Inv, EveryReservation, OfReservation, EveryFlight, OfFlight
<1>3. /\ WorkersTyped' /\ \A g \in FlightIds \ {f} : flights'[g] = flights[g]
      /\ flights'[f].waiters = flights[f].waiters + 1
      /\ flights'[f].phase = flights[f].phase /\ flights'[f].key = flights[f].key
      /\ flights'[f].res = flights[f].res /\ flights'[f].abandoned = flights[f].abandoned
  BY DEF Inv, Typed, WorkersTyped, FlightStates, refreshVars
<1>4. Flying(f)' /\ Owns(f)' /\ Landed(f)'
  BY <1>2, <1>3 DEF Flying, Owns, Landed, Present, cacheVars, stopVars
<1>5. Counted(f)'
  <2>1. Cardinality(Waiting(f)') = Cardinality(Waiting(f)) + 1
    BY <1>1, WaitingFinite, FS_AddElement
  <2>2. ~flights'[f].abandoned /\ Waiting(f)' # {}
    BY <1>1, <1>3 DEF Joinable
  <2> QED BY <1>2, <1>3, <2>1, <2>2 DEF Counted
<1>6. OfCall(c)'
  BY <1>1, <1>4 DEF OfCall, Returned, Holding, Waits, NoResult
<1>7. EveryReservation'
  <2>1. \A g \in FlightIds : (Flying(g)' <=> Flying(g)) /\ flights'[g].key = flights[g].key
    BY <1>3 DEF Flying
  <2> QED BY <2>1 DEF Inv, Typed, WorkersTyped, EveryReservation, OfReservation
<1>8. \A g \in FlightIds \ {f} : Flying(g) => reserved'[flights[g].key] = g
  BY DEF Inv, EveryFlight, OfFlight, Owns
<1> QED BY <1>1, <1>2, <1>3, <1>4, <1>5, <1>6, <1>7, <1>8, FlightStep DEF OfFlight, refreshVars

LEMMA StartKeeps ==
  ASSUME Inv, NEW c \in Callers, NEW f \in FlightIds, pc[c] = "admit", ~Present(key[c]),
         ~closing, reserved[key[c]] = NoFlight, ~Flying(f), Hold(c, f, "joined"),
         flights' = [flights EXCEPT ![f] =
           [phase |-> "fetching", key |-> key[c], waiters |-> 1, abandoned |-> FALSE, res |-> NoResult]],
         reserved' = [reserved EXCEPT ![key[c]] = f],
         UNCHANGED <<server, cacheVars, refreshVars, stopVars, key, gone, got>>
  PROVE  Inv'
<1>1. /\ Others(c) /\ CallsTyped' /\ pc'[c] = "joined" /\ mine'[c] = f /\ got[c] = NoResult
      /\ Waiting(f)' = Waiting(f) \cup {c}
      /\ \A g \in FlightIds \ {f} : Waiting(g)' = Waiting(g)
      /\ key[c] \in Keys
  BY Joins
<1>2. Waiting(f)' = {c}
  <2>1. ASSUME NEW d \in Waiting(f)
        PROVE  FALSE
    <3>1. d \in Callers /\ mine[d] = f /\ f # NoFlight
      BY KeyAssumption DEF Waiting, FlightIds
    <3> QED BY <3>1 DEF Inv, EveryCall, OfCall
  <2> QED BY <1>1, <2>1
<1>3. /\ \A g \in FlightIds \ {f} : flights'[g] = flights[g]
      /\ flights'[f] = [phase |-> "fetching", key |-> key[c], waiters |-> 1, abandoned |-> FALSE,
                        res |-> NoResult]
  BY DEF Inv, Typed, WorkersTyped
<1>4. WorkersTyped'
  <2>1. NoResult \in Answers
    BY DEF NoResult, Answers, Kinds
  <2>2. [phase |-> "fetching", key |-> key[c], waiters |-> 1, abandoned |-> FALSE, res |-> NoResult]
          \in FlightStates
    BY <1>1, <2>1 DEF FlightStates, Phases
  <2>3. flights' \in [FlightIds -> FlightStates]
    BY <2>2 DEF Inv, Typed, WorkersTyped
  <2> QED BY <1>1, <2>3 DEF Inv, Typed, WorkersTyped, refreshVars
<1>5. Flying(f)' /\ Owns(f)' /\ Landed(f)'
  BY <1>1, <1>3 DEF Flying, Owns, Landed, Present, cacheVars, Inv, Typed, WorkersTyped
<1>6. Counted(f)'
  <2>1. Cardinality({c}) = 1 /\ {c} # {}
    BY FS_Singleton
  <2> QED BY <1>2, <1>3, <2>1 DEF Counted
<1>7. OfCall(c)'
  BY <1>1, <1>5 DEF OfCall, Returned, Holding, Waits, NoResult
<1>8. EveryReservation'
  <2>1. ASSUME NEW k \in Keys, k = key[c]
        PROVE  OfReservation(k)'
    <3>1. reserved'[k] = f /\ Flying(f)' /\ flights'[f].key = k
      BY <1>3, <1>5, <2>1 DEF Inv, Typed, WorkersTyped
    <3> QED BY <3>1 DEF OfReservation, Flying
  <2>2. ASSUME NEW k \in Keys, k # key[c]
        PROVE  OfReservation(k)'
    <3>1. reserved'[k] = reserved[k]
      BY <2>2 DEF Inv, Typed, WorkersTyped
    <3>2. ASSUME NEW g \in FlightIds, reserved[k] = g
          PROVE  flights'[g] = flights[g] /\ Flying(g) /\ flights[g].key = k
      BY <1>3, <3>2, KeyAssumption DEF Inv, EveryReservation, OfReservation, FlightIds
    <3>3. reserved[k] \in FlightIds \cup {NoFlight}
      BY DEF Inv, Typed, WorkersTyped
    <3> QED BY <3>1, <3>2, <3>3 DEF OfReservation, Flying
  <2> QED BY <2>1, <2>2 DEF EveryReservation
<1>9. ASSUME NEW g \in FlightIds \ {f}, Flying(g)
      PROVE  reserved'[flights[g].key] = g
  <2>1. flights[g].key \in Keys /\ reserved[flights[g].key] = g /\ g # NoFlight
    BY <1>9, KeyAssumption DEF Inv, EveryFlight, OfFlight, Owns, FlightIds
  <2> QED BY <2>1 DEF Inv, Typed, WorkersTyped
<1> QED BY <1>1, <1>3, <1>4, <1>5, <1>6, <1>7, <1>8, <1>9, FlightStep DEF OfFlight, refreshVars

LEMMA AdmitKeeps == ASSUME Inv, NEW c \in Callers, Admit(c) PROVE Inv'
<1> USE DEF Admit
<1>1. pc[c] = "admit" /\ UNCHANGED <<server, cacheVars, refreshVars, stopVars, key, gone, got>>
  OBVIOUS
<1>2. pc[c] \notin Holding /\ key[c] \in Keys /\ mine[c] = NoFlight /\ got[c] = NoResult
  BY <1>1 DEF Holding, Inv, EveryCall, OfCall, Returned
<1>3. CASE \/ Go(c, "lookup") /\ UNCHANGED <<mine, flightVars>>
           \/ Go(c, "refused") /\ UNCHANGED <<mine, flightVars>>
  <2>1. Still /\ UNCHANGED <<key, gone, mine, got>>
    BY <1>1, <1>3 DEF Still, flightVars, refreshVars
  <2>2. {"lookup", "refused"} \subseteq PcStates \ Holding
    BY DEF PcStates, Holding
  <2> QED BY <1>2, <1>3, <2>1, <2>2, EmptyHanded
<1>4. CASE ~Present(key[c]) /\ joinOrStartFlightLocked(c)
  <2>1. CASE closing /\ Go(c, "refused") /\ UNCHANGED <<mine, flightVars>>
    BY <1>3, <2>1
  <2>2. CASE reserved[key[c]] = NoFlight /\ AtForegroundCap /\ Go(c, "refused") /\ UNCHANGED <<mine, flightVars>>
    BY <1>3, <2>2
  <2>3. ASSUME NEW f \in FlightIds, reserved[key[c]] = f, ~Joinable(f), Hold(c, f, "waitOut"),
               UNCHANGED flights, UNCHANGED <<reserved, foreground>>
        PROVE  Inv'
    <3>1. Still
      BY <1>1, <2>3 DEF Still, refreshVars
    <3>2. pc'[c] = "waitOut" /\ mine'[c] = f /\ Others(c) /\ CallsTyped'
      BY <1>1, <2>3 DEF Hold, Go, Others, Inv, Typed, CallsTyped, PcStates
    <3>3. Flying(f)'
      BY <1>2, <2>3, KeyAssumption DEF Inv, EveryReservation, OfReservation, Flying, FlightIds
    <3>4. OfCall(c)'
      BY <1>1, <1>2, <3>2, <3>3 DEF OfCall, Returned, Holding, Waits, NoResult
    <3> QED BY <1>1, <3>1, <3>2, <3>4, OwnStep DEF Waits
  <2>4. ASSUME NEW f \in FlightIds, reserved[key[c]] = f, Joinable(f), Hold(c, f, "joined"),
               flights' = [flights EXCEPT ![f].waiters = @ + 1], UNCHANGED <<reserved, foreground>>
        PROVE  Inv'
    BY <1>1, <2>4, JoinKeeps
  <2>5. ASSUME NEW f \in FlightIds, ~closing, reserved[key[c]] = NoFlight, flights[f].phase = "free",
               flights' = [flights EXCEPT ![f] =
                 [phase |-> "fetching", key |-> key[c], waiters |-> 1, abandoned |-> FALSE, res |-> NoResult]],
               reserved' = [reserved EXCEPT ![key[c]] = f], Hold(c, f, "joined")
        PROVE  Inv'
    BY <1>1, <1>4, <2>5, StartKeeps DEF Flying
  <2> QED BY <1>4, <2>1, <2>2, <2>3, <2>4, <2>5 DEF joinOrStartFlightLocked
<1> QED BY <1>3, <1>4

LEMMA Recounted ==
  ASSUME NEW fl \in FlightStates, NEW n \in Int, NEW b \in BOOLEAN
  PROVE  [fl EXCEPT !.waiters = n, !.abandoned = b] \in FlightStates
BY DEF FlightStates

LEMMA OneFewer ==
  ASSUME NEW fl \in FlightStates
  PROVE  /\ WithoutOne(fl) \in FlightStates /\ WithoutOne(fl).phase = fl.phase
         /\ WithoutOne(fl).key = fl.key /\ WithoutOne(fl).res = fl.res
         /\ WithoutOne(fl).waiters = fl.waiters - 1
         /\ WithoutOne(fl).abandoned <=> fl.abandoned \/ fl.waiters = 1
<1>1. WithoutOne(fl) \in FlightStates
  <2>1. fl.waiters - 1 \in Int /\ (fl.abandoned \/ fl.waiters = 1) \in BOOLEAN
    BY DEF FlightStates
  <2> QED BY <2>1, Recounted DEF WithoutOne
<1>2. /\ WithoutOne(fl).phase = fl.phase /\ WithoutOne(fl).key = fl.key /\ WithoutOne(fl).res = fl.res
      /\ WithoutOne(fl).waiters = fl.waiters - 1
      /\ WithoutOne(fl).abandoned = (fl.abandoned \/ fl.waiters = 1)
  BY DEF WithoutOne, FlightStates
<1> QED BY <1>1, <1>2

\* A caller whose flight has not landed takes itself off its count.
LEMMA Leaves ==
  ASSUME Inv, NEW c \in Callers, NEW f \in FlightIds, f = mine[c], ~FlightDone(c),
         pc[c] = "leave", Release(c, "canceled"), flights' = [flights EXCEPT ![f] = WithoutOne(@)],
         UNCHANGED <<server, cacheVars, reserved, refreshVars, stopVars, key, gone>>
  PROVE  Inv'
<1>1. pc'[c] = "canceled" /\ mine'[c] = NoFlight /\ got'[c] = NoResult /\ Others(c)
  BY DEF Release, Go, Others, Inv, Typed, CallsTyped
<1>2. CallsTyped'
  BY DEF Release, Go, Inv, Typed, CallsTyped, PcStates, Returned, NoResult, Answers, Kinds
<1>3. OfCall(c)'
  BY <1>1 DEF OfCall, Returned, Holding, Waits
<1>4. Flying(f) /\ Owns(f) /\ Counted(f) /\ Landed(f)
  BY KeyAssumption DEF Inv, EveryCall, OfCall, Holding, FlightDone, FlightIds, EveryFlight, OfFlight
<1>5. /\ \A g \in FlightIds \ {f} : flights'[g] = flights[g]
      /\ flights'[f] = WithoutOne(flights[f])
      /\ flights[f] \in FlightStates
  BY DEF Inv, Typed, WorkersTyped
<1>6. /\ flights'[f] \in FlightStates /\ flights'[f].phase = flights[f].phase
      /\ flights'[f].key = flights[f].key /\ flights'[f].res = flights[f].res
      /\ flights'[f].waiters = flights[f].waiters - 1
      /\ flights'[f].abandoned <=> flights[f].abandoned \/ flights[f].waiters = 1
  BY <1>5, OneFewer
<1>7. WorkersTyped'
  <2>1. flights' \in [FlightIds -> FlightStates]
    BY <1>5, <1>6 DEF Inv, Typed, WorkersTyped
  <2> QED BY <2>1 DEF Inv, Typed, WorkersTyped, refreshVars
<1>8. /\ c \in Waiting(f) /\ Waiting(f)' = Waiting(f) \ {c}
      /\ \A g \in FlightIds \ {f} : Waiting(g)' = Waiting(g)
  <2>1. \A g \in FlightIds : \A d \in Callers \ {c} : d \in Waiting(g)' <=> d \in Waiting(g)
    BY <1>1 DEF Waiting, Others
  <2>2. \A g \in FlightIds : (c \in Waiting(g) <=> g = f) /\ c \notin Waiting(g)'
    BY <1>1 DEF Waiting
  <2>3. \A g \in FlightIds : Waiting(g) \subseteq Callers /\ Waiting(g)' \subseteq Callers
    BY DEF Waiting
  <2>4. c \in Waiting(f) /\ Waiting(f)' = Waiting(f) \ {c}
    BY <2>1, <2>2, <2>3
  <2>5. ASSUME NEW g \in FlightIds \ {f}
        PROVE  Waiting(g)' = Waiting(g)
    BY <2>1, <2>2, <2>3
  <2> QED BY <2>4, <2>5
<1>9. Counted(f)'
  <2>1. Cardinality(Waiting(f)') = Cardinality(Waiting(f)) - 1
    <3>1. Cardinality(Waiting(f) \ {c}) = Cardinality(Waiting(f)) - 1
      BY <1>8, WaitingFinite, FS_RemoveElement
    <3> QED BY <1>8, <3>1
  <2>2. IsFiniteSet(Waiting(f)') /\ Cardinality(Waiting(f)) \in Nat
    BY <1>8, WaitingFinite, FS_RemoveElement, FS_CardinalityType
  <2>3. Cardinality(Waiting(f)') = 0 <=> Waiting(f)' = {}
    BY <2>2, FS_EmptySet
  <2>4. ~flights[f].abandoned
    BY <1>4, <1>8 DEF Counted
  <2> QED BY <1>4, <1>6, <2>1, <2>2, <2>3, <2>4 DEF Counted
<1>10. Flying(f)' /\ Owns(f)' /\ Landed(f)'
  BY <1>4, <1>6 DEF Flying, Owns, Landed, Present, cacheVars, stopVars
<1>11. EveryReservation'
  <2>1. \A g \in FlightIds : (Flying(g)' <=> Flying(g)) /\ flights'[g].key = flights[g].key
    BY <1>5, <1>6 DEF Flying
  <2> QED BY <2>1 DEF Inv, Typed, WorkersTyped, EveryReservation, OfReservation
<1>12. \A g \in FlightIds \ {f} : Flying(g) => reserved'[flights[g].key] = g
  BY DEF Inv, EveryFlight, OfFlight, Owns
<1> QED BY <1>1, <1>2, <1>3, <1>4, <1>5, <1>7, <1>8, <1>9, <1>10, <1>11, <1>12, FlightStep
        DEF OfFlight, refreshVars

LEMMA LeaveKeeps == ASSUME Inv, NEW c \in Callers, leaveFlight(c) PROVE Inv'
<1> USE DEF leaveFlight
<1>1. pc'[c] = "canceled" /\ mine'[c] = NoFlight /\ got'[c] = NoResult /\ Others(c)
  BY DEF Release, Go, Others, Inv, Typed, CallsTyped
<1>2. CallsTyped'
  BY DEF Release, Go, Inv, Typed, CallsTyped, PcStates, Returned, NoResult, Answers, Kinds
<1>3. OfCall(c)'
  BY <1>1 DEF OfCall, Returned, Holding, Waits
<1>4. CASE FlightDone(c)
  <2>1. mine[c] = NoFlight /\ Still
    BY <1>4 DEF Inv, EveryCall, OfCall, Holding, FlightDone, Still, refreshVars
  <2> QED BY <1>1, <1>2, <1>3, <2>1, OwnStep, KeyAssumption DEF Waits, FlightIds
<1>5. CASE ~FlightDone(c)
  <2>1. mine[c] \in FlightIds
    BY <1>5 DEF Inv, EveryCall, OfCall, Holding, FlightDone
  <2>2. PICK f \in FlightIds : f = mine[c]
    BY <2>1
  <2>3. flights' = [flights EXCEPT ![f] = WithoutOne(@)]
    BY <1>5, <2>2
  <2> QED BY <1>5, <2>2, <2>3, Leaves
<1> QED BY <1>4, <1>5

-----------------------------------------------------------------------------
(* What a step of the cache, a worker or shutdown leaves as it was.        *)

LEMMA CallsStay ==
  ASSUME Inv, UNCHANGED callVars, \A f \in FlightIds : Flying(f) => Flying(f)', canceled => canceled'
  PROVE  CallsTyped' /\ EveryCall' /\ \A f \in FlightIds : Waiting(f)' = Waiting(f)
<1> USE DEF callVars
<1>1. CallsTyped' /\ \A f \in FlightIds : Waiting(f)' = Waiting(f)
  BY DEF Inv, Typed, CallsTyped, Waiting
<1>2. EveryCall'
  BY DEF Inv, EveryCall, OfCall, Waits
<1> QED BY <1>1, <1>2

Newer == \A k \in Keys : server[k].ver <= server'[k].ver

LEMMA FlightsStay ==
  ASSUME Inv, UNCHANGED <<flights, reserved>>, canceled => canceled', Newer, CacheTyped',
         \A f \in FlightIds : Waiting(f)' = Waiting(f),
         \A k \in Keys : ~Present(k) => ~Present(k)' /\ newest'[k] = newest[k]
  PROVE  EveryFlight' /\ EveryReservation'
<1>1. ASSUME NEW f \in FlightIds, Flying(f)'
      PROVE  Owns(f)' /\ Counted(f)' /\ Landed(f)'
  <2>1. Owns(f) /\ Counted(f) /\ Landed(f) /\ flights'[f] = flights[f]
    BY <1>1 DEF Inv, EveryFlight, OfFlight, Flying
  <2>2. Owns(f)' /\ Counted(f)'
    BY <2>1 DEF Owns, Counted
  <2>3. PICK k \in Keys : flights[f].key = k
    BY <2>1 DEF Owns
  <2>4. newest'[k] = newest[k]
    BY <2>1, <2>3 DEF Owns
  <2>5. /\ server[k].ver \in Nat /\ server'[k].ver \in Nat /\ server[k].ver <= server'[k].ver
        /\ flights[f].res.ver \in Nat
    BY DEF Newer, Inv, Typed, CacheTyped, WorkersTyped, FlightStates, Answers
  <2>6. Landed(f)'
    BY <2>1, <2>3, <2>4, <2>5 DEF Landed
  <2> QED BY <2>2, <2>6
<1>2. EveryReservation'
  BY DEF Inv, EveryReservation, OfReservation, Flying
<1> QED BY <1>1, <1>2 DEF EveryFlight, OfFlight

\* The entry of key k as a refresh with that identity sees it move: not at all,
\* to another identity, or to a later generation.
Aside(k, id) ==
  \/ entries'[k].id = entries[k].id /\ entries'[k].gen = entries[k].gen /\ newest'[k] = newest[k]
  \/ entries'[k].id # id
  \/ entries'[k].id = entries[k].id /\ entries'[k].gen > entries[k].gen

LEMMA RefreshStays ==
  ASSUME Inv, Newer, CacheTyped', NEW r \in RefreshSlots, refreshes'[r] = refreshes[r],
         \A k \in Keys : refreshes[r].phase # "free" => Aside(k, refreshes[r].id)
  PROVE  OfRefresh(r)'
<1> SUFFICES ASSUME refreshes[r].phase # "free"
             PROVE  OfRefresh(r)'
  BY DEF OfRefresh
<1>1. OfRefresh(r)
  BY DEF Inv, EveryRefresh
<1>2. PICK k \in Keys : refreshes[r].key = k
  BY <1>1 DEF OfRefresh
<1>3. Aside(k, refreshes[r].id)
  OBVIOUS
<1>4. /\ server[k].ver \in Nat /\ server'[k].ver \in Nat /\ server[k].ver <= server'[k].ver
      /\ entries[k].gen \in Nat /\ entries'[k].gen \in Nat
  BY DEF Newer, Inv, Typed, CacheTyped, Entries
<1>5. refreshes[r].res.ver \in Nat /\ refreshes[r].gen \in Nat
  BY DEF Inv, Typed, WorkersTyped, RefreshStates, Answers
<1> QED BY <1>1, <1>2, <1>3, <1>4, <1>5 DEF OfRefresh, StillInstalled, Aside

LEMMA ServerKeeps == ASSUME Inv, NEW k \in Keys, Publish(k) \/ Unpublish(k) PROVE Inv'
<1> USE DEF Publish, Unpublish, cacheVars, flightVars, refreshVars, stopVars
<1>1. /\ UNCHANGED <<entries, newest, reserved, flights, refreshes, closing, canceled, stopper, callVars>>
  OBVIOUS
<1>2. Newer /\ CacheTyped'
  <2>1. \A q \in Keys : server[q] \in [ver : Nat, live : BOOLEAN]
    BY DEF Inv, Typed, CacheTyped
  <2>2. server[k].ver + 1 \in Nat
    BY <2>1
  <2>3. \A q \in Keys : server'[q] \in [ver : Nat, live : BOOLEAN] /\ server[q].ver <= server'[q].ver
    <3>1. \A q \in Keys \ {k} : server'[q] = server[q]
      BY DEF Inv, Typed, CacheTyped
    <3>2. \/ server'[k] = [ver |-> server[k].ver + 1, live |-> TRUE]
          \/ server'[k] = [server[k] EXCEPT !.live = FALSE]
      BY DEF Inv, Typed, CacheTyped
    <3>3. server'[k] \in [ver : Nat, live : BOOLEAN] /\ server[k].ver <= server'[k].ver
      <4>1. CASE server'[k] = [ver |-> server[k].ver + 1, live |-> TRUE]
        <5>1. server[k].ver \in Nat
          BY <2>1
        <5> QED BY <2>2, <4>1, <5>1
      <4>2. CASE server'[k] = [server[k] EXCEPT !.live = FALSE]
        <5>1. server[k] \in [ver : Nat, live : BOOLEAN]
          BY <2>1
        <5>2. server'[k].ver = server[k].ver /\ server[k].ver \in Nat
          BY <4>2, <5>1
        <5>3. server'[k] \in [ver : Nat, live : BOOLEAN]
          BY <4>2, <5>1
        <5> QED BY <5>2, <5>3
      <4> QED BY <3>2, <4>1, <4>2
    <3>4. \A q \in Keys : server[q].ver <= server[q].ver
      BY <2>1
    <3> QED BY <2>1, <3>1, <3>3, <3>4
  <2>4. server' \in [Keys -> [ver : Nat, live : BOOLEAN]]
    BY <2>3 DEF Inv, Typed, CacheTyped
  <2> QED BY <1>1, <2>3, <2>4 DEF Newer, Inv, Typed, CacheTyped
<1>3. CallsTyped' /\ EveryCall' /\ \A f \in FlightIds : Waiting(f)' = Waiting(f)
  BY <1>1, CallsStay DEF Flying
<1>4. EveryFlight' /\ EveryReservation'
  BY <1>1, <1>2, <1>3, FlightsStay DEF Present
<1>5. EveryRefresh'
  BY <1>1, <1>2, RefreshStays DEF EveryRefresh, Aside
<1>6. EveryKey'
  <2>1. ASSUME NEW q \in Keys
        PROVE  OfKey(q)'
    <3>1. newest[q] \in Nat /\ server[q].ver \in Nat /\ server'[q].ver \in Nat /\ newest'[q] = newest[q]
      BY <1>1, <1>2 DEF Inv, Typed, CacheTyped
    <3> QED BY <1>1, <1>2, <3>1 DEF Inv, EveryKey, OfKey, Present, Newer
  <2> QED BY <2>1 DEF EveryKey
<1>7. OfStop' /\ Typed'
  BY <1>1, <1>2, <1>3 DEF Inv, OfStop, Drained, callVars, Typed, WorkersTyped, StopTyped
<1> QED BY <1>3, <1>4, <1>5, <1>6, <1>7 DEF Inv

(* Steps that only change the marks of an entry.                           *)
LEMMA Marks ==
  ASSUME Inv, UNCHANGED <<server, newest, reserved, flights, stopVars>>,
         CacheTyped',
         \A k \in Keys : /\ entries'[k].id = entries[k].id /\ entries'[k].gen = entries[k].gen
                         /\ entries'[k].ver = entries[k].ver,
         \A f \in FlightIds : Waiting(f)' = Waiting(f)
  PROVE  /\ EveryFlight' /\ EveryReservation' /\ EveryKey'
         /\ \A r \in RefreshSlots : refreshes'[r] = refreshes[r] => OfRefresh(r)'
<1>1. Newer
  BY DEF Newer, Inv, Typed, CacheTyped
<1>2. EveryFlight' /\ EveryReservation'
  BY <1>1, FlightsStay DEF Present, stopVars
<1>3. EveryKey'
  BY DEF Inv, EveryKey, OfKey, Present
<1>4. ASSUME NEW r \in RefreshSlots, refreshes'[r] = refreshes[r]
      PROVE  OfRefresh(r)'
  BY <1>1, <1>4, RefreshStays DEF Aside
<1> QED BY <1>2, <1>3, <1>4

LEMMA CooldownKeeps == ASSUME Inv, NEW k \in Keys, CooldownEnds(k) PROVE Inv'
<1> USE DEF CooldownEnds, flightVars, refreshVars
<1>1. /\ UNCHANGED <<server, newest, reserved, flights, refreshes, stopVars, callVars>>
  OBVIOUS
<1>2. \A q \in Keys : /\ entries'[q].id = entries[q].id /\ entries'[q].gen = entries[q].gen
                      /\ entries'[q].ver = entries[q].ver
  BY DEF Inv, Typed, CacheTyped, Entries
<1>3. CacheTyped'
  BY DEF Inv, Typed, CacheTyped, Entries
<1>4. CallsTyped' /\ EveryCall' /\ \A f \in FlightIds : Waiting(f)' = Waiting(f)
  BY <1>1, CallsStay DEF Flying, stopVars
<1>5. EveryFlight' /\ EveryReservation' /\ EveryKey' /\ EveryRefresh'
  BY <1>1, <1>2, <1>3, <1>4, Marks DEF EveryRefresh
<1>6. OfStop' /\ Typed'
  BY <1>1, <1>3, <1>4 DEF Inv, OfStop, Drained, callVars, stopVars, Typed, WorkersTyped, StopTyped
<1> QED BY <1>4, <1>5, <1>6 DEF Inv

LEMMA LookupKeeps == ASSUME Inv, NEW c \in Callers, Lookup(c) PROVE Inv'
<1> USE DEF Lookup
<1>1. /\ UNCHANGED <<server, newest, reserved, flights, foreground, stopVars, key, gone, mine, got>>
      /\ pc[c] = "lookup"
  BY DEF flightVars
<1>2. key[c] \in Keys /\ pc[c] \notin Holding /\ mine[c] = NoFlight /\ got[c] = NoResult
  BY <1>1 DEF Inv, EveryCall, OfCall, Returned, Holding
<1>3. PICK where \in {"hit", "missCheck"} : Go(c, where)
  OBVIOUS
<1>4. pc'[c] = where /\ Others(c) /\ CallsTyped'
  BY <1>1, <1>3 DEF Go, Others, Inv, Typed, CallsTyped, PcStates, Returned
<1>5. EveryCall'
  <2>1. OfCall(c)'
    BY <1>1, <1>2, <1>4 DEF OfCall, Returned, Holding, Waits, stopVars
  <2>2. ASSUME NEW d \in Callers \ {c}
        PROVE  OfCall(d)'
    BY <1>1, <1>4 DEF Inv, EveryCall, OfCall, Others, Flying, Waits, stopVars
  <2> QED BY <2>1, <2>2 DEF EveryCall
<1>6. \A f \in FlightIds : Waiting(f)' = Waiting(f)
  <2> SUFFICES ASSUME NEW f \in FlightIds, NEW d \in Callers
               PROVE  d \in Waiting(f)' <=> d \in Waiting(f)
    BY DEF Waiting
  <2>1. CASE d = c
    BY <1>1, <1>4, <2>1 DEF Waiting
  <2>2. CASE d # c
    BY <1>4, <2>2 DEF Waiting, Others
  <2> QED BY <2>1, <2>2
<1>7. Drained /\ closing /\ refreshes' = refreshes => Drained'
  <2> SUFFICES ASSUME Drained, refreshes' = refreshes, NEW d \in Callers
               PROVE  pc'[d] # "directFetch"
    BY <1>1 DEF Drained
  <2>1. CASE d = c
    BY <1>4, <2>1
  <2>2. CASE d # c
    BY <1>4, <2>2 DEF Drained, Others
  <2> QED BY <2>1, <2>2
<1>8. CASE UNCHANGED <<refreshes, entries>>
  <2>1. CacheTyped'
    BY <1>1, <1>8 DEF Inv, Typed, CacheTyped
  <2>2. EveryFlight' /\ EveryReservation' /\ EveryKey' /\ EveryRefresh'
    BY <1>1, <1>6, <1>8, <2>1, Marks DEF EveryRefresh
  <2>3. OfStop' /\ Typed'
    BY <1>1, <1>4, <1>7, <1>8, <2>1 DEF Inv, OfStop, stopVars, Typed, WorkersTyped, StopTyped
  <2> QED BY <1>5, <2>2, <2>3 DEF Inv
<1>9. ASSUME NEW r \in RefreshSlots, Present(key[c]), Refreshable(key[c]),
             refreshes' = [refreshes EXCEPT ![r] = [phase |-> "fetching", key |-> key[c],
               id |-> entries[key[c]].id, gen |-> entries[key[c]].gen, res |-> NoResult]],
             entries' = [entries EXCEPT ![key[c]].refreshing = TRUE]
      PROVE  Inv'
  <2>1. PICK k \in Keys : k = key[c]
    BY <1>2
  <2>2. CacheTyped' /\ \A q \in Keys : /\ entries'[q].id = entries[q].id /\ entries'[q].gen = entries[q].gen
                                       /\ entries'[q].ver = entries[q].ver
    BY <1>1, <1>9, <2>1 DEF Inv, Typed, CacheTyped, Entries
  <2>3. /\ \A q \in RefreshSlots \ {r} : refreshes'[q] = refreshes[q]
        /\ refreshes'[r] = [phase |-> "fetching", key |-> k, id |-> entries[k].id,
                            gen |-> entries[k].gen, res |-> NoResult]
    BY <1>9, <2>1 DEF Inv, Typed, WorkersTyped
  <2>4. entries[k].id \in Nat /\ entries[k].gen \in Nat /\ entries[k].id # 0
    BY <1>9, <2>1 DEF Inv, Typed, CacheTyped, Entries, Present
  <2>5. WorkersTyped'
    <3>1. NoResult \in Answers
      BY DEF NoResult, Answers, Kinds
    <3>2. [phase |-> "fetching", key |-> k, id |-> entries[k].id, gen |-> entries[k].gen, res |-> NoResult]
            \in RefreshStates
      BY <2>4, <3>1 DEF RefreshStates, Phases
    <3> QED BY <1>1, <1>9, <2>1, <3>2 DEF Inv, Typed, WorkersTyped
  <2>6. OfRefresh(r)'
    BY <2>2, <2>3, <2>4 DEF OfRefresh
  <2>7. EveryFlight' /\ EveryReservation' /\ EveryKey' /\ EveryRefresh'
    BY <1>1, <1>6, <2>2, <2>3, <2>6, Marks DEF EveryRefresh
  <2>8. OfStop'
    BY <1>1, <1>9 DEF Refreshable, Inv, OfStop, stopVars
  <2>9. Typed'
    BY <1>1, <1>4, <2>2, <2>5 DEF Inv, Typed, StopTyped, stopVars
  <2> QED BY <1>5, <2>7, <2>8, <2>9 DEF Inv
<1>10. \/ UNCHANGED <<refreshes, entries>>
       \/ Present(key[c]) /\ Refreshable(key[c]) /\ maybeRefreshLocked(key[c])
  BY DEF maybeRefreshLocked
<1> QED BY <1>8, <1>9, <1>10 DEF maybeRefreshLocked

-----------------------------------------------------------------------------
(* Workers.                                                                *)

LEMMA FetchAnswers ==
  ASSUME Inv, NEW k \in Keys, NEW ended \in BOOLEAN, NEW res \in Fetch(k, ended)
  PROVE  /\ res \in Answers /\ res.kind # "none"
         /\ res.kind = "canceled" => ended
         /\ res.kind = "ok" => res.ver = server[k].ver /\ newest[k] <= res.ver /\ res.ver <= server[k].ver
<1>1. server[k].ver \in Nat /\ newest[k] <= server[k].ver
  BY DEF Inv, Typed, CacheTyped, EveryKey, OfKey
<1>2. \/ res = [kind |-> "ok", ver |-> server[k].ver]
      \/ res = [kind |-> "notFound", ver |-> 0]
      \/ res = [kind |-> "error", ver |-> 0]
      \/ ended /\ res = [kind |-> "canceled", ver |-> 0]
  BY DEF Fetch
<1> QED BY <1>1, <1>2 DEF Answers, Kinds

LEMMA FlightFetchKeeps == ASSUME Inv, NEW f \in FlightIds, FlightFetch(f) PROVE Inv'
<1> USE DEF FlightFetch
<1>1. UNCHANGED <<server, cacheVars, reserved, refreshes, stopVars, callVars>> /\ Flying(f)
  BY DEF refreshVars, Flying
<1>2. Owns(f) /\ Counted(f) /\ Landed(f) /\ flights[f].abandoned \in BOOLEAN /\ canceled \in BOOLEAN
  BY <1>1 DEF Inv, EveryFlight, OfFlight, Typed, WorkersTyped, FlightStates, StopTyped
<1>3. PICK res \in Fetch(flights[f].key, flights[f].abandoned \/ canceled) :
        flights' = [flights EXCEPT ![f].phase = "fetched", ![f].res = res]
  OBVIOUS
<1>4. PICK k \in Keys : flights[f].key = k
  BY <1>2 DEF Owns
<1>5. /\ res \in Answers /\ res.kind # "none" /\ (res.kind = "canceled" => flights[f].abandoned \/ canceled)
      /\ res.kind = "ok" => newest[k] <= res.ver /\ res.ver <= server[k].ver
  <2>1. (flights[f].abandoned \/ canceled) \in BOOLEAN
    OBVIOUS
  <2> QED BY <1>3, <1>4, <2>1, FetchAnswers
<1>6. /\ \A g \in FlightIds \ {f} : flights'[g] = flights[g]
      /\ flights'[f] = [flights[f] EXCEPT !.phase = "fetched", !.res = res]
  BY <1>3 DEF Inv, Typed, WorkersTyped
<1>7. /\ flights'[f].key = flights[f].key /\ flights'[f].waiters = flights[f].waiters
      /\ flights'[f].abandoned = flights[f].abandoned /\ flights'[f].phase = "fetched"
      /\ flights'[f].res = res /\ flights'[f] \in FlightStates
  BY <1>5, <1>6 DEF Inv, Typed, WorkersTyped, FlightStates, Phases
<1>8. WorkersTyped'
  BY <1>1, <1>3, <1>7 DEF Inv, Typed, WorkersTyped
<1>9. \A g \in FlightIds : (Flying(g)' <=> Flying(g)) /\ flights'[g].key = flights[g].key
  BY <1>1, <1>6, <1>7 DEF Flying
<1>10. CallsTyped' /\ EveryCall' /\ \A g \in FlightIds : Waiting(g)' = Waiting(g)
  BY <1>1, <1>9, CallsStay DEF stopVars
<1>11. EveryFlight'
  <2>1. Owns(f)' /\ Counted(f)' /\ Landed(f)'
    BY <1>1, <1>2, <1>4, <1>5, <1>7, <1>10 DEF Owns, Counted, Landed, Present, cacheVars, stopVars
  <2>2. ASSUME NEW g \in FlightIds \ {f}, Flying(g)'
        PROVE  Owns(g)' /\ Counted(g)' /\ Landed(g)'
    <3>1. Owns(g) /\ Counted(g) /\ Landed(g)
      BY <1>9, <2>2 DEF Inv, EveryFlight, OfFlight
    <3>2. flights'[g] = flights[g] /\ Waiting(g)' = Waiting(g)
      BY <1>6, <1>10
    <3> QED BY <1>1, <3>1, <3>2 DEF Owns, Counted, Landed, Present, cacheVars, stopVars
  <2> QED BY <2>1, <2>2 DEF EveryFlight, OfFlight
<1>12. EveryReservation'
  BY <1>1, <1>9 DEF Inv, Typed, WorkersTyped, EveryReservation, OfReservation
<1>13. EveryKey' /\ EveryRefresh'
  BY <1>1 DEF Inv, EveryKey, OfKey, Present, EveryRefresh, OfRefresh, StillInstalled, cacheVars
<1>14. OfStop' /\ Typed'
  <2>1. ~Drained
    BY <1>1 DEF Drained, Flying
  <2> QED BY <1>1, <1>8, <1>10, <2>1
          DEF Inv, OfStop, Typed, CacheTyped, StopTyped, cacheVars, stopVars
<1> QED BY <1>10, <1>11, <1>12, <1>13, <1>14 DEF Inv

\* What a flight's commit does to the cache, whatever its fetch came to.
Commits(k) ==
  /\ CacheTyped' /\ OfKey(k)'
  /\ \A q \in Keys \ {k} : entries'[q] \in {entries[q], NoEntry} /\ newest'[q] = newest[q]
  /\ \A r \in RefreshSlots, q \in Keys : refreshes[r].phase # "free" => Aside(q, refreshes[r].id)

LEMMA FlightCommits ==
  ASSUME Inv, NEW f \in FlightIds, NEW k \in Keys, k = flights[f].key, Flying(f), runFlight(f)
  PROVE  Commits(k)
<1> USE DEF runFlight
<1>1. Landed(f) /\ flights[f].phase = "fetched" /\ UNCHANGED <<server, refreshVars>>
  BY DEF Inv, EveryFlight, OfFlight
<1>2. CASE flights[f].res.kind = "ok"
  <2>1. PICK ver \in Nat : ver = flights[f].res.ver
    BY DEF Inv, Typed, WorkersTyped, FlightStates, Answers
  <2>2. PICK victim : /\ entries' = [q \in Keys |->
                            IF q = k THEN [NoEntry EXCEPT !.id = FreshId, !.gen = 1, !.ver = ver]
                            ELSE IF q = victim THEN NoEntry ELSE entries[q]]
                      /\ newest' = [newest EXCEPT ![k] = IF @ > ver THEN @ ELSE ver]
    <3> DEFINE order == <<k>> \o lru
               last == IF Len(order) > MaxEntries THEN order[Len(order)] ELSE NoKey
    <3>1. storeLocked(k, ver)
      BY <1>2, <2>1
    <3>2. /\ entries' = [q \in Keys |->
                IF q = k THEN [NoEntry EXCEPT !.id = FreshId, !.gen = 1, !.ver = ver]
                ELSE IF q = last THEN NoEntry ELSE entries[q]]
          /\ newest' = [newest EXCEPT ![k] = IF @ > ver THEN @ ELSE ver]
      BY <3>1 DEF storeLocked
    <3> HIDE DEF last
    <3> QED BY <3>2
  <2>3. /\ FreshId \in Nat \ {0} /\ \A r \in RefreshSlots : refreshes[r].id # FreshId
    BY FreshIsFresh DEF Inv
  <2>4. /\ entries'[k] = [NoEntry EXCEPT !.id = FreshId, !.gen = 1, !.ver = ver]
        /\ entries'[k].id = FreshId /\ entries'[k].ver = ver /\ entries'[k] \in Entries
    BY <2>2, <2>3 DEF NoEntry, Entries
  <2>5. \A q \in Keys \ {k} : entries'[q] \in {entries[q], NoEntry} /\ newest'[q] = newest[q]
    BY <2>2 DEF Inv, Typed, CacheTyped
  <2>6. newest[k] <= ver /\ ver <= server[k].ver /\ newest[k] \in Nat /\ server[k].ver \in Nat
    BY <1>1, <1>2, <2>1 DEF Landed, Inv, Typed, CacheTyped
  <2>7. newest'[k] = ver
    <3>1. newest'[k] = IF newest[k] > ver THEN newest[k] ELSE ver
      BY <2>2 DEF Inv, Typed, CacheTyped
    <3> QED BY <2>6, <3>1
  <2>8. CacheTyped'
    <3>1. NoEntry \in Entries
      BY DEF NoEntry, Entries
    <3>2. \A q \in Keys : entries'[q] \in Entries /\ newest'[q] \in Nat
      BY <2>4, <2>5, <2>7, <3>1 DEF Inv, Typed, CacheTyped
    <3>3. entries' \in [Keys -> Entries] /\ newest' \in [Keys -> Nat]
      BY <2>2, <3>2 DEF Inv, Typed, CacheTyped
    <3> QED BY <1>1, <3>3 DEF Inv, Typed, CacheTyped
  <2>9. OfKey(k)'
    BY <1>1, <2>4, <2>6, <2>7 DEF OfKey
  <2>10. ASSUME NEW r \in RefreshSlots, NEW q \in Keys, refreshes[r].phase # "free"
         PROVE  Aside(q, refreshes[r].id)
    <3>1. refreshes[r].id # 0
      BY <2>10 DEF Inv, EveryRefresh, OfRefresh
    <3>2. CASE q = k
      BY <2>3, <2>4, <3>2 DEF Aside
    <3>3. CASE q # k
      BY <2>5, <3>1, <3>3 DEF Aside, NoEntry
    <3> QED BY <3>2, <3>3
  <2> QED BY <2>5, <2>8, <2>9, <2>10 DEF Commits
<1>3. CASE flights[f].res.kind # "ok"
  BY <1>1, <1>3 DEF Commits, cacheVars, Inv, Typed, CacheTyped, EveryKey, OfKey, Present, Aside
<1> QED BY <1>2, <1>3

LEMMA RunFlightKeeps == ASSUME Inv, NEW f \in FlightIds, runFlight(f) PROVE Inv'
<1> USE DEF runFlight
<1>1. UNCHANGED <<server, refreshVars, stopVars, pc, key, gone>> /\ Flying(f) /\ flights[f].phase = "fetched"
  BY DEF Flying
<1>2. Owns(f) /\ Counted(f) /\ Landed(f)
  BY <1>1 DEF Inv, EveryFlight, OfFlight
<1>3. PICK k \in Keys : k = flights[f].key
  BY <1>2 DEF Owns
<1>4. Commits(k)
  BY <1>1, <1>3, FlightCommits
<1>5. /\ ~Flying(f)' /\ reserved'[k] = NoFlight
      /\ \A g \in FlightIds \ {f} : flights'[g] = flights[g]
      /\ \A q \in Keys \ {k} : reserved'[q] = reserved[q]
  BY <1>3 DEF Flying, IdleFlight, Unreserve, Inv, Typed, WorkersTyped
<1>6. WorkersTyped'
  <2>1. NoResult \in Answers
    BY DEF NoResult, Answers, Kinds
  <2>2. IdleFlight \in FlightStates
    BY <2>1 DEF IdleFlight, FlightStates, Phases
  <2> QED BY <1>1, <1>3, <2>2 DEF Unreserve, Inv, Typed, WorkersTyped, refreshVars
<1>7. CallsTyped'
  <2>1. flights[f].res \in Answers
    BY DEF Inv, Typed, WorkersTyped, FlightStates
  <2> QED BY <1>1, <2>1 DEF Inv, Typed, CallsTyped
<1>8. \A d \in Callers : /\ mine[d] # f => mine'[d] = mine[d] /\ got'[d] = got[d]
                         /\ mine[d] = f => mine'[d] = NoFlight /\ got'[d] = flights[f].res
  OBVIOUS
<1>9. EveryCall'
  <2>1. ASSUME NEW d \in Callers, mine[d] = f
        PROVE  OfCall(d)'
    <3>1. mine'[d] = NoFlight /\ got'[d] = flights[f].res /\ got'[d].kind # "none"
      BY <1>1, <1>2, <1>8, <2>1 DEF Landed
    <3>2. pc[d] \in Holding /\ OfCall(d)
      BY <2>1, KeyAssumption DEF Inv, EveryCall, OfCall, FlightIds
    <3>3. Waits(d) /\ got'[d].kind = "canceled" => canceled
      BY <1>1, <1>2, <2>1, <3>1 DEF Landed, Counted, Waiting, Waits
    <3> QED BY <1>1, <3>1, <3>2, <3>3 DEF OfCall, Waits, stopVars
  <2>2. ASSUME NEW d \in Callers, mine[d] # f
        PROVE  OfCall(d)'
    <3>1. mine'[d] = mine[d] /\ got'[d] = got[d] /\ OfCall(d)
      BY <1>8, <2>2 DEF Inv, EveryCall
    <3>2. ASSUME NEW g \in FlightIds, mine[d] = g, Flying(g)
          PROVE  Flying(g)'
      BY <1>5, <2>2, <3>2 DEF Flying
    <3> QED BY <1>1, <3>1, <3>2 DEF OfCall, Waits, Flying, stopVars
  <2> QED BY <2>1, <2>2 DEF EveryCall
<1>10. EveryFlight'
  <2>1. ASSUME NEW g \in FlightIds, Flying(g)'
        PROVE  Owns(g)' /\ Counted(g)' /\ Landed(g)'
    <3>1. g # f /\ flights'[g] = flights[g] /\ Flying(g)
      BY <1>5, <2>1 DEF Flying
    <3>2. Owns(g) /\ Counted(g) /\ Landed(g)
      BY <3>1 DEF Inv, EveryFlight, OfFlight
    <3>3. PICK q \in Keys : flights[g].key = q
      BY <3>2 DEF Owns
    <3>4. q # k
      BY <1>2, <1>3, <3>1, <3>2, <3>3 DEF Owns
    <3>5. reserved'[q] = g /\ newest'[q] = newest[q] /\ ~Present(q)'
      BY <1>4, <1>5, <3>2, <3>3, <3>4 DEF Commits, Owns, Present, NoEntry
    <3>6. Waiting(g)' = Waiting(g)
      <4> SUFFICES ASSUME NEW d \in Callers
                   PROVE  mine'[d] = g <=> mine[d] = g
        BY <1>1 DEF Waiting
      <4> QED BY <1>8, <3>1, KeyAssumption DEF FlightIds
    <3>7. Owns(g)' /\ Counted(g)'
      BY <3>1, <3>2, <3>3, <3>5, <3>6 DEF Owns, Counted
    <3>8. Landed(g)'
      BY <1>1, <3>1, <3>2, <3>3, <3>5 DEF Landed, stopVars
    <3> QED BY <3>7, <3>8
  <2> QED BY <2>1 DEF EveryFlight, OfFlight
<1>11. EveryReservation'
  <2>1. ASSUME NEW q \in Keys, q # k
        PROVE  OfReservation(q)'
    <3>1. ASSUME NEW g \in FlightIds, reserved[q] = g
          PROVE  g # f /\ Flying(g)' /\ flights'[g].key = q
      <4>1. Flying(g) /\ flights[g].key = q
        BY <3>1, KeyAssumption DEF Inv, EveryReservation, OfReservation, FlightIds
      <4> QED BY <1>3, <1>5, <2>1, <4>1 DEF Flying
    <3>2. reserved[q] \in FlightIds \cup {NoFlight} /\ reserved'[q] = reserved[q]
      BY <1>5, <2>1 DEF Inv, Typed, WorkersTyped
    <3> QED BY <3>1, <3>2 DEF OfReservation, Flying
  <2>2. OfReservation(k)'
    BY <1>5 DEF OfReservation
  <2> QED BY <2>1, <2>2 DEF EveryReservation
<1>12. EveryKey'
  <2>1. ASSUME NEW q \in Keys \ {k}
        PROVE  OfKey(q)'
    <3>1. entries'[q] \in {entries[q], NoEntry} /\ newest'[q] = newest[q] /\ OfKey(q)
      BY <1>4 DEF Commits, Inv, EveryKey
    <3> QED BY <1>1, <3>1 DEF OfKey, Present, NoEntry
  <2> QED BY <1>4, <2>1 DEF Commits, EveryKey
<1>13. EveryRefresh'
  <2>1. Newer
    BY <1>1 DEF Newer, Inv, Typed, CacheTyped
  <2> QED BY <1>1, <1>4, <2>1, RefreshStays DEF Commits, EveryRefresh, refreshVars
<1>14. OfStop' /\ Typed'
  <2>1. ~Drained
    BY <1>1 DEF Drained, Flying
  <2> QED BY <1>1, <1>4, <1>6, <1>7, <2>1
          DEF Inv, OfStop, Commits, Typed, StopTyped, stopVars
<1> QED BY <1>9, <1>10, <1>11, <1>12, <1>13, <1>14 DEF Inv

LEMMA RefreshFetchKeeps == ASSUME Inv, NEW r \in RefreshSlots, RefreshFetch(r) PROVE Inv'
<1> USE DEF RefreshFetch
<1>1. UNCHANGED <<server, cacheVars, reserved, flights, stopVars, callVars>> /\ refreshes[r].phase = "fetching"
  BY DEF flightVars
<1>2. PICK k \in Keys : refreshes[r].key = k
  BY <1>1 DEF Inv, EveryRefresh, OfRefresh
<1>3. PICK res \in Fetch(k, canceled) :
        refreshes' = [refreshes EXCEPT ![r].phase = "fetched", ![r].res = res]
  BY <1>2
<1>4. /\ res \in Answers
      /\ res.kind = "ok" => newest[k] <= res.ver /\ res.ver <= server[k].ver
  <2>1. canceled \in BOOLEAN
    BY DEF Inv, Typed, StopTyped
  <2> QED BY <1>3, <2>1, FetchAnswers
<1>5. /\ \A q \in RefreshSlots \ {r} : refreshes'[q] = refreshes[q]
      /\ refreshes'[r] = [refreshes[r] EXCEPT !.phase = "fetched", !.res = res]
  BY <1>3 DEF Inv, Typed, WorkersTyped
<1>6. /\ refreshes'[r].key = k /\ refreshes'[r].id = refreshes[r].id /\ refreshes'[r].gen = refreshes[r].gen
      /\ refreshes'[r].res = res /\ refreshes'[r] \in RefreshStates
  BY <1>2, <1>4, <1>5 DEF Inv, Typed, WorkersTyped, RefreshStates, Phases
<1>7. WorkersTyped'
  BY <1>1, <1>3, <1>6 DEF Inv, Typed, WorkersTyped
<1>8. OfRefresh(r)'
  <2>1. OfRefresh(r)
    BY DEF Inv, EveryRefresh
  <2> QED BY <1>1, <1>2, <1>4, <1>6, <2>1 DEF OfRefresh, cacheVars
<1>9. CallsTyped' /\ EveryCall' /\ \A f \in FlightIds : Waiting(f)' = Waiting(f)
  BY <1>1, CallsStay DEF Flying, stopVars
<1>10. CacheTyped'
  BY <1>1 DEF Inv, Typed, CacheTyped, cacheVars
<1>11. EveryFlight' /\ EveryReservation' /\ EveryKey' /\ EveryRefresh'
  BY <1>1, <1>5, <1>8, <1>9, <1>10, Marks DEF EveryRefresh, cacheVars
<1>12. OfStop' /\ Typed'
  <2>1. ~Drained
    BY <1>1 DEF Drained
  <2> QED BY <1>1, <1>7, <1>9, <1>10, <2>1 DEF Inv, OfStop, Typed, StopTyped, stopVars
<1> QED BY <1>9, <1>11, <1>12 DEF Inv

\* What a refresh's commit does to the cache, whatever its fetch came to.
Refreshed ==
  /\ CacheTyped' /\ EveryKey'
  /\ \A q \in Keys, id \in Nat \ {0} : Aside(q, id)
  /\ \A q \in Keys : ~Present(q) => ~Present(q)' /\ newest'[q] = newest[q]

LEMMA OneEntry ==
  ASSUME Inv, NEW k \in Keys, Present(k), NEW e \in Entries, NEW v \in Nat, UNCHANGED server,
         entries' = [entries EXCEPT ![k] = e], newest' = [newest EXCEPT ![k] = v],
         v <= server[k].ver, e.id # 0 => e.ver = v,
         \/ e.id = 0
         \/ e.id = entries[k].id /\ e.gen > entries[k].gen
         \/ e.id = entries[k].id /\ e.gen = entries[k].gen /\ v = newest[k]
  PROVE  Refreshed
<1>1. /\ entries'[k] = e /\ newest'[k] = v
      /\ \A q \in Keys \ {k} : entries'[q] = entries[q] /\ newest'[q] = newest[q]
  BY DEF Inv, Typed, CacheTyped
<1>2. CacheTyped'
  BY DEF Inv, Typed, CacheTyped
<1>3. OfKey(k)' /\ \A id \in Nat \ {0} : Aside(k, id)
  BY <1>1 DEF OfKey, Present, Aside
<1>4. \A q \in Keys \ {k} : OfKey(q)' /\ \A id \in Nat \ {0} : Aside(q, id)
  BY <1>1 DEF Inv, EveryKey, OfKey, Present, Aside
<1>5. \A q \in Keys : ~Present(q) => ~Present(q)' /\ newest'[q] = newest[q]
  BY <1>1 DEF Present
<1>6. EveryKey'
  BY <1>3, <1>4 DEF EveryKey
<1> QED BY <1>2, <1>3, <1>4, <1>5, <1>6 DEF Refreshed

LEMMA Regenerated ==
  ASSUME NEW e \in Entries, NEW ver \in Nat, NEW gen \in Nat
  PROVE  [e EXCEPT !.refreshing = FALSE, !.ver = ver, !.gen = gen] \in Entries
BY DEF Entries

LEMMA RefreshCommits ==
  ASSUME Inv, NEW r \in RefreshSlots, NEW k \in Keys, refreshes[r].key = k, refresh(r)
  PROVE  Refreshed
<1> USE DEF refresh
<1>1. UNCHANGED server /\ refreshes[r].phase = "fetched" /\ OfRefresh(r)
  BY DEF Inv, EveryRefresh
<1>2. /\ OfKey(k) /\ entries[k] \in Entries /\ newest[k] \in Nat /\ server[k].ver \in Nat
      /\ refreshes[r].res.ver \in Nat
  BY DEF Inv, EveryKey, Typed, CacheTyped, WorkersTyped, RefreshStates, Answers
<1>3. ASSUME UNCHANGED newest
      PROVE  newest' = [newest EXCEPT ![k] = newest[k]]
  BY <1>3 DEF Inv, Typed, CacheTyped
<1>4. ASSUME StillInstalled(r)
      PROVE  Present(k) /\ entries[k].ver = newest[k] /\ newest[k] <= server[k].ver
  BY <1>1, <1>2, <1>4 DEF StillInstalled, OfRefresh, OfKey, Present
<1>5. CASE ~StillInstalled(r) /\ UNCHANGED <<cacheVars, diags>>
  BY <1>1, <1>5 DEF Refreshed, Inv, Typed, CacheTyped, EveryKey, OfKey, Present, Aside, cacheVars
<1>6. CASE StillInstalled(r) /\ refreshes[r].res.kind = "ok"
  <2>1. PICK ver \in Nat : ver = refreshes[r].res.ver
    BY <1>2
  <2>2. newest[k] <= ver /\ ver <= server[k].ver
    BY <1>1, <1>6, <2>1 DEF OfRefresh
  <2>3. newest' = [newest EXCEPT ![k] = IF newest[k] > ver THEN newest[k] ELSE ver]
    BY <1>6, <2>1
  <2>4. (IF newest[k] > ver THEN newest[k] ELSE ver) = ver
    BY <1>2, <2>2
  <2>5. entries[k].gen \in Nat /\ entries[k].gen + 1 \in Nat
    BY <1>2 DEF Entries
  <2>6. PICK gen \in Nat : gen = entries[k].gen + 1
    BY <2>5
  <2>7. PICK e : e = [entries[k] EXCEPT !.refreshing = FALSE, !.ver = ver, !.gen = gen]
    OBVIOUS
  <2>8. e \in Entries /\ e.id = entries[k].id /\ e.ver = ver /\ e.gen > entries[k].gen
    <3>1. e \in Entries
      BY <1>2, <2>5, <2>6, <2>7, Regenerated
    <3>2. e.id = entries[k].id /\ e.ver = ver /\ e.gen = gen
      BY <1>2, <2>7 DEF Entries
    <3> QED BY <2>5, <2>6, <3>1, <3>2
  <2>9. entries' = [entries EXCEPT ![k] = e]
    BY <1>6, <2>1, <2>6, <2>7
  <2> QED BY <1>1, <1>4, <1>6, <2>2, <2>3, <2>4, <2>8, <2>9, OneEntry
<1>7. CASE StillInstalled(r) /\ refreshes[r].res.kind = "notFound"
  <2>1. NoEntry \in Entries /\ NoEntry.id = 0
    BY DEF NoEntry, Entries
  <2> QED BY <1>1, <1>2, <1>3, <1>4, <1>7, <2>1, OneEntry
<1>8. CASE StillInstalled(r) /\ refreshes[r].res.kind \in {"error", "canceled"}
  <2>1. PICK e \in {[entries[k] EXCEPT !.refreshing = FALSE], CoolDown(entries[k])} :
          entries' = [entries EXCEPT ![k] = e]
    BY <1>8
  <2>2. e \in Entries /\ e.id = entries[k].id /\ e.ver = entries[k].ver /\ e.gen = entries[k].gen
    BY <1>2, <2>1 DEF CoolDown, Entries
  <2>3. newest' = [newest EXCEPT ![k] = newest[k]]
    BY <1>3, <1>8
  <2>4. Present(k) /\ newest[k] <= server[k].ver /\ e.ver = newest[k]
    BY <1>4, <1>8, <2>2
  <2> QED BY <1>1, <1>2, <2>1, <2>2, <2>3, <2>4, OneEntry
<1> QED BY <1>5, <1>6, <1>7, <1>8

LEMMA RefreshKeeps == ASSUME Inv, NEW r \in RefreshSlots, refresh(r) PROVE Inv'
<1>1. /\ UNCHANGED <<server, reserved, flights, stopVars, callVars>>
      /\ refreshes[r].phase = "fetched" /\ EndRefresh(r)
  BY DEF refresh, flightVars
<1>2. PICK k \in Keys : refreshes[r].key = k
  BY <1>1 DEF Inv, EveryRefresh, OfRefresh
<1>3. Refreshed
  BY <1>2, RefreshCommits
<1>4. /\ \A q \in RefreshSlots \ {r} : refreshes'[q] = refreshes[q]
      /\ refreshes'[r] = IdleRefresh
  BY <1>1 DEF EndRefresh, Inv, Typed, WorkersTyped
<1>5. WorkersTyped'
  <2>1. NoResult \in Answers
    BY DEF NoResult, Answers, Kinds
  <2>2. IdleRefresh \in RefreshStates
    BY <2>1 DEF IdleRefresh, RefreshStates, Phases
  <2> QED BY <1>1, <2>2 DEF EndRefresh, Inv, Typed, WorkersTyped
<1>6. CallsTyped' /\ EveryCall' /\ \A f \in FlightIds : Waiting(f)' = Waiting(f)
  BY <1>1, CallsStay DEF Flying, stopVars
<1>7. Newer
  BY <1>1 DEF Newer, Inv, Typed, CacheTyped
<1>8. EveryFlight' /\ EveryReservation'
  BY <1>1, <1>3, <1>6, <1>7, FlightsStay DEF Refreshed, stopVars
<1>9. EveryRefresh'
  <2>1. OfRefresh(r)'
    BY <1>4 DEF OfRefresh, IdleRefresh
  <2>2. ASSUME NEW q \in RefreshSlots \ {r}
        PROVE  OfRefresh(q)'
    <3>1. refreshes[q].phase # "free" => refreshes[q].id \in Nat \ {0}
      BY DEF Inv, EveryRefresh, OfRefresh, Typed, WorkersTyped, RefreshStates
    <3> QED BY <1>3, <1>4, <1>7, <3>1, RefreshStays DEF Refreshed
  <2> QED BY <2>1, <2>2 DEF EveryRefresh
<1>10. OfStop' /\ Typed'
  <2>1. ~Drained
    BY <1>1 DEF Drained
  <2> QED BY <1>1, <1>3, <1>5, <1>6, <2>1
          DEF Inv, OfStop, Refreshed, Typed, StopTyped, stopVars
<1> QED BY <1>3, <1>6, <1>8, <1>9, <1>10 DEF Inv, Refreshed

-----------------------------------------------------------------------------
LEMMA StopKeeps == ASSUME Inv, shutdown PROVE Inv'
<1> USE DEF shutdown, BeginShutdown, CancelLifecycle, ShutdownOk, ShutdownExpire
<1>1. /\ UNCHANGED <<server, cacheVars, reserved, flights, refreshes, callVars>>
      /\ closing => closing' /\ closing' \in BOOLEAN
      /\ canceled => canceled' /\ canceled' \in BOOLEAN
  BY DEF flightVars, refreshVars, Inv, Typed, StopTyped
<1>2. CallsTyped' /\ EveryCall' /\ \A f \in FlightIds : Waiting(f)' = Waiting(f)
  BY <1>1, CallsStay DEF Flying
<1>3. CacheTyped' /\ Newer
  BY <1>1 DEF Newer, Inv, Typed, CacheTyped, cacheVars
<1>4. EveryFlight' /\ EveryReservation'
  BY <1>1, <1>2, <1>3, FlightsStay DEF Present, cacheVars
<1>5. EveryKey' /\ EveryRefresh'
  BY <1>1 DEF Inv, EveryKey, OfKey, Present, EveryRefresh, OfRefresh, StillInstalled, cacheVars
<1>6. OfStop'
  BY <1>1 DEF Inv, OfStop, Drained, callVars
<1>7. Typed'
  BY <1>1, <1>2, <1>3 DEF Inv, Typed, WorkersTyped, StopTyped
<1> QED BY <1>2, <1>4, <1>5, <1>6, <1>7 DEF Inv

LEMMA StutterKeeps ==
  ASSUME Inv, UNCHANGED <<server, cacheVars, flightVars, refreshes, stopVars, callVars>>
  PROVE  Inv'
<1> USE DEF cacheVars, flightVars, stopVars, callVars
<1>1. Typed' /\ OfStop'
  BY DEF Inv, Typed, CacheTyped, WorkersTyped, CallsTyped, StopTyped, OfStop, Drained
<1>2. CallsTyped' /\ EveryCall' /\ \A f \in FlightIds : Waiting(f)' = Waiting(f)
  BY CallsStay DEF Flying
<1>3. Newer
  BY DEF Newer, Inv, Typed, CacheTyped
<1>4. EveryFlight' /\ EveryReservation'
  BY <1>1, <1>2, <1>3, FlightsStay DEF Present, Typed
<1>5. EveryKey' /\ EveryRefresh'
  BY DEF Inv, EveryKey, OfKey, Present, EveryRefresh, OfRefresh, StillInstalled
<1> QED BY <1>1, <1>2, <1>4, <1>5 DEF Inv

LEMMA StepKeeps == Inv /\ [Next]_vars => Inv'
<1> SUFFICES ASSUME Inv, [Next]_vars
             PROVE  Inv'
  OBVIOUS
<1>1. ASSUME NEW k \in Keys, Publish(k) \/ Unpublish(k) \/ CooldownEnds(k)
      PROVE  Inv'
  BY <1>1, ServerKeeps, CooldownKeeps
<1>2. ASSUME NEW c \in Callers, Begin(c) \/ ContextEnds(c) \/ get(c)
      PROVE  Inv'
  BY <1>2, BeginKeeps, ContextEndsKeeps, LookupKeeps, ChecksKeep, AdmitKeeps, WaitOutKeeps,
     AwaitKeeps, LeaveKeeps DEF get
<1>3. ASSUME NEW f \in FlightIds, FlightFetch(f) \/ runFlight(f)
      PROVE  Inv'
  BY <1>3, FlightFetchKeeps, RunFlightKeeps
<1>4. ASSUME NEW r \in RefreshSlots, RefreshFetch(r) \/ refresh(r)
      PROVE  Inv'
  BY <1>4, RefreshFetchKeeps, RefreshKeeps
<1>5. CASE shutdown
  BY <1>5, StopKeeps
<1>6. CASE DiagDone
  BY <1>6, StutterKeeps DEF DiagDone
<1>7. CASE UNCHANGED vars
  BY <1>7, StutterKeeps DEF vars, refreshVars
<1> QED BY <1>1, <1>2, <1>3, <1>4, <1>5, <1>6, <1>7 DEF Next

-----------------------------------------------------------------------------
(* Each worker and each call is where the cache, the reservations and the  *)
(* server's history say it is: for any number of keys, callers and slots.  *)
THEOREM CacheHolds == Spec => []Inv
BY InitHolds, StepKeeps, PTL DEF Spec

(* What the cache holds for a key is the newest version it ever held, in   *)
(* whatever order slow refreshes and flights commit after evictions.       *)
THEOREM NeverBackward == Spec => []NewestWins
<1>1. Inv => NewestWins
  BY DEF Inv, EveryKey, OfKey, NewestWins
<1> QED BY <1>1, CacheHolds, PTL

(* A caller is told it was canceled by another only when the client itself *)
(* was, and its own cancellation wins over any result.                     *)
THEOREM OwnCancellation == Spec => []CancellationIsOwn
<1>1. Inv => CancellationIsOwn
  BY DEF Inv, EveryCall, OfCall, CancellationIsOwn, NoForeignCancel, CancelWins
<1> QED BY <1>1, CacheHolds, PTL

(* One flight runs per key and counts exactly the callers that have not    *)
(* left it; it is abandoned exactly when none is left.                     *)
THEOREM FlightsCounted == Spec => []FlightAccounting
<1>1. Inv => FlightAccounting
  BY DEF Inv, EveryFlight, OfFlight, Owns, Counted, EveryReservation, OfReservation, Flying, FlightAccounting
<1> QED BY <1>1, CacheHolds, PTL

(* Once Shutdown has returned nil nothing fetches, then or later.          *)
THEOREM DrainHolds == Spec => []ShutdownDrains
<1>1. Inv => ShutdownDrains
  BY DEF Inv, OfStop, ShutdownDrains
<1> QED BY <1>1, CacheHolds, PTL

-----------------------------------------------------------------------------
(* The books.  What the invariant above leaves out is the size of what is  *)
(* kept, the recency list, the entries' refreshing marks and the two       *)
(* counters; each is kept by the steps that touch it, given that the       *)
(* invariant holds before and after.                                       *)

Stops == {"idle", "cancel", "drain", "ok", "expired"}

Published == \A k \in Keys : server[k].ver \in 1..MaxVersion
AbsentIsEmpty == \A k \in Keys : ~Present(k) => entries[k] = NoEntry
FreeIsIdle == \A f \in FlightIds : flights[f].res.ver <= MaxVersion /\ (~Flying(f) => flights[f] = IdleFlight)
RefreshedSmall == \A r \in RefreshSlots : refreshes[r].res.ver <= MaxVersion
GotSmall == \A c \in Callers : got[c].ver <= MaxVersion
Limited == calls \in [Callers -> 0..MaxCalls] /\ diags \in 0..DiagSlots /\ stopper \in Stops

Sized == Published /\ AbsentIsEmpty /\ FreeIsIdle /\ RefreshedSmall /\ GotSmall /\ Limited

LEMMA SmallAnswer ==
  ASSUME Inv, Published, NEW k \in Keys, NEW ended \in BOOLEAN, NEW res \in Fetch(k, ended)
  PROVE  res.ver <= MaxVersion
<1>1. server[k].ver \in Nat /\ server[k].ver <= MaxVersion
  BY DEF Published, Inv, Typed, CacheTyped
<1>2. \/ res = [kind |-> "ok", ver |-> server[k].ver]
      \/ res = [kind |-> "notFound", ver |-> 0]
      \/ res = [kind |-> "error", ver |-> 0]
      \/ ended /\ res = [kind |-> "canceled", ver |-> 0]
  BY DEF Fetch
<1> QED BY <1>1, <1>2, BoundsAssumption

LEMMA PublishedStep == ASSUME Inv, Published, [Next]_vars PROVE Published'
<1>1. CASE UNCHANGED server
  BY <1>1 DEF Published
<1>2. ASSUME NEW k \in Keys, Publish(k) \/ Unpublish(k)
      PROVE  Published'
  <2>1. ASSUME NEW q \in Keys
        PROVE  server'[q].ver \in 1..MaxVersion
    BY <1>2, BoundsAssumption DEF Published, Publish, Unpublish, Inv, Typed, CacheTyped
  <2> QED BY <2>1 DEF Published
<1> QED BY <1>1, <1>2 DEF Next, vars, CooldownEnds, Begin, ContextEnds, get, Lookup, MissCheck, Admit, Refused,
     WaitOut, AwaitFlight, leaveFlight, DirectCheck, DirectAdmit, DirectFetch, FlightFetch, runFlight,
     RefreshFetch, refresh, shutdown, BeginShutdown, CancelLifecycle, ShutdownOk, ShutdownExpire, DiagDone

LEMMA LimitedStep == ASSUME Inv, Limited, [Next]_vars PROVE Limited'
<1>1. CASE UNCHANGED <<calls, diags, stopper>>
  BY <1>1 DEF Limited
<1>2. ASSUME NEW c \in Callers, Begin(c)
      PROVE  Limited'
  BY <1>2, BoundsAssumption DEF Limited, Begin, refreshVars, stopVars
<1>3. ASSUME NEW r \in RefreshSlots, refresh(r)
      PROVE  Limited'
  BY <1>3, CapsAssumption DEF Limited, refresh, reportAsync, stopVars, callVars
<1>4. CASE DiagDone
  BY <1>4, CapsAssumption DEF Limited, DiagDone, stopVars, callVars
<1>5. CASE shutdown
  BY <1>5 DEF Limited, shutdown, BeginShutdown, CancelLifecycle, ShutdownOk, ShutdownExpire, Stops, refreshVars, callVars
<1> QED BY <1>1, <1>2, <1>3, <1>4, <1>5 DEF Next, vars, Publish, Unpublish, CooldownEnds, ContextEnds, get, Lookup,
     MissCheck, Admit, Refused, WaitOut, AwaitFlight, leaveFlight, DirectCheck, DirectAdmit, DirectFetch, FlightFetch,
     runFlight, RefreshFetch, refreshVars, stopVars, callVars

\* Which steps touch the entries and the recency list.
LEMMA EntrySteps ==
  ASSUME [Next]_vars
  PROVE  \/ UNCHANGED cacheVars
         \/ \E k \in Keys : CooldownEnds(k)
         \/ \E c \in Callers : Lookup(c)
         \/ \E f \in FlightIds : runFlight(f)
         \/ \E r \in RefreshSlots : refresh(r)
BY DEF Next, vars, Publish, Unpublish, Begin, ContextEnds, get, MissCheck, Admit, Refused,
     WaitOut, AwaitFlight, leaveFlight, DirectCheck, DirectAdmit, DirectFetch, FlightFetch,
     RefreshFetch, shutdown, BeginShutdown, CancelLifecycle, ShutdownOk, ShutdownExpire, DiagDone

LEMMA AbsentStep == ASSUME Inv, AbsentIsEmpty, [Next]_vars PROVE AbsentIsEmpty'
<1> USE DEF AbsentIsEmpty
<1>1. CASE UNCHANGED cacheVars
  BY <1>1 DEF cacheVars, Present
<1>2. ASSUME NEW k \in Keys, CooldownEnds(k)
      PROVE  AbsentIsEmpty'
  <2>1. entries[k].id # 0
    BY <1>2 DEF CooldownEnds, Present, NoEntry
  <2> QED BY <1>2, <2>1 DEF CooldownEnds, Present, Inv, Typed, CacheTyped, Entries
<1>3. ASSUME NEW c \in Callers, Lookup(c)
      PROVE  AbsentIsEmpty'
  <2>1. CASE UNCHANGED entries
    BY <2>1 DEF Present
  <2>2. CASE Present(key[c]) /\ entries' = [entries EXCEPT ![key[c]].refreshing = TRUE]
    BY <2>2 DEF Present, Inv, Typed, CacheTyped, Entries
  <2> QED BY <1>3, <2>1, <2>2 DEF Lookup, maybeRefreshLocked
<1>4. ASSUME NEW f \in FlightIds, runFlight(f)
      PROVE  AbsentIsEmpty'
  <2>1. CASE UNCHANGED cacheVars
    BY <1>1, <2>1
  <2>2. PICK k \in Keys : flights[f].key = k
    BY <1>4 DEF runFlight, Inv, EveryFlight, OfFlight, Flying, Owns
  <2>3. CASE storeLocked(k, flights[f].res.ver)
    <3> DEFINE order == <<k>> \o lru
               last == IF Len(order) > MaxEntries THEN order[Len(order)] ELSE NoKey
    <3>a. PICK victim, ver, id : victim = last /\ ver = flights[f].res.ver /\ id = FreshId
      OBVIOUS
    <3>1. /\ id = FreshId
          /\ entries' = [q \in Keys |->
               IF q = k THEN [NoEntry EXCEPT !.id = id, !.gen = 1, !.ver = ver]
               ELSE IF q = victim THEN NoEntry ELSE entries[q]]
      BY <2>3, <3>a DEF storeLocked
    <3> HIDE DEF last
    <3>2. id # 0
      BY <3>1, FreshIsFresh DEF Inv
    <3> QED BY <3>1, <3>2 DEF Present, NoEntry
  <2> QED BY <1>4, <2>1, <2>2, <2>3 DEF runFlight
<1>5. ASSUME NEW r \in RefreshSlots, refresh(r)
      PROVE  AbsentIsEmpty'
  <2>1. PICK k \in Keys : refreshes[r].key = k
    BY <1>5 DEF refresh, Inv, EveryRefresh, OfRefresh
  <2>2. CASE UNCHANGED cacheVars
    BY <1>1, <2>2
  <2>3. ASSUME NEW e, entries' = [entries EXCEPT ![k] = e], e.id # 0 \/ e = NoEntry
        PROVE  AbsentIsEmpty'
    BY <2>3 DEF Present, Inv, Typed, CacheTyped
  <2>4. ASSUME StillInstalled(r)
        PROVE  entries[k].id # 0 /\ entries[k] \in Entries
    BY <1>5, <2>1, <2>4 DEF refresh, StillInstalled, Inv, EveryRefresh, OfRefresh, Typed, CacheTyped
  <2>5. CASE StillInstalled(r) /\ refreshes[r].res.kind = "ok"
    <3>1. PICK e : e = [entries[k] EXCEPT !.refreshing = FALSE, !.ver = refreshes[r].res.ver, !.gen = @ + 1]
      OBVIOUS
    <3>2. entries' = [entries EXCEPT ![k] = e]
      BY <1>5, <2>1, <2>5, <3>1 DEF refresh
    <3>3. e.id # 0
      BY <2>4, <2>5, <3>1 DEF Entries
    <3> QED BY <2>3, <3>2, <3>3
  <2>6. CASE StillInstalled(r) /\ refreshes[r].res.kind = "notFound"
    BY <1>5, <2>1, <2>3, <2>6 DEF refresh
  <2>7. CASE StillInstalled(r) /\ refreshes[r].res.kind \in {"error", "canceled"}
    <3>1. PICK e \in {[entries[k] EXCEPT !.refreshing = FALSE], CoolDown(entries[k])} :
            entries' = [entries EXCEPT ![k] = e]
      BY <1>5, <2>1, <2>7 DEF refresh
    <3>2. e.id # 0
      BY <2>4, <2>7, <3>1 DEF CoolDown, Entries
    <3> QED BY <2>3, <3>1, <3>2
  <2> QED BY <1>5, <2>2, <2>5, <2>6, <2>7 DEF refresh
<1> QED BY <1>1, <1>2, <1>3, <1>4, <1>5, EntrySteps

\* Which steps touch the flights, the refreshes and what the calls were told.
LEMMA WorkerSteps ==
  ASSUME [Next]_vars
  PROVE  /\ \/ UNCHANGED flights
            \/ \E c \in Callers : Admit(c) \/ leaveFlight(c)
            \/ \E f \in FlightIds : FlightFetch(f) \/ runFlight(f)
         /\ \/ UNCHANGED <<refreshes, refreshing>>
            \/ \E c \in Callers : Lookup(c)
            \/ \E r \in RefreshSlots : RefreshFetch(r) \/ refresh(r)
         /\ \/ UNCHANGED got
            \/ \E c \in Callers : WaitOut(c) \/ AwaitFlight(c) \/ leaveFlight(c)
            \/ \E f \in FlightIds : runFlight(f)
<1> USE DEF Next, vars, flightVars, refreshVars, callVars, Publish, Unpublish, CooldownEnds, Begin, ContextEnds, get,
     MissCheck, Refused, DirectCheck, DirectAdmit, DirectFetch, shutdown, BeginShutdown, CancelLifecycle,
     ShutdownOk, ShutdownExpire, DiagDone
<1>1. \/ UNCHANGED flights
      \/ \E c \in Callers : Admit(c) \/ leaveFlight(c)
      \/ \E f \in FlightIds : FlightFetch(f) \/ runFlight(f)
  BY DEF Lookup, WaitOut, AwaitFlight, RefreshFetch, refresh
<1>2. \/ UNCHANGED <<refreshes, refreshing>>
      \/ \E c \in Callers : Lookup(c)
      \/ \E r \in RefreshSlots : RefreshFetch(r) \/ refresh(r)
  BY DEF Admit, WaitOut, AwaitFlight, leaveFlight, FlightFetch, runFlight
<1>3. \/ UNCHANGED got
      \/ \E c \in Callers : WaitOut(c) \/ AwaitFlight(c) \/ leaveFlight(c)
      \/ \E f \in FlightIds : runFlight(f)
  BY DEF Lookup, Admit, FlightFetch, RefreshFetch, refresh
<1> QED BY <1>1, <1>2, <1>3

\* One flight changes to one that is idle, or flies with a small result.
LEMMA OneFlight ==
  ASSUME Inv, FreeIsIdle, NEW f \in FlightIds, NEW fl, flights' = [flights EXCEPT ![f] = fl],
         fl.res.ver <= MaxVersion, fl.phase = "free" => fl = IdleFlight
  PROVE  FreeIsIdle'
BY DEF FreeIsIdle, Flying, Inv, Typed, WorkersTyped

LEMMA IdleStep == ASSUME Inv, Published, FreeIsIdle, [Next]_vars PROVE FreeIsIdle'
<1>1. CASE UNCHANGED flights
  BY <1>1 DEF FreeIsIdle, Flying
<1>3. ASSUME NEW c \in Callers, leaveFlight(c)
      PROVE  FreeIsIdle'
  <2>1. CASE UNCHANGED flights
    BY <1>1, <2>1
  <2>2. CASE ~FlightDone(c) /\ flights' = [flights EXCEPT ![mine[c]] = WithoutOne(@)]
    <3>1. PICK f \in FlightIds : mine[c] = f /\ flights[f].phase # "free"
      BY <1>3, <2>2 DEF leaveFlight, FlightDone, Inv, EveryCall, OfCall, Holding, Flying
    <3>2. PICK fl : fl = WithoutOne(flights[f])
      OBVIOUS
    <3>3. flights' = [flights EXCEPT ![f] = fl]
      BY <2>2, <3>1, <3>2
    <3>4. flights[f] \in FlightStates
      BY DEF Inv, Typed, WorkersTyped
    <3>5. fl.res = flights[f].res /\ fl.phase = flights[f].phase
      BY <3>2, <3>4 DEF FlightStates, WithoutOne
    <3> QED BY <3>1, <3>3, <3>5, OneFlight DEF FreeIsIdle
  <2> QED BY <1>3, <2>1, <2>2 DEF leaveFlight
<1>4. ASSUME NEW c \in Callers, Admit(c)
      PROVE  FreeIsIdle'
  <2>1. CASE UNCHANGED flights
    BY <1>1, <2>1
  <2>2. ASSUME NEW f \in FlightIds, reserved[key[c]] = f,
               flights' = [flights EXCEPT ![f].waiters = @ + 1]
        PROVE  FreeIsIdle'
    <3>1. flights[f].phase # "free"
      BY <1>4, <2>2, KeyAssumption
      DEF Admit, Inv, EveryCall, OfCall, Returned, EveryReservation, OfReservation, Flying, FlightIds
    <3>2. PICK fl : fl = [flights[f] EXCEPT !.waiters = @ + 1]
      OBVIOUS
    <3>3. flights' = [flights EXCEPT ![f] = fl]
      BY <2>2, <3>2
    <3>4. flights[f] \in FlightStates
      BY DEF Inv, Typed, WorkersTyped
    <3>5. fl.res = flights[f].res /\ fl.phase = flights[f].phase
      BY <3>2, <3>4 DEF FlightStates
    <3> QED BY <3>1, <3>3, <3>5, OneFlight DEF FreeIsIdle
  <2>3. ASSUME NEW f \in FlightIds, NEW k, flights' = [flights EXCEPT ![f] =
                 [phase |-> "fetching", key |-> k, waiters |-> 1, abandoned |-> FALSE, res |-> NoResult]]
        PROVE  FreeIsIdle'
    <3>1. PICK fl : fl = [phase |-> "fetching", key |-> k, waiters |-> 1, abandoned |-> FALSE, res |-> NoResult]
      OBVIOUS
    <3>2. fl.res.ver <= MaxVersion /\ fl.phase # "free"
      BY <3>1, BoundsAssumption DEF NoResult
    <3> QED BY <2>3, <3>1, <3>2, OneFlight
  <2>4. \/ UNCHANGED flights
        \/ \E f \in FlightIds : reserved[key[c]] = f /\ flights' = [flights EXCEPT ![f].waiters = @ + 1]
        \/ \E f \in FlightIds : flights' = [flights EXCEPT ![f] =
             [phase |-> "fetching", key |-> key[c], waiters |-> 1, abandoned |-> FALSE, res |-> NoResult]]
    BY <1>4 DEF Admit, joinOrStartFlightLocked, flightVars
  <2> QED BY <2>1, <2>2, <2>3, <2>4
<1>5. ASSUME NEW f \in FlightIds, FlightFetch(f)
      PROVE  FreeIsIdle'
  <2>1. PICK k \in Keys : flights[f].key = k
    BY <1>5 DEF FlightFetch, Inv, EveryFlight, OfFlight, Flying, Owns
  <2>2. PICK ended \in BOOLEAN : ended = (flights[f].abandoned \/ canceled)
    OBVIOUS
  <2>3. PICK res \in Fetch(k, ended) :
          flights' = [flights EXCEPT ![f].phase = "fetched", ![f].res = res]
    BY <1>5, <2>1, <2>2 DEF FlightFetch
  <2>4. res.ver <= MaxVersion
    BY <2>2, <2>3, SmallAnswer
  <2>5. PICK fl : fl = [flights[f] EXCEPT !.phase = "fetched", !.res = res]
    OBVIOUS
  <2>6. flights' = [flights EXCEPT ![f] = fl]
    BY <2>3, <2>5 DEF Inv, Typed, WorkersTyped
  <2>7. flights[f] \in FlightStates
    BY DEF Inv, Typed, WorkersTyped
  <2>8. fl.res = res /\ fl.phase = "fetched"
    BY <2>5, <2>7 DEF FlightStates
  <2> QED BY <2>4, <2>6, <2>8, OneFlight
<1>6. ASSUME NEW f \in FlightIds, runFlight(f)
      PROVE  FreeIsIdle'
  <2>1. flights' = [flights EXCEPT ![f] = IdleFlight]
    BY <1>6 DEF runFlight
  <2>2. IdleFlight.res.ver <= MaxVersion
    BY BoundsAssumption DEF IdleFlight, NoResult
  <2> QED BY <2>1, <2>2, OneFlight
<1> QED BY <1>1, <1>3, <1>4, <1>5, <1>6, WorkerSteps

LEMMA RefreshedStep == ASSUME Inv, Published, RefreshedSmall, [Next]_vars PROVE RefreshedSmall'
<1> USE DEF RefreshedSmall
<1>1. CASE UNCHANGED refreshes
  BY <1>1
<1>2. ASSUME NEW r \in RefreshSlots, NEW w, refreshes' = [refreshes EXCEPT ![r] = w], w.res.ver <= MaxVersion
      PROVE  RefreshedSmall'
  BY <1>2 DEF Inv, Typed, WorkersTyped
<1>3. ASSUME NEW c \in Callers, Lookup(c)
      PROVE  RefreshedSmall'
  <2>1. \/ UNCHANGED refreshes
        \/ \E r \in RefreshSlots : refreshes' = [refreshes EXCEPT ![r] =
                [phase |-> "fetching", key |-> key[c], id |-> entries[key[c]].id,
                 gen |-> entries[key[c]].gen, res |-> NoResult]]
    BY <1>3 DEF Lookup, maybeRefreshLocked
  <2> QED BY <1>1, <1>2, <2>1, BoundsAssumption DEF NoResult
<1>4. ASSUME NEW r \in RefreshSlots, RefreshFetch(r)
      PROVE  RefreshedSmall'
  <2>1. PICK k \in Keys : refreshes[r].key = k
    BY <1>4 DEF RefreshFetch, Inv, EveryRefresh, OfRefresh
  <2>2. canceled \in BOOLEAN
    BY DEF Inv, Typed, StopTyped
  <2>3. PICK res \in Fetch(k, canceled) : refreshes' = [refreshes EXCEPT ![r].phase = "fetched", ![r].res = res]
    BY <1>4, <2>1 DEF RefreshFetch
  <2>4. res.ver <= MaxVersion
    BY <2>2, <2>3, SmallAnswer
  <2>5. PICK w : w = [refreshes[r] EXCEPT !.phase = "fetched", !.res = res]
    OBVIOUS
  <2>6. refreshes' = [refreshes EXCEPT ![r] = w]
    BY <2>3, <2>5 DEF Inv, Typed, WorkersTyped
  <2>7. refreshes[r] \in RefreshStates
    BY DEF Inv, Typed, WorkersTyped
  <2>8. w.res = res
    BY <2>5, <2>7 DEF RefreshStates
  <2> QED BY <1>2, <2>4, <2>6, <2>8
<1>5. ASSUME NEW r \in RefreshSlots, refresh(r)
      PROVE  RefreshedSmall'
  <2>1. refreshes' = [refreshes EXCEPT ![r] = IdleRefresh]
    BY <1>5 DEF refresh, EndRefresh
  <2> QED BY <1>2, <2>1, BoundsAssumption DEF IdleRefresh, NoResult
<1> QED BY <1>1, <1>3, <1>4, <1>5, WorkerSteps

LEMMA GotStep == ASSUME Inv, FreeIsIdle, GotSmall, [Next]_vars PROVE GotSmall'
<1> USE DEF GotSmall
<1>1. CASE UNCHANGED got
  BY <1>1
<1>2. ASSUME NEW c \in Callers, NEW where, Release(c, where)
      PROVE  GotSmall'
  BY <1>2, BoundsAssumption DEF Release, NoResult, Inv, Typed, CallsTyped
<1>3. ASSUME NEW c \in Callers, WaitOut(c) \/ AwaitFlight(c) \/ leaveFlight(c)
      PROVE  GotSmall'
  BY <1>1, <1>2, <1>3 DEF WaitOut, AwaitFlight, leaveFlight
<1>4. ASSUME NEW f \in FlightIds, runFlight(f)
      PROVE  GotSmall'
  BY <1>4 DEF runFlight, FreeIsIdle
<1> QED BY <1>1, <1>3, <1>4, WorkerSteps

LEMMA SizedStep == ASSUME Inv, Sized, [Next]_vars PROVE Sized'
BY PublishedStep, AbsentStep, IdleStep, RefreshedStep, GotStep, LimitedStep DEF Sized

-----------------------------------------------------------------------------
(* The recency list.                                                       *)

Listed(s) == s \in Seq(Keys) /\ \A i, j \in 1..Len(s) : s[i] = s[j] => i = j
Holds(s, k) == \E i \in 1..Len(s) : s[i] = k

(* Without takes the key out of the list and leaves the others in order.   *)
LEMMA Removed ==
  ASSUME NEW s, Listed(s), NEW k \in Keys, Holds(s, k)
  PROVE  /\ Listed(Without(s, k)) /\ Len(Without(s, k)) = Len(s) - 1
         /\ \A q \in Keys : Holds(Without(s, k), q) <=> Holds(s, q) /\ q # k
<1>1. PICK p \in 1..Len(s) : s[p] = k
  BY DEF Holds
<1>2. /\ s \in Seq(Keys) /\ Len(s) \in Nat /\ \A i, j \in 1..Len(s) : s[i] = s[j] => i = j
      /\ \A i \in 1..Len(s) : s[i] \in Keys
  BY DEF Listed
<1>3. PICK n \in Nat : n = Len(s) - 1
  BY <1>1, <1>2
<1>4. PICK w : w = Without(s, k)
  OBVIOUS
<1>5. w = [i \in 1..n |-> s[IF \E j \in 1..i : s[j] = k THEN i + 1 ELSE i]]
  BY <1>3, <1>4 DEF Without
<1>6. ASSUME NEW i \in 1..n
      PROVE  w[i] = s[IF i < p THEN i ELSE i + 1]
  <2>1. (\E j \in 1..i : s[j] = k) <=> p <= i
    BY <1>1, <1>2, <1>3
  <2> QED BY <1>1, <1>3, <1>5, <2>1
<1>7. w \in Seq(Keys) /\ Len(w) = n
  <2>1. \A i \in 1..n : w[i] \in Keys
    BY <1>2, <1>3, <1>6
  <2>2. w \in [1..n -> Keys]
    BY <1>5, <2>1
  <2> QED BY <1>3, <2>2
<1>8. \A i, j \in 1..n : w[i] = w[j] => i = j
  BY <1>1, <1>2, <1>3, <1>6
<1>9. ASSUME NEW q \in Keys
      PROVE  Holds(w, q) <=> Holds(s, q) /\ q # k
  <2>1. ASSUME Holds(w, q)
        PROVE  Holds(s, q) /\ q # k
    <3>1. PICK i \in 1..n : w[i] = q
      BY <1>7, <2>1 DEF Holds
    <3>2. PICK j \in 1..Len(s) : j # p /\ s[j] = q
      BY <1>1, <1>2, <1>3, <1>6, <3>1
    <3> QED BY <1>1, <1>2, <3>2 DEF Holds
  <2>2. ASSUME Holds(s, q), q # k
        PROVE  Holds(w, q)
    <3>1. PICK j \in 1..Len(s) : s[j] = q
      BY <2>2 DEF Holds
    <3>2. j # p
      BY <1>1, <2>2, <3>1
    <3>3. CASE j < p
      BY <1>1, <1>2, <1>3, <1>6, <1>7, <3>1, <3>3 DEF Holds
    <3>4. CASE j > p
      <4>1. j - 1 \in 1..n /\ w[j - 1] = q
        BY <1>1, <1>2, <1>3, <1>6, <3>1, <3>4
      <4> QED BY <1>7, <4>1 DEF Holds
    <3> QED BY <1>2, <3>2, <3>3, <3>4
  <2> QED BY <2>1, <2>2
<1> QED BY <1>3, <1>4, <1>7, <1>8, <1>9 DEF Listed

LEMMA Prepended ==
  ASSUME NEW s, Listed(s), NEW k \in Keys, ~Holds(s, k)
  PROVE  /\ Listed(<<k>> \o s) /\ Len(<<k>> \o s) = Len(s) + 1
         /\ \A q \in Keys : Holds(<<k>> \o s, q) <=> Holds(s, q) \/ q = k
<1>1. /\ s \in Seq(Keys) /\ Len(s) \in Nat /\ \A i, j \in 1..Len(s) : s[i] = s[j] => i = j
  BY DEF Listed
<1>2. PICK w : w = <<k>> \o s
  OBVIOUS
<1>3. w \in Seq(Keys) /\ Len(w) = Len(s) + 1 /\ w[1] = k /\ \A i \in 1..Len(s) : w[i + 1] = s[i]
  BY <1>1, <1>2
<1>4. ASSUME NEW i \in 1..Len(w)
      PROVE  (i = 1 /\ w[i] = k) \/ (i - 1 \in 1..Len(s) /\ w[i] = s[i - 1])
  <2>1. CASE i = 1
    BY <1>3, <2>1
  <2>2. CASE i # 1
    <3>1. i - 1 \in 1..Len(s) /\ (i - 1) + 1 = i
      BY <1>1, <1>3, <2>2
    <3> QED BY <1>3, <3>1
  <2> QED BY <2>1, <2>2
<1>5. ASSUME NEW i \in 1..Len(w), NEW j \in 1..Len(w), w[i] = w[j]
      PROVE  i = j
  <2>1. CASE i = 1
    BY <1>4, <1>5, <2>1 DEF Holds
  <2>2. CASE j = 1
    BY <1>4, <1>5, <2>2 DEF Holds
  <2>3. CASE i # 1 /\ j # 1
    <3>1. i - 1 \in 1..Len(s) /\ j - 1 \in 1..Len(s) /\ s[i - 1] = s[j - 1]
      BY <1>4, <1>5, <2>3
    <3>2. i - 1 = j - 1
      BY <1>1, <3>1
    <3> QED BY <1>3, <3>2
  <2> QED BY <2>1, <2>2, <2>3
<1>6. ASSUME NEW q \in Keys
      PROVE  Holds(w, q) <=> Holds(s, q) \/ q = k
  <2>1. Holds(w, q) => Holds(s, q) \/ q = k
    BY <1>4 DEF Holds
  <2>2. ASSUME Holds(s, q)
        PROVE  Holds(w, q)
    <3>1. PICK i \in 1..Len(s) : s[i] = q
      BY <2>2 DEF Holds
    <3>2. i + 1 \in 1..Len(w) /\ w[i + 1] = q
      BY <1>1, <1>3, <3>1
    <3> QED BY <3>2 DEF Holds
  <2>3. Holds(w, k)
    <3>1. 1 \in 1..Len(w)
      BY <1>1, <1>3
    <3> QED BY <1>3, <3>1 DEF Holds
  <2> QED BY <2>1, <2>2, <2>3
<1> QED BY <1>2, <1>3, <1>5, <1>6 DEF Listed

Recency == Listed(lru) /\ Len(lru) <= MaxEntries /\ \A k \in Keys : Present(k) <=> Holds(lru, k)

LEMMA RecencyStep == ASSUME Inv, Inv', Recency, [Next]_vars PROVE Recency'
<1> USE DEF Recency
<1>a. Listed(lru) /\ Len(lru) \in Nat
  BY DEF Listed
<1>1. ASSUME UNCHANGED lru, \A k \in Keys : Present(k)' <=> Present(k)
      PROVE  Recency'
  BY <1>1 DEF Listed, Holds
<1>2. ASSUME NEW k \in Keys, CooldownEnds(k)
      PROVE  Recency'
  BY <1>1, <1>2 DEF CooldownEnds, Present, Inv, Typed, CacheTyped, Entries
<1>3. ASSUME NEW c \in Callers, Lookup(c)
      PROVE  Recency'
  <2>1. PICK k \in Keys : key[c] = k
    BY <1>3 DEF Lookup, Inv, EveryCall, OfCall, Returned
  <2>2. \A q \in Keys : Present(q)' <=> Present(q)
    <3>1. UNCHANGED entries \/ entries' = [entries EXCEPT ![k].refreshing = TRUE]
      BY <1>3, <2>1 DEF Lookup, maybeRefreshLocked
    <3>2. ASSUME NEW q \in Keys
          PROVE  entries'[q].id = entries[q].id
      <4>1. entries \in [Keys -> Entries]
        BY DEF Inv, Typed, CacheTyped
      <4>2. CASE UNCHANGED entries
        BY <4>2
      <4>3. CASE entries' = [entries EXCEPT ![k].refreshing = TRUE]
        BY <4>1, <4>3 DEF Entries
      <4> QED BY <3>1, <4>2, <4>3
    <3> QED BY <3>2 DEF Present
  <2>3. CASE UNCHANGED lru
    BY <1>1, <2>2, <2>3
  <2>4. CASE Present(k) /\ lru' = <<k>> \o Without(lru, k)
    <3>1. PICK w : w = Without(lru, k)
      OBVIOUS
    <3>2. /\ Listed(w) /\ Len(w) = Len(lru) - 1
          /\ \A q \in Keys : Holds(w, q) <=> Holds(lru, q) /\ q # k
      BY <1>a, <2>4, <3>1, Removed
    <3>3. /\ Listed(<<k>> \o w) /\ Len(<<k>> \o w) = Len(w) + 1
          /\ \A q \in Keys : Holds(<<k>> \o w, q) <=> Holds(w, q) \/ q = k
      BY <3>2, Prepended
    <3>4. lru' = <<k>> \o w
      BY <2>4, <3>1
    <3>5. Listed(lru)' /\ Len(lru') = Len(lru)
      BY <1>a, <3>2, <3>3, <3>4 DEF Listed
    <3>6. ASSUME NEW q \in Keys
          PROVE  Present(q)' <=> Holds(lru', q)
      BY <2>2, <2>4, <3>2, <3>3, <3>4
    <3> QED BY <3>5, <3>6 DEF Holds
  <2> QED BY <1>3, <2>1, <2>3, <2>4 DEF Lookup
<1>4. ASSUME NEW f \in FlightIds, runFlight(f)
      PROVE  Recency'
  <2>1. CASE UNCHANGED cacheVars
    BY <1>1, <2>1 DEF cacheVars, Present
  <2>2. PICK k \in Keys : flights[f].key = k /\ ~Present(k)
    BY <1>4 DEF runFlight, Inv, EveryFlight, OfFlight, Flying, Owns
  <2>3. CASE storeLocked(k, flights[f].res.ver)
    <3>1. PICK order : order = <<k>> \o lru
      OBVIOUS
    <3>2. /\ Listed(order) /\ Len(order) = Len(lru) + 1
          /\ \A q \in Keys : Holds(order, q) <=> Present(q) \/ q = k
      BY <1>a, <2>2, <3>1, Prepended
    <3>3. PICK victim : victim = IF Len(order) > MaxEntries THEN order[Len(order)] ELSE NoKey
      OBVIOUS
    <3>4. PICK ver, id : ver = flights[f].res.ver /\ id = FreshId
      OBVIOUS
    <3>5. /\ lru' = IF victim = NoKey THEN order ELSE Without(order, victim)
          /\ entries' = [q \in Keys |->
               IF q = k THEN [NoEntry EXCEPT !.id = id, !.gen = 1, !.ver = ver]
               ELSE IF q = victim THEN NoEntry ELSE entries[q]]
      BY <2>3, <3>1, <3>3, <3>4 DEF storeLocked
    <3>6. id # 0
      BY <3>4, FreshIsFresh DEF Inv
    <3>7. \A q \in Keys : Present(q)' <=> q = k \/ (q # victim /\ Present(q))
      BY <3>5, <3>6 DEF Present, NoEntry
    <3>8. order \in Seq(Keys) /\ Len(order) \in Nat /\ order[1] = k
      BY <1>a, <3>1, <3>2 DEF Listed
    <3>9. CASE Len(order) > MaxEntries
      <4>1. PICK v \in Keys : v = victim /\ v = order[Len(order)]
        BY <3>3, <3>8, <3>9, CapsAssumption
      <4>2. Holds(order, v) /\ v # k
        <5>a. PICK n \in Nat : n = Len(order)
          BY <3>8
        <5>b. n > 1
          BY <3>9, <5>a, CapsAssumption
        <5>1. Len(order) \in 1..Len(order) /\ 1 \in 1..Len(order) /\ Len(order) # 1
          BY <5>a, <5>b
        <5> QED BY <3>2, <3>8, <4>1, <5>1 DEF Listed, Holds
      <4>3. PICK w : w = Without(order, v)
        OBVIOUS
      <4>4. /\ Listed(w) /\ Len(w) = Len(order) - 1
            /\ \A q \in Keys : Holds(w, q) <=> Holds(order, q) /\ q # v
        BY <3>2, <4>2, <4>3, Removed
      <4>5. lru' = w
        BY <3>5, <4>1, <4>3, KeyAssumption
      <4>6. Len(w) <= MaxEntries
        BY <1>a, <3>2, <4>4, CapsAssumption
      <4>7. ASSUME NEW q \in Keys
            PROVE  Present(q)' <=> Holds(lru', q)
        BY <3>2, <3>7, <4>1, <4>2, <4>4, <4>5
      <4> QED BY <4>4, <4>5, <4>6, <4>7 DEF Holds, Listed
    <3>10. CASE Len(order) <= MaxEntries
      <4>1. victim = NoKey /\ lru' = order
        BY <3>3, <3>5, <3>8, <3>10, CapsAssumption
      <4>2. ASSUME NEW q \in Keys
            PROVE  Present(q)' <=> Holds(lru', q)
        BY <3>2, <3>7, <4>1, KeyAssumption
      <4> QED BY <3>2, <3>10, <4>1, <4>2 DEF Holds, Listed
    <3> QED BY <3>8, <3>9, <3>10, CapsAssumption
  <2> QED BY <1>4, <2>1, <2>2, <2>3 DEF runFlight
<1>5. ASSUME NEW r \in RefreshSlots, refresh(r)
      PROVE  Recency'
  <2>1. PICK k \in Keys : refreshes[r].key = k
    BY <1>5 DEF refresh, Inv, EveryRefresh, OfRefresh
  <2>2. CASE UNCHANGED cacheVars
    BY <1>1, <2>2 DEF cacheVars, Present
  <2>3. ASSUME StillInstalled(r)
        PROVE  Present(k) /\ entries[k] \in Entries
    BY <1>5, <2>1, <2>3 DEF refresh, StillInstalled, Present, Inv, EveryRefresh, OfRefresh, Typed, CacheTyped
  <2>4. CASE StillInstalled(r) /\ refreshes[r].res.kind = "notFound"
    <3>1. entries' = [entries EXCEPT ![k] = NoEntry] /\ lru' = Without(lru, k)
      BY <1>5, <2>1, <2>4 DEF refresh
    <3>2. \A q \in Keys : Present(q)' <=> Present(q) /\ q # k
      BY <3>1 DEF Present, NoEntry, Inv, Typed, CacheTyped
    <3>3. PICK w : w = Without(lru, k)
      OBVIOUS
    <3>4. /\ Listed(w) /\ Len(w) = Len(lru) - 1
          /\ \A q \in Keys : Holds(w, q) <=> Holds(lru, q) /\ q # k
      BY <1>a, <2>3, <2>4, <3>3, Removed
    <3>5. Len(w) <= MaxEntries
      BY <1>a, <3>4, CapsAssumption
    <3>6. ASSUME NEW q \in Keys
          PROVE  Present(q)' <=> Holds(lru', q)
      BY <3>1, <3>2, <3>3, <3>4
    <3> QED BY <3>1, <3>3, <3>4, <3>5, <3>6 DEF Holds, Listed
  <2>5. CASE StillInstalled(r) /\ refreshes[r].res.kind # "notFound" /\ UNCHANGED lru
    <3>1. PICK e : /\ entries' = [entries EXCEPT ![k] = e]
                   /\ e \in {[entries[k] EXCEPT !.refreshing = FALSE, !.ver = refreshes[r].res.ver, !.gen = @ + 1],
                             [entries[k] EXCEPT !.refreshing = FALSE], CoolDown(entries[k])}
      BY <1>5, <2>1, <2>5 DEF refresh
    <3>2. e.id = entries[k].id
      BY <2>3, <2>5, <3>1 DEF Entries, CoolDown
    <3>3. \A q \in Keys : Present(q)' <=> Present(q)
      BY <3>1, <3>2 DEF Present, Inv, Typed, CacheTyped
    <3> QED BY <1>1, <2>5, <3>3
  <2> QED BY <1>5, <2>1, <2>2, <2>4, <2>5 DEF refresh
<1>6. CASE UNCHANGED cacheVars
  BY <1>1, <1>6 DEF cacheVars, Present
<1> QED BY <1>2, <1>3, <1>4, <1>5, <1>6, EntrySteps

-----------------------------------------------------------------------------
(* The refreshing marks.  At most one refresh holds an installed entry, of *)
(* its very generation, so a refresh that finds the entry gone or renewed  *)
(* leaves no mark behind.                                                  *)

Refreshes(r, k) ==
  refreshes[r].phase # "free" /\ refreshes[r].key = k /\ refreshes[r].id = entries[k].id

MarkedOnce(k) ==
  Present(k) =>
    /\ entries[k].refreshing <=> \E r \in RefreshSlots : Refreshes(r, k)
    /\ \A r \in RefreshSlots : Refreshes(r, k) => refreshes[r].gen = entries[k].gen
    /\ \A r, q \in RefreshSlots : Refreshes(r, k) /\ Refreshes(q, k) => r = q

EveryMark == \A k \in Keys : MarkedOnce(k)

LEMMA MarksStay ==
  ASSUME EveryMark, NEW k \in Keys,
         \A r \in RefreshSlots : /\ refreshes'[r].phase # "free" <=> refreshes[r].phase # "free"
                                 /\ refreshes[r].phase # "free" =>
                                      /\ refreshes'[r].key = refreshes[r].key
                                      /\ refreshes'[r].id = refreshes[r].id
                                      /\ refreshes'[r].gen = refreshes[r].gen,
         Present(k)' => /\ entries'[k].id = entries[k].id /\ entries'[k].gen = entries[k].gen
                        /\ entries'[k].refreshing = entries[k].refreshing
  PROVE  MarkedOnce(k)'
<1>1. Present(k)' => \A r \in RefreshSlots : Refreshes(r, k)' <=> Refreshes(r, k)
  BY DEF Refreshes
<1> QED BY <1>1 DEF EveryMark, MarkedOnce, Present, Refreshes

LEMMA MarksStep == ASSUME Inv, Inv', EveryMark, [Next]_vars PROVE EveryMark'
<1> USE DEF EveryMark
<1>a. entries \in [Keys -> Entries] /\ refreshes \in [RefreshSlots -> RefreshStates]
  BY DEF Inv, Typed, CacheTyped, WorkersTyped
<1>1. CASE UNCHANGED <<entries, refreshes>>
  BY <1>1, MarksStay
<1>2. ASSUME NEW k \in Keys, CooldownEnds(k)
      PROVE  EveryMark'
  <2>1. entries' = [entries EXCEPT ![k].cooling = FALSE] /\ UNCHANGED refreshes
    BY <1>2 DEF CooldownEnds, refreshVars
  <2>2. ASSUME NEW q \in Keys
        PROVE  /\ entries'[q].id = entries[q].id /\ entries'[q].gen = entries[q].gen
               /\ entries'[q].refreshing = entries[q].refreshing
    BY <1>a, <2>1 DEF Entries
  <2> QED BY <2>1, <2>2, MarksStay
<1>3. ASSUME NEW c \in Callers, Lookup(c)
      PROVE  EveryMark'
  <2>1. PICK k \in Keys : key[c] = k
    BY <1>3 DEF Lookup, Inv, EveryCall, OfCall, Returned
  <2>2. CASE UNCHANGED <<refreshes, entries>>
    BY <1>1, <2>2
  <2>3. ASSUME NEW r \in RefreshSlots, Present(k), ~entries[k].refreshing, refreshes[r].phase = "free",
               refreshes' = [refreshes EXCEPT ![r] =
                 [phase |-> "fetching", key |-> k, id |-> entries[k].id,
                  gen |-> entries[k].gen, res |-> NoResult]],
               entries' = [entries EXCEPT ![k].refreshing = TRUE]
        PROVE  EveryMark'
    <3>1. /\ refreshes'[r].phase = "fetching" /\ refreshes'[r].key = k /\ refreshes'[r].id = entries[k].id
          /\ refreshes'[r].gen = entries[k].gen
          /\ \A p \in RefreshSlots \ {r} : refreshes'[p] = refreshes[p]
      BY <1>a, <2>3
    <3>2. /\ entries'[k].id = entries[k].id /\ entries'[k].gen = entries[k].gen /\ entries'[k].refreshing
          /\ \A q \in Keys \ {k} : entries'[q] = entries[q]
      BY <1>a, <2>3 DEF Entries
    <3>3. \A p \in RefreshSlots : ~Refreshes(p, k)
      BY <2>3 DEF MarkedOnce
    <3>4. \A p \in RefreshSlots : Refreshes(p, k)' <=> p = r
      BY <3>1, <3>2, <3>3 DEF Refreshes
    <3>5. MarkedOnce(k)'
      BY <3>1, <3>2, <3>4 DEF MarkedOnce
    <3>6. ASSUME NEW q \in Keys \ {k}
          PROVE  MarkedOnce(q)'
      <4>1. \A p \in RefreshSlots : Refreshes(p, q)' <=> Refreshes(p, q)
        BY <2>3, <3>1, <3>2 DEF Refreshes
      <4>2. \A p \in RefreshSlots : Refreshes(p, q) => refreshes'[p] = refreshes[p]
        BY <2>3, <3>1 DEF Refreshes
      <4> QED BY <3>2, <4>1, <4>2 DEF MarkedOnce, Present
    <3> QED BY <3>5, <3>6
  <2> QED BY <1>3, <2>1, <2>2, <2>3 DEF Lookup, maybeRefreshLocked, Refreshable
<1>4. ASSUME NEW f \in FlightIds, runFlight(f)
      PROVE  EveryMark'
  <2>1. UNCHANGED refreshes
    BY <1>4 DEF runFlight, refreshVars
  <2>2. CASE UNCHANGED entries
    BY <1>1, <2>1, <2>2
  <2>3. PICK k \in Keys : flights[f].key = k
    BY <1>4 DEF runFlight, Inv, EveryFlight, OfFlight, Flying, Owns
  <2>4. CASE storeLocked(k, flights[f].res.ver)
    <3> DEFINE order == <<k>> \o lru
               last == IF Len(order) > MaxEntries THEN order[Len(order)] ELSE NoKey
    <3>a. PICK victim, ver, id : victim = last /\ ver = flights[f].res.ver /\ id = FreshId
      OBVIOUS
    <3>1. entries' = [q \in Keys |->
               IF q = k THEN [NoEntry EXCEPT !.id = id, !.gen = 1, !.ver = ver]
               ELSE IF q = victim THEN NoEntry ELSE entries[q]]
      BY <2>4, <3>a DEF storeLocked
    <3> HIDE DEF last
    <3>2. \A r \in RefreshSlots : refreshes[r].id # id
      BY <3>a, FreshIsFresh DEF Inv
    <3>3. MarkedOnce(k)'
      <4>1. entries'[k].id = id /\ ~entries'[k].refreshing
        BY <3>1 DEF NoEntry
      <4>2. \A r \in RefreshSlots : ~Refreshes(r, k)'
        BY <2>1, <3>2, <4>1 DEF Refreshes
      <4> QED BY <4>1, <4>2 DEF MarkedOnce
    <3>4. ASSUME NEW q \in Keys \ {k}
          PROVE  MarkedOnce(q)'
      <4>1. Present(q)' => entries'[q] = entries[q]
        BY <3>1 DEF Present, NoEntry
      <4> QED BY <2>1, <4>1, MarksStay
    <3> QED BY <3>3, <3>4
  <2> QED BY <1>4, <2>2, <2>3, <2>4 DEF runFlight, cacheVars
<1>5. ASSUME NEW r \in RefreshSlots, RefreshFetch(r)
      PROVE  EveryMark'
  <2>1. PICK res : refreshes' = [refreshes EXCEPT ![r].phase = "fetched", ![r].res = res]
    BY <1>5 DEF RefreshFetch
  <2>2. UNCHANGED entries /\ refreshes[r].phase = "fetching"
    BY <1>5 DEF RefreshFetch, cacheVars
  <2>3. ASSUME NEW p \in RefreshSlots
        PROVE  /\ refreshes'[p].phase # "free" <=> refreshes[p].phase # "free"
               /\ refreshes'[p].key = refreshes[p].key /\ refreshes'[p].id = refreshes[p].id
               /\ refreshes'[p].gen = refreshes[p].gen
    BY <1>a, <2>1, <2>2 DEF RefreshStates
  <2> QED BY <2>2, <2>3, MarksStay
<1>6. ASSUME NEW r \in RefreshSlots, refresh(r)
      PROVE  EveryMark'
  <2>1. PICK k \in Keys : refreshes[r].key = k
    BY <1>6 DEF refresh, Inv, EveryRefresh, OfRefresh
  <2>2. /\ refreshes'[r].phase = "free" /\ \A p \in RefreshSlots \ {r} : refreshes'[p] = refreshes[p]
        /\ refreshes[r].phase = "fetched" /\ refreshes[r].id # 0
    BY <1>6, <1>a DEF refresh, EndRefresh, IdleRefresh, Inv, EveryRefresh, OfRefresh
  <2>3. ASSUME NEW q \in Keys, entries'[q] = entries[q], ~Refreshes(r, q)
        PROVE  MarkedOnce(q)'
    <3>1. \A p \in RefreshSlots : Refreshes(p, q)' <=> Refreshes(p, q)
      BY <2>2, <2>3 DEF Refreshes
    <3>2. \A p \in RefreshSlots : Refreshes(p, q) => refreshes'[p] = refreshes[p]
      BY <2>2, <2>3
    <3> QED BY <2>3, <3>1, <3>2 DEF MarkedOnce, Present
  <2>4. CASE ~StillInstalled(r)
    <3>1. UNCHANGED entries
      BY <1>6, <2>4 DEF refresh, cacheVars
    <3>2. ASSUME NEW q \in Keys
          PROVE  ~Refreshes(r, q)
      BY <2>1, <2>2, <2>4, <3>2 DEF Refreshes, StillInstalled, MarkedOnce, Present
    <3> QED BY <2>3, <3>1, <3>2
  <2>5. CASE StillInstalled(r)
    <3>1. entries[k].id = refreshes[r].id /\ Present(k) /\ Refreshes(r, k) /\ entries[k] \in Entries
      BY <1>a, <2>1, <2>2, <2>5 DEF StillInstalled, Present, Refreshes
    <3>2. PICK e : /\ entries' = [entries EXCEPT ![k] = e]
                   /\ e \in {[entries[k] EXCEPT !.refreshing = FALSE, !.ver = refreshes[r].res.ver, !.gen = @ + 1],
                             [entries[k] EXCEPT !.refreshing = FALSE], CoolDown(entries[k]), NoEntry}
      BY <1>6, <2>1, <2>5 DEF refresh
    <3>3. e.id \in {0, entries[k].id} /\ ~e.refreshing
      <4>1. CASE e = [entries[k] EXCEPT !.refreshing = FALSE, !.ver = refreshes[r].res.ver, !.gen = @ + 1]
        BY <3>1, <4>1 DEF Entries
      <4>2. CASE e = [entries[k] EXCEPT !.refreshing = FALSE]
        BY <3>1, <4>2 DEF Entries
      <4>3. CASE e = CoolDown(entries[k])
        BY <3>1, <4>3 DEF Entries, CoolDown
      <4>4. CASE e = NoEntry
        BY <4>4 DEF NoEntry
      <4> QED BY <3>2, <4>1, <4>2, <4>3, <4>4
    <3>4. entries'[k] = e /\ \A q \in Keys \ {k} : entries'[q] = entries[q]
      BY <1>a, <3>2
    <3>5. \A q \in Keys \ {k} : ~Refreshes(r, q)
      BY <2>1 DEF Refreshes
    <3>6. MarkedOnce(k)'
      <4>1. ASSUME Present(k)', NEW p \in RefreshSlots, Refreshes(p, k)'
            PROVE  FALSE
        <5>1. p # r /\ refreshes'[p] = refreshes[p]
          BY <2>2, <4>1 DEF Refreshes
        <5>2. Refreshes(p, k)
          BY <3>3, <3>4, <4>1, <5>1 DEF Refreshes, Present
        <5> QED BY <3>1, <5>1, <5>2 DEF MarkedOnce
      <4> QED BY <3>3, <3>4, <4>1 DEF MarkedOnce
    <3> QED BY <2>3, <3>4, <3>5, <3>6
  <2> QED BY <2>4, <2>5
<1>7. UNCHANGED refreshes \/ (\E c \in Callers : Lookup(c)) \/ (\E r \in RefreshSlots : RefreshFetch(r) \/ refresh(r))
  BY WorkerSteps
<1> QED BY <1>1, <1>2, <1>3, <1>4, <1>5, <1>6, <1>7, EntrySteps DEF cacheVars

-----------------------------------------------------------------------------
(* The two counters.                                                       *)

Flyers == {f \in FlightIds : flights[f].phase # "free"}
Directs == {c \in Callers : pc[c] = "directFetch"}
Refreshers == {r \in RefreshSlots : refreshes[r].phase # "free"}

ForegroundExact == foreground = Cardinality(Flyers) + Cardinality(Directs) /\ foreground <= MaxForeground
RefreshingExact == refreshing = Cardinality(Refreshers) /\ refreshing <= MaxRefreshes

LEMMA WorkersFinite ==
  /\ IsFiniteSet(Flyers) /\ IsFiniteSet(Directs) /\ IsFiniteSet(Refreshers)
  /\ Cardinality(Flyers) \in Nat /\ Cardinality(Directs) \in Nat /\ Cardinality(Refreshers) \in Nat
<1>1. IsFiniteSet(FlightIds) /\ IsFiniteSet(RefreshSlots)
  BY FS_Interval, CapsAssumption DEF FlightIds, RefreshSlots
<1>2. IsFiniteSet(Flyers) /\ IsFiniteSet(Directs) /\ IsFiniteSet(Refreshers)
  BY <1>1, FS_Subset, FiniteAssumption DEF Flyers, Directs, Refreshers
<1> QED BY <1>2, FS_CardinalityType

LEMMA ForegroundStep == ASSUME Inv, ForegroundExact, [Next]_vars PROVE ForegroundExact'
<1> USE DEF ForegroundExact
<1>a. flights \in [FlightIds -> FlightStates] /\ pc \in [Callers -> PcStates]
  BY DEF Inv, Typed, WorkersTyped, CallsTyped
<1>1. ASSUME UNCHANGED foreground, Flyers' = Flyers, Directs' = Directs
      PROVE  ForegroundExact'
  BY <1>1
<1>2. ASSUME NEW c \in Callers, NEW where, Go(c, where), pc[c] # "directFetch", where # "directFetch"
      PROVE  Directs' = Directs
  BY <1>a, <1>2 DEF Go, Directs
<1>3. ASSUME \A f \in FlightIds : flights'[f].phase # "free" <=> flights[f].phase # "free"
      PROVE  Flyers' = Flyers
  BY <1>3 DEF Flyers
<1>4. ASSUME UNCHANGED pc
      PROVE  Directs' = Directs
  BY <1>4 DEF Directs
<1>5. ASSUME NEW c \in Callers, Begin(c)
      PROVE  ForegroundExact'
  <2>1. Directs' = Directs
    BY <1>2, <1>5 DEF Begin, Returned
  <2> QED BY <1>1, <1>3, <1>5, <2>1 DEF Begin, flightVars
<1>6. ASSUME NEW c \in Callers, Lookup(c) \/ MissCheck(c) \/ Refused(c) \/ WaitOut(c) \/ AwaitFlight(c) \/ DirectCheck(c)
      PROVE  ForegroundExact'
  <2>1. UNCHANGED flightVars
    BY <1>6 DEF Lookup, MissCheck, Refused, WaitOut, AwaitFlight, DirectCheck
  <2>2. PICK where : Go(c, where) /\ where # "directFetch" /\ pc[c] # "directFetch"
    BY <1>6 DEF Lookup, MissCheck, Refused, WaitOut, AwaitFlight, DirectCheck, Release, Outcome
  <2> QED BY <1>1, <1>2, <1>3, <2>1, <2>2 DEF flightVars
<1>7. ASSUME NEW c \in Callers, leaveFlight(c)
      PROVE  ForegroundExact'
  <2>1. Directs' = Directs
    BY <1>2, <1>7 DEF leaveFlight, Release
  <2>2. Flyers' = Flyers
    <3>1. CASE UNCHANGED flights
      BY <1>3, <3>1
    <3>2. CASE flights' = [flights EXCEPT ![mine[c]] = WithoutOne(@)]
      <4>1. ASSUME NEW f \in FlightIds
            PROVE  WithoutOne(flights[f]).phase = flights[f].phase
        BY <1>a DEF WithoutOne, FlightStates
      <4>2. ASSUME NEW f \in FlightIds
            PROVE  flights'[f].phase = flights[f].phase
        BY <1>a, <3>2, <4>1
      <4> QED BY <1>3, <4>2
    <3> QED BY <1>7, <3>1, <3>2 DEF leaveFlight
  <2> QED BY <1>1, <1>7, <2>1, <2>2 DEF leaveFlight
<1>8. ASSUME NEW c \in Callers, Admit(c)
      PROVE  ForegroundExact'
  <2>1. Directs' = Directs
    BY <1>2, <1>8 DEF Admit, joinOrStartFlightLocked, Hold
  <2>2. CASE UNCHANGED flightVars
    BY <1>1, <1>3, <2>1, <2>2 DEF flightVars
  <2>3. ASSUME NEW f \in FlightIds, flights' = [flights EXCEPT ![f].waiters = @ + 1], UNCHANGED foreground
        PROVE  ForegroundExact'
    BY <1>1, <1>3, <1>a, <2>1, <2>3 DEF FlightStates
  <2>4. CASE UNCHANGED <<flights, foreground>>
    BY <1>1, <1>3, <2>1, <2>4
  <2>5. ASSUME NEW f \in FlightIds, NEW k, flights[f].phase = "free", ~AtForegroundCap,
               flights' = [flights EXCEPT ![f] =
                 [phase |-> "fetching", key |-> k, waiters |-> 1, abandoned |-> FALSE, res |-> NoResult]],
               foreground' = foreground + 1
        PROVE  ForegroundExact'
    <3>1. f \notin Flyers /\ Flyers' = Flyers \cup {f}
      BY <1>a, <2>5 DEF Flyers
    <3>2. Cardinality(Flyers') = Cardinality(Flyers) + 1
      BY <3>1, WorkersFinite, FS_AddElement
    <3> QED BY <2>1, <2>5, <3>2, WorkersFinite, CapsAssumption DEF AtForegroundCap
  <2> QED BY <1>8, <2>2, <2>3, <2>4, <2>5 DEF Admit, joinOrStartFlightLocked
<1>9. ASSUME NEW c \in Callers, DirectAdmit(c)
      PROVE  ForegroundExact'
  <2>1. Flyers' = Flyers
    BY <1>3, <1>9 DEF DirectAdmit
  <2>2. CASE Go(c, "refused") /\ UNCHANGED foreground
    BY <1>1, <1>2, <1>9, <2>1, <2>2 DEF DirectAdmit
  <2>3. CASE ~AtForegroundCap /\ Go(c, "directFetch") /\ foreground' = foreground + 1
    <3>1. c \notin Directs /\ Directs' = Directs \cup {c}
      BY <1>9, <1>a, <2>3 DEF Directs, Go, DirectAdmit
    <3>2. Cardinality(Directs') = Cardinality(Directs) + 1
      BY <3>1, WorkersFinite, FS_AddElement
    <3> QED BY <2>1, <2>3, <3>2, WorkersFinite, CapsAssumption DEF AtForegroundCap
  <2> QED BY <1>9, <2>2, <2>3 DEF DirectAdmit
<1>10. ASSUME NEW c \in Callers, DirectFetch(c)
       PROVE  ForegroundExact'
  <2>1. Flyers' = Flyers
    BY <1>3, <1>10 DEF DirectFetch
  <2>2. PICK where : Go(c, where) /\ where # "directFetch" /\ pc[c] = "directFetch"
    BY <1>10 DEF DirectFetch
  <2>3. c \in Directs /\ Directs' = Directs \ {c}
    BY <1>a, <2>2 DEF Directs, Go
  <2>4. Cardinality(Directs') = Cardinality(Directs) - 1
    BY <2>3, WorkersFinite, FS_RemoveElement
  <2> QED BY <1>10, <2>1, <2>4, WorkersFinite, CapsAssumption DEF DirectFetch
<1>11. ASSUME NEW f \in FlightIds, FlightFetch(f)
       PROVE  ForegroundExact'
  <2>1. Flyers' = Flyers
    BY <1>3, <1>11, <1>a DEF FlightFetch, FlightStates
  <2> QED BY <1>1, <1>4, <1>11, <2>1 DEF FlightFetch, callVars
<1>12. ASSUME NEW f \in FlightIds, runFlight(f)
       PROVE  ForegroundExact'
  <2>1. f \in Flyers /\ Flyers' = Flyers \ {f}
    BY <1>12, <1>a DEF runFlight, Flyers, IdleFlight
  <2>2. Cardinality(Flyers') = Cardinality(Flyers) - 1
    BY <2>1, WorkersFinite, FS_RemoveElement
  <2>3. Directs' = Directs /\ foreground' = foreground - 1
    BY <1>4, <1>12 DEF runFlight
  <2> QED BY <2>2, <2>3, WorkersFinite, CapsAssumption
<1>13. CASE UNCHANGED <<flightVars, pc>>
  BY <1>1, <1>3, <1>4, <1>13 DEF flightVars
<1> QED BY <1>5, <1>6, <1>7, <1>8, <1>9, <1>10, <1>11, <1>12, <1>13
        DEF Next, vars, get, Publish, Unpublish, CooldownEnds, ContextEnds, RefreshFetch, refresh, shutdown,
            BeginShutdown, CancelLifecycle, ShutdownOk, ShutdownExpire, DiagDone, callVars

LEMMA RefreshingStep == ASSUME Inv, RefreshingExact, [Next]_vars PROVE RefreshingExact'
<1> USE DEF RefreshingExact
<1>a. refreshes \in [RefreshSlots -> RefreshStates]
  BY DEF Inv, Typed, WorkersTyped
<1>1. ASSUME UNCHANGED refreshing, \A r \in RefreshSlots : refreshes'[r].phase # "free" <=> refreshes[r].phase # "free"
      PROVE  RefreshingExact'
  BY <1>1 DEF Refreshers
<1>2. ASSUME NEW c \in Callers, Lookup(c)
      PROVE  RefreshingExact'
  <2>1. CASE UNCHANGED <<refreshes, refreshing>>
    BY <1>1, <2>1
  <2>2. ASSUME NEW r \in RefreshSlots, NEW k, refreshes[r].phase = "free", refreshing < MaxRefreshes,
               refreshes' = [refreshes EXCEPT ![r] =
                 [phase |-> "fetching", key |-> k, id |-> entries[k].id,
                  gen |-> entries[k].gen, res |-> NoResult]],
               refreshing' = refreshing + 1
        PROVE  RefreshingExact'
    <3>1. r \notin Refreshers /\ Refreshers' = Refreshers \cup {r}
      BY <1>a, <2>2 DEF Refreshers
    <3>2. Cardinality(Refreshers') = Cardinality(Refreshers) + 1
      BY <3>1, WorkersFinite, FS_AddElement
    <3> QED BY <2>2, <3>2, WorkersFinite, CapsAssumption
  <2> QED BY <1>2, <2>1, <2>2 DEF Lookup, maybeRefreshLocked, Refreshable
<1>3. ASSUME NEW r \in RefreshSlots, RefreshFetch(r)
      PROVE  RefreshingExact'
  BY <1>1, <1>3, <1>a DEF RefreshFetch, RefreshStates
<1>4. ASSUME NEW r \in RefreshSlots, refresh(r)
      PROVE  RefreshingExact'
  <2>1. r \in Refreshers /\ Refreshers' = Refreshers \ {r} /\ refreshing' = refreshing - 1
    BY <1>4, <1>a DEF refresh, EndRefresh, IdleRefresh, Refreshers
  <2>2. Cardinality(Refreshers') = Cardinality(Refreshers) - 1
    BY <2>1, WorkersFinite, FS_RemoveElement
  <2> QED BY <2>1, <2>2, WorkersFinite, CapsAssumption
<1>5. CASE UNCHANGED <<refreshes, refreshing>>
  BY <1>1, <1>5
<1> QED BY <1>2, <1>3, <1>4, <1>5, WorkerSteps

-----------------------------------------------------------------------------
Books == Inv /\ Sized /\ Recency /\ EveryMark /\ ForegroundExact /\ RefreshingExact

LEMMA BooksOpen == Init => Books
<1> SUFFICES ASSUME Init
             PROVE  Books
  OBVIOUS
<1> USE DEF Init
<1>1. Inv
  BY InitHolds
<1>2. Sized
  BY BoundsAssumption, CapsAssumption
  DEF Sized, Published, AbsentIsEmpty, FreeIsIdle, RefreshedSmall, GotSmall, Limited, Stops,
      IdleFlight, IdleRefresh, NoResult
<1>3. Recency
  BY CapsAssumption DEF Recency, Listed, Holds, Present, NoEntry
<1>4. EveryMark
  BY DEF EveryMark, MarkedOnce, Present, NoEntry
<1>5. Flyers = {} /\ Directs = {} /\ Refreshers = {}
  BY DEF Flyers, Directs, Refreshers, IdleFlight, IdleRefresh
<1>6. ForegroundExact /\ RefreshingExact
  BY <1>5, FS_EmptySet, CapsAssumption DEF ForegroundExact, RefreshingExact
<1> QED BY <1>1, <1>2, <1>3, <1>4, <1>6 DEF Books

LEMMA BooksStep == Books /\ [Next]_vars => Books'
BY StepKeeps, SizedStep, RecencyStep, MarksStep, ForegroundStep, RefreshingStep DEF Books

LEMMA BooksTyped == Books => TypeOK
<1> SUFFICES ASSUME Books
             PROVE  TypeOK
  OBVIOUS
<1>1. /\ Typed /\ Sized /\ Listed(lru)
  BY DEF Books, Inv, Recency
<1>2. server \in [Keys -> [ver : 1..MaxVersion, live : BOOLEAN]]
  BY <1>1 DEF Typed, CacheTyped, Sized, Published
<1>3. ASSUME NEW k \in Keys
      PROVE  newest[k] \in 0..MaxVersion /\ entries[k].ver \in 0..MaxVersion
  <2>1. OfKey(k) /\ server[k].ver <= MaxVersion /\ server[k].ver \in Nat /\ newest[k] \in Nat
    BY <1>1, <1>2 DEF Books, Inv, EveryKey, Typed, CacheTyped, Sized, Published
  <2>2. CASE Present(k)
    BY <2>1, <2>2, BoundsAssumption DEF OfKey
  <2>3. CASE ~Present(k)
    BY <1>1, <2>1, <2>3, BoundsAssumption DEF OfKey, Sized, AbsentIsEmpty, NoEntry
  <2> QED BY <2>2, <2>3
<1>4. entries \in [Keys -> [id : Nat, gen : Nat, ver : 0..MaxVersion, refreshing : BOOLEAN, cooling : BOOLEAN]]
  <2>1. ASSUME NEW k \in Keys
        PROVE  entries[k] \in [id : Nat, gen : Nat, ver : 0..MaxVersion, refreshing : BOOLEAN, cooling : BOOLEAN]
    BY <1>1, <1>3 DEF Typed, CacheTyped, Entries
  <2> QED BY <1>1, <2>1 DEF Typed, CacheTyped
<1>5. newest \in [Keys -> 0..MaxVersion] /\ lru \in Seq(Keys)
  BY <1>1, <1>3 DEF Typed, CacheTyped, Listed
<1>6. \A a \in Answers : a.ver <= MaxVersion => a \in Results
  BY BoundsAssumption DEF Answers, Results
<1>7. ASSUME NEW f \in FlightIds
      PROVE  flights[f] \in [phase : {"free", "fetching", "fetched"}, key : Keys \cup {NoKey}, waiters : Nat,
                             abandoned : BOOLEAN, res : Results]
  <2>1. flights[f] \in FlightStates
    BY <1>1 DEF Typed, WorkersTyped
  <2>2. flights[f].res \in Results
    BY <1>1, <1>6, <2>1 DEF FlightStates, Sized, FreeIsIdle
  <2>3. flights[f].waiters \in Nat
    <3>1. CASE Flying(f)
      BY <3>1, WaitingFinite, FS_CardinalityType DEF Books, Inv, EveryFlight, OfFlight, Counted
    <3>2. CASE ~Flying(f)
      BY <1>1, <3>2 DEF Sized, FreeIsIdle, IdleFlight
    <3> QED BY <3>1, <3>2
  <2> QED BY <2>1, <2>2, <2>3 DEF FlightStates, Phases
<1>8. ASSUME NEW r \in RefreshSlots
      PROVE  refreshes[r] \in [phase : {"free", "fetching", "fetched"}, key : Keys \cup {NoKey}, id : Nat,
                               gen : Nat, res : Results]
  BY <1>1, <1>6 DEF Typed, WorkersTyped, RefreshStates, Phases, Sized, RefreshedSmall
<1>9. refreshing \in 0..MaxRefreshes /\ foreground \in 0..MaxForeground
  BY WorkersFinite, CapsAssumption DEF Books, ForegroundExact, RefreshingExact
<1>10. got \in [Callers -> Results]
  BY <1>1, <1>6 DEF Typed, CallsTyped, Sized, GotSmall
<1> QED BY <1>1, <1>2, <1>4, <1>5, <1>7, <1>8, <1>9, <1>10
        DEF TypeOK, Typed, WorkersTyped, CallsTyped, StopTyped, Sized, Limited, Stops

LEMMA BooksAreExact == Books => BooksExact
<1> SUFFICES ASSUME Books
             PROVE  BooksExact
  OBVIOUS
<1>1. TypeOK
  BY BooksTyped
<1>2. LruExact
  BY DEF Books, Recency, Listed, Holds, LruExact
<1>3. FlightAccounting
  BY DEF Books, Inv, EveryFlight, OfFlight, Owns, Counted, EveryReservation, OfReservation, Flying, FlightAccounting
<1>4. CountersExact
  BY DEF Books, ForegroundExact, RefreshingExact, Flyers, Directs, Refreshers, EveryMark, MarkedOnce, Refreshes,
         CountersExact
<1> QED BY <1>1, <1>2, <1>3, <1>4 DEF BooksExact

(* The recency list, the flights' waiters, the refreshing marks and both   *)
(* admission counters say at every instant what the workers and the        *)
(* entries are: for any capacities and any number of keys and callers.     *)
THEOREM BooksBalance == Spec => []BooksExact
BY BooksOpen, BooksStep, BooksAreExact, PTL DEF Spec
=============================================================================
