----------------------------- MODULE PromptCache ------------------------------
(***************************************************************************)
(* promptCache: GetPrompt's cache with stale-while-revalidate, one shared  *)
(* miss flight per key, bounded background refreshes with a cooldown, LRU  *)
(* eviction, and the admission gate Shutdown closes.                       *)
(*                                                                         *)
(* Every region under promptCache.mu is one step, and so is every select   *)
(* and every check of the caller's context.  A caller makes calls one      *)
(* after another; its context may end at any point of a call.  Prompt      *)
(* contents are reduced to the version the server held when it was read.   *)
(* Time is abstract: a hit may find the entry fresh or past the call's own *)
(* TTL, and a cooldown may end at any moment.  Entries carry an identity,  *)
(* as the pointer the code compares; an identity is reused once no one     *)
(* holds it.  What a failed call returns, its fallback or its error, is    *)
(* "failed" in both cases.                                                 *)
(***************************************************************************)
EXTENDS Naturals, Sequences, FiniteSets

CONSTANTS
  Keys, Callers,
  MaxEntries,     \* maxPromptCacheEntries
  MaxRefreshes,   \* maxPromptRefreshes
  MaxForeground,  \* maxPromptForeground
  DiagSlots,      \* maxConcurrentPromptDiagnostics
  MaxVersion,     \* bound: versions the server publishes of a key
  MaxCalls,       \* bound: calls one caller makes
  MaxShutdowns,   \* bound: 1 if the client is shut down at all
  NoKey, NoFlight

ASSUME CapsAssumption ==
  /\ MaxEntries \in Nat \ {0} /\ MaxRefreshes \in Nat /\ MaxForeground \in Nat
  /\ DiagSlots \in Nat
ASSUME BoundsAssumption == MaxVersion \in Nat \ {0} /\ MaxCalls \in Nat /\ MaxShutdowns \in 0..1
ASSUME KeyAssumption == NoKey \notin Keys /\ NoFlight \notin 1..MaxForeground
ASSUME FiniteAssumption == IsFiniteSet(Keys) /\ IsFiniteSet(Callers)

VARIABLES
  server,      \* [Keys -> [ver, live]], what the prompts API holds
  entries,     \* [Keys -> entry], an entry with id 0 is absent
  lru,         \* keys, most recently used first
  reserved,    \* [Keys -> flight or NoFlight], the flights map
  flights,     \* [1..MaxForeground -> flight worker]
  refreshes,   \* [1..MaxRefreshes -> refresh worker]
  refreshing, foreground,   \* the two admission counters
  closing, canceled,        \* the admission gate, the lifecycle context
  pc, key,     \* each call's program counter and key
  gone,        \* whether the call's own context has ended
  mine,        \* the flight the call holds
  got,         \* what the flight published, once its done channel is closed
  calls,       \* calls begun
  stopper,     \* the Shutdown call
  diags,       \* diagnostic handlers running
  newest       \* [Keys -> Nat]: newest version ever installed (history)

cacheVars   == <<entries, lru, newest>>
flightVars  == <<reserved, flights, foreground>>
refreshVars == <<refreshes, refreshing, diags>>
stopVars    == <<closing, canceled, stopper>>
callVars    == <<pc, key, gone, mine, got, calls>>
vars == <<server, cacheVars, flightVars, refreshVars, stopVars, callVars>>

FlightIds    == 1..MaxForeground
RefreshSlots == 1..MaxRefreshes

NoEntry == [id |-> 0, gen |-> 0, ver |-> 0, refreshing |-> FALSE, cooling |-> FALSE]
NoResult == [kind |-> "none", ver |-> 0]
IdleFlight == [phase |-> "free", key |-> NoKey, waiters |-> 0, abandoned |-> FALSE,
               res |-> NoResult]
IdleRefresh == [phase |-> "free", key |-> NoKey, id |-> 0, gen |-> 0, res |-> NoResult]

Returned == {"idle", "hit", "server", "failed", "foreignCancel", "canceled"}

Init ==
  /\ server = [k \in Keys |-> [ver |-> 1, live |-> TRUE]]
  /\ entries = [k \in Keys |-> NoEntry] /\ lru = <<>>
  /\ newest = [k \in Keys |-> 0]
  /\ reserved = [k \in Keys |-> NoFlight]
  /\ flights = [f \in FlightIds |-> IdleFlight] /\ foreground = 0
  /\ refreshes = [r \in RefreshSlots |-> IdleRefresh] /\ refreshing = 0 /\ diags = 0
  /\ closing = FALSE /\ canceled = FALSE /\ stopper = "idle"
  /\ pc = [c \in Callers |-> "idle"] /\ key = [c \in Callers |-> NoKey]
  /\ gone = [c \in Callers |-> FALSE] /\ mine = [c \in Callers |-> NoFlight]
  /\ got = [c \in Callers |-> NoResult] /\ calls = [c \in Callers |-> 0]

Present(k) == entries[k].id # 0

Go(c, where) == pc' = [pc EXCEPT ![c] = where]

-----------------------------------------------------------------------------
(* The prompts API and one Fetch against it.  Fetch returns what the       *)
(* server held when it answered, ErrPromptNotFound, or an error; it may    *)
(* still succeed after its context has ended.                              *)

Publish(k) ==
  /\ server[k].ver < MaxVersion
  /\ server' = [server EXCEPT ![k] = [ver |-> @.ver + 1, live |-> TRUE]]
  /\ UNCHANGED <<cacheVars, flightVars, refreshVars, stopVars, callVars>>

Unpublish(k) ==   \* bound: a key's last version stays
  /\ server[k].live /\ server[k].ver < MaxVersion
  /\ server' = [server EXCEPT ![k].live = FALSE]
  /\ UNCHANGED <<cacheVars, flightVars, refreshVars, stopVars, callVars>>

Fetch(k, ended) ==
  {IF server[k].live THEN [kind |-> "ok", ver |-> server[k].ver]
                     ELSE [kind |-> "notFound", ver |-> 0],
   [kind |-> "error", ver |-> 0]}
  \cup (IF ended THEN {[kind |-> "canceled", ver |-> 0]} ELSE {})

-----------------------------------------------------------------------------
(* Cache entries and their recency                                         *)

\* list.Remove of the key's element: what is behind it moves up.
Without(s, k) == [i \in 1..(Len(s) - 1) |-> s[IF \E j \in 1..i : s[j] = k THEN i + 1 ELSE i]]

FreshId == CHOOSE n \in 1..(Cardinality(Keys) + MaxRefreshes + 1) :
  /\ \A k \in Keys : entries[k].id # n
  /\ \A r \in RefreshSlots : refreshes[r].id # n

storeLocked(k, ver) ==
  LET order == <<k>> \o lru
      victim == IF Len(order) > MaxEntries THEN order[Len(order)] ELSE NoKey
  IN /\ lru' = IF victim = NoKey THEN order ELSE Without(order, victim)
     /\ entries' = [q \in Keys |->
          IF q = k THEN [NoEntry EXCEPT !.id = FreshId, !.gen = 1, !.ver = ver]
          ELSE IF q = victim THEN NoEntry ELSE entries[q]]
     /\ newest' = [newest EXCEPT ![k] = IF @ > ver THEN @ ELSE ver]

CooldownEnds(k) ==
  /\ entries[k].cooling
  /\ entries' = [entries EXCEPT ![k].cooling = FALSE]
  /\ UNCHANGED <<server, lru, newest, flightVars, refreshVars, stopVars, callVars>>

reportAsync == diags' = IF diags < DiagSlots THEN diags + 1 ELSE diags

DiagDone ==
  /\ diags > 0
  /\ diags' = diags - 1
  /\ UNCHANGED <<server, cacheVars, flightVars, refreshes, refreshing, stopVars, callVars>>

AtForegroundCap == foreground >= MaxForeground

-----------------------------------------------------------------------------
(* get: cached lookups                                                     *)

Begin(c) ==
  /\ pc[c] \in Returned /\ calls[c] < MaxCalls
  /\ calls' = [calls EXCEPT ![c] = @ + 1]
  /\ \E k \in Keys : key' = [key EXCEPT ![c] = k]
  /\ gone' = [gone EXCEPT ![c] = FALSE]
  /\ Go(c, "lookup") \/ Go(c, "directCheck")
  /\ UNCHANGED <<server, cacheVars, flightVars, refreshVars, stopVars, mine, got>>

ContextEnds(c) ==
  /\ pc[c] \notin Returned /\ ~gone[c]
  /\ gone' = [gone EXCEPT ![c] = TRUE]
  /\ UNCHANGED <<server, cacheVars, flightVars, refreshVars, stopVars, pc, key, mine, got, calls>>

MutRefreshable(k) ==
  /\ ~entries[k].refreshing
  /\ refreshing < MaxRefreshes /\ ~entries[k].cooling

Refreshable(k) ==
  /\ ~entries[k].refreshing /\ ~closing
  /\ refreshing < MaxRefreshes /\ ~entries[k].cooling

maybeRefreshLocked(k) ==
  IF Refreshable(k)
    THEN \E r \in RefreshSlots :
           /\ refreshes[r].phase = "free"
           /\ \A q \in 1..(r - 1) : refreshes[q].phase # "free"
           /\ refreshes' = [refreshes EXCEPT ![r] =
                [phase |-> "fetching", key |-> k, id |-> entries[k].id,
                 gen |-> entries[k].gen, res |-> NoResult]]
           /\ refreshing' = refreshing + 1
           /\ entries' = [entries EXCEPT ![k].refreshing = TRUE]
    ELSE UNCHANGED <<refreshes, refreshing, entries>>

Lookup(c) ==
  /\ pc[c] = "lookup"
  /\ IF Present(key[c])
       THEN /\ lru' = <<key[c]>> \o Without(lru, key[c])
            /\ \/ UNCHANGED <<refreshes, refreshing, entries>>   \* fresh
               \/ maybeRefreshLocked(key[c])                     \* past its TTL
            /\ Go(c, "hit")
       ELSE Go(c, "missCheck") /\ UNCHANGED <<lru, refreshes, refreshing, entries>>
  /\ UNCHANGED <<server, newest, flightVars, diags, stopVars, key, gone, mine, got, calls>>

MissCheck(c) ==
  /\ pc[c] = "missCheck"
  /\ Go(c, IF gone[c] THEN "canceled" ELSE "admit")
  /\ UNCHANGED <<server, cacheVars, flightVars, refreshVars, stopVars, key, gone, mine, got, calls>>

Hold(c, f, where) == mine' = [mine EXCEPT ![c] = f] /\ Go(c, where)

MutJoinable(f) == flights[f].phase # "free"

Joinable(f) == ~flights[f].abandoned

joinOrStartFlightLocked(c) ==
  LET k == key[c] IN
  \/ /\ closing
     /\ Go(c, "refused") /\ UNCHANGED <<mine, flightVars>>
  \/ \E f \in FlightIds :
     /\ ~closing /\ reserved[k] = f
     /\ IF Joinable(f)
          THEN /\ Hold(c, f, "joined")
               /\ flights' = [flights EXCEPT ![f].waiters = @ + 1]
          ELSE Hold(c, f, "waitOut") /\ UNCHANGED flights
     /\ UNCHANGED <<reserved, foreground>>
  \/ /\ ~closing /\ reserved[k] = NoFlight /\ AtForegroundCap
     /\ Go(c, "refused") /\ UNCHANGED <<mine, flightVars>>
  \/ /\ ~closing /\ reserved[k] = NoFlight /\ ~AtForegroundCap
     /\ \E f \in FlightIds :
          /\ flights[f].phase = "free"
          /\ \A g \in 1..(f - 1) : flights[g].phase # "free"
          /\ flights' = [flights EXCEPT ![f] =
               [phase |-> "fetching", key |-> k, waiters |-> 1, abandoned |-> FALSE,
                res |-> NoResult]]
          /\ reserved' = [reserved EXCEPT ![k] = f]
          /\ Hold(c, f, "joined")
     /\ foreground' = foreground + 1

Admit(c) ==
  /\ pc[c] = "admit"
  /\ IF Present(key[c])
       THEN Go(c, "lookup") /\ UNCHANGED <<mine, flightVars>>
       ELSE joinOrStartFlightLocked(c)
  /\ UNCHANGED <<server, cacheVars, refreshVars, stopVars, key, gone, got, calls>>

Refused(c) ==   \* closing, or the foreground cap
  /\ pc[c] = "refused"
  /\ Go(c, IF gone[c] THEN "canceled" ELSE "failed")
  /\ UNCHANGED <<server, cacheVars, flightVars, refreshVars, stopVars, key, gone, mine, got, calls>>

Release(c, where) ==
  /\ mine' = [mine EXCEPT ![c] = NoFlight]
  /\ got' = [got EXCEPT ![c] = NoResult]
  /\ Go(c, where)

FlightDone(c) == got[c].kind # "none"

WaitOut(c) ==
  /\ pc[c] = "waitOut"
  /\ \/ FlightDone(c) /\ Release(c, IF gone[c] THEN "canceled" ELSE "lookup")
     \/ gone[c] /\ Release(c, "canceled")
  /\ UNCHANGED <<server, cacheVars, flightVars, refreshVars, stopVars, key, gone, calls>>

Outcome(c) ==
  IF gone[c] THEN "canceled"
  ELSE IF got[c].kind = "ok" THEN "server"
  ELSE IF got[c].kind = "canceled" THEN "foreignCancel" ELSE "failed"

AwaitFlight(c) ==
  /\ \/ pc[c] = "joined" /\ Go(c, IF gone[c] THEN "leave" ELSE "await") /\ UNCHANGED <<mine, got>>
     \/ pc[c] = "await" /\ gone[c] /\ Go(c, "leave") /\ UNCHANGED <<mine, got>>
     \/ pc[c] = "await" /\ FlightDone(c) /\ Release(c, Outcome(c))
  /\ UNCHANGED <<server, cacheVars, flightVars, refreshVars, stopVars, key, gone, calls>>

MutWithoutOne(fl) == [fl EXCEPT !.waiters = @ - 1, !.abandoned = @ \/ fl.waiters = 0]

WithoutOne(fl) == [fl EXCEPT !.waiters = @ - 1, !.abandoned = @ \/ fl.waiters = 1]

leaveFlight(c) ==
  /\ pc[c] = "leave"
  /\ IF FlightDone(c)
       THEN UNCHANGED flights   \* the flight is over, its counters unread
       ELSE flights' = [flights EXCEPT ![mine[c]] = WithoutOne(@)]
  /\ Release(c, "canceled")
  /\ UNCHANGED <<server, cacheVars, reserved, foreground, refreshVars, stopVars, key, gone, calls>>

-----------------------------------------------------------------------------
(* get with DisableCache                                                   *)

DirectCheck(c) ==
  /\ pc[c] = "directCheck"
  /\ Go(c, IF gone[c] THEN "canceled" ELSE "directAdmit")
  /\ UNCHANGED <<server, cacheVars, flightVars, refreshVars, stopVars, key, gone, mine, got, calls>>

DirectAdmit(c) ==
  /\ pc[c] = "directAdmit"
  /\ IF closing \/ AtForegroundCap
       THEN Go(c, "refused") /\ UNCHANGED foreground
       ELSE Go(c, "directFetch") /\ foreground' = foreground + 1
  /\ UNCHANGED <<server, cacheVars, reserved, flights, refreshVars, stopVars, key, gone, mine, got, calls>>

DirectFetch(c) ==
  /\ pc[c] = "directFetch"
  /\ \E res \in Fetch(key[c], gone[c] \/ canceled) :
       Go(c, IF gone[c] THEN "canceled" ELSE IF res.kind = "ok" THEN "server" ELSE "failed")
  /\ foreground' = foreground - 1
  /\ UNCHANGED <<server, cacheVars, reserved, flights, refreshVars, stopVars, key, gone, mine, got, calls>>

-----------------------------------------------------------------------------
(* Workers: the shared miss fetch and the background refresh               *)

FlightFetch(f) ==
  /\ flights[f].phase = "fetching"
  /\ \E res \in Fetch(flights[f].key, flights[f].abandoned \/ canceled) :
       flights' = [flights EXCEPT ![f].phase = "fetched", ![f].res = res]
  /\ UNCHANGED <<server, cacheVars, reserved, foreground, refreshVars, stopVars, callVars>>

Unreserve(f) == reserved' = [reserved EXCEPT ![flights[f].key] = NoFlight]

runFlight(f) ==
  LET fl == flights[f] IN
  /\ fl.phase = "fetched"
  /\ IF fl.res.kind = "ok" THEN storeLocked(fl.key, fl.res.ver) ELSE UNCHANGED cacheVars
  /\ Unreserve(f)
  /\ foreground' = foreground - 1
  /\ got' = [c \in Callers |-> IF mine[c] = f THEN fl.res ELSE got[c]]
  /\ flights' = [flights EXCEPT ![f] = IdleFlight]
  /\ mine' = [c \in Callers |-> IF mine[c] = f THEN NoFlight ELSE mine[c]]
  /\ UNCHANGED <<server, refreshVars, stopVars, pc, key, gone, calls>>

RefreshFetch(r) ==
  /\ refreshes[r].phase = "fetching"
  /\ \E res \in Fetch(refreshes[r].key, canceled) :
       refreshes' = [refreshes EXCEPT ![r].phase = "fetched", ![r].res = res]
  /\ UNCHANGED <<server, cacheVars, flightVars, refreshing, diags, stopVars, callVars>>

MutStillInstalled(r) == Present(refreshes[r].key)

StillInstalled(r) ==
  entries[refreshes[r].key].id = refreshes[r].id /\ entries[refreshes[r].key].gen = refreshes[r].gen

CoolDown(entry) == [entry EXCEPT !.refreshing = FALSE, !.cooling = TRUE]

EndRefresh(r) == refreshes' = [refreshes EXCEPT ![r] = IdleRefresh]

refresh(r) ==
  LET k == refreshes[r].key
      res == refreshes[r].res
  IN
  /\ refreshes[r].phase = "fetched"
  /\ refreshing' = refreshing - 1
  /\ EndRefresh(r)
  /\ \/ ~StillInstalled(r) /\ UNCHANGED <<cacheVars, diags>>
     \/ /\ StillInstalled(r) /\ res.kind = "ok"
        /\ entries' = [entries EXCEPT ![k].refreshing = FALSE, ![k].ver = res.ver, ![k].gen = @ + 1]
        /\ newest' = [newest EXCEPT ![k] = IF @ > res.ver THEN @ ELSE res.ver]
        /\ UNCHANGED <<lru, diags>>
     \/ /\ StillInstalled(r) /\ res.kind = "notFound"
        /\ entries' = [entries EXCEPT ![k] = NoEntry]
        /\ lru' = Without(lru, k)
        /\ reportAsync /\ UNCHANGED newest
     \/ /\ StillInstalled(r) /\ res.kind \in {"error", "canceled"} /\ canceled
        /\ entries' = [entries EXCEPT ![k].refreshing = FALSE]
        /\ UNCHANGED <<lru, newest, diags>>
     \/ /\ StillInstalled(r) /\ res.kind = "error" /\ ~canceled
        /\ entries' = [entries EXCEPT ![k] = CoolDown(@)]
        /\ reportAsync /\ UNCHANGED <<lru, newest>>
  /\ UNCHANGED <<server, flightVars, stopVars, callVars>>

-----------------------------------------------------------------------------
(* Shutdown: beginShutdown (close the gate, cancel the lifecycle), drain   *)

BeginShutdown ==
  /\ stopper = "idle" /\ MaxShutdowns = 1
  /\ closing' = TRUE /\ stopper' = "cancel"
  /\ UNCHANGED <<server, cacheVars, flightVars, refreshVars, canceled, callVars>>

CancelLifecycle ==
  /\ stopper = "cancel"
  /\ canceled' = TRUE /\ stopper' = "drain"
  /\ UNCHANGED <<server, cacheVars, flightVars, refreshVars, closing, callVars>>

Drained ==   \* the WaitGroup's counter is zero
  /\ \A f \in FlightIds : flights[f].phase = "free"
  /\ \A r \in RefreshSlots : refreshes[r].phase = "free"
  /\ \A c \in Callers : pc[c] # "directFetch"

ShutdownOk ==
  /\ stopper = "drain" /\ Drained
  /\ stopper' = "ok"
  /\ UNCHANGED <<server, cacheVars, flightVars, refreshVars, closing, canceled, callVars>>

ShutdownExpire ==
  /\ stopper = "drain"
  /\ stopper' = "expired"
  /\ UNCHANGED <<server, cacheVars, flightVars, refreshVars, closing, canceled, callVars>>

-----------------------------------------------------------------------------
get(c) == \/ Lookup(c) \/ MissCheck(c) \/ Admit(c) \/ Refused(c) \/ WaitOut(c)
          \/ AwaitFlight(c) \/ leaveFlight(c)
          \/ DirectCheck(c) \/ DirectAdmit(c) \/ DirectFetch(c)

shutdown == BeginShutdown \/ CancelLifecycle \/ ShutdownOk \/ ShutdownExpire

Next ==
  \/ \E k \in Keys : Publish(k) \/ Unpublish(k) \/ CooldownEnds(k)
  \/ \E c \in Callers : Begin(c) \/ ContextEnds(c) \/ get(c)
  \/ \E f \in FlightIds : FlightFetch(f) \/ runFlight(f)
  \/ \E r \in RefreshSlots : RefreshFetch(r) \/ refresh(r)
  \/ shutdown
  \/ DiagDone

Spec == Init /\ [][Next]_vars

(* Goroutines run, and every fetch ends within its budget.  Calls being    *)
(* finite, it is enough that one that can take a step does.  Contexts need *)
(* not end, cooldowns may last and diagnostic handlers may hang.           *)
Running ==
  \/ \E c \in Callers : get(c)
  \/ \E f \in FlightIds : FlightFetch(f) \/ runFlight(f)
  \/ \E r \in RefreshSlots : RefreshFetch(r) \/ refresh(r)
  \/ CancelLifecycle \/ ShutdownOk
Fairness == WF_vars(Running)

FairSpec == Spec /\ Fairness

-----------------------------------------------------------------------------
(* Properties                                                              *)

Kinds == {"none", "ok", "notFound", "error", "canceled"}
Results == [kind : Kinds, ver : 0..MaxVersion]
PcStates == Returned \cup {"lookup", "missCheck", "admit", "refused", "waitOut", "joined",
                           "await", "leave", "directCheck", "directAdmit", "directFetch"}
Holding == {"waitOut", "joined", "await", "leave"}

(* Every variable keeps its type.                                          *)
TypeOK ==
  /\ server \in [Keys -> [ver : 1..MaxVersion, live : BOOLEAN]]
  /\ entries \in [Keys -> [id : Nat, gen : Nat, ver : 0..MaxVersion,
                          refreshing : BOOLEAN, cooling : BOOLEAN]]
  /\ lru \in Seq(Keys) /\ newest \in [Keys -> 0..MaxVersion]
  /\ reserved \in [Keys -> FlightIds \cup {NoFlight}]
  /\ flights \in [FlightIds -> [phase : {"free", "fetching", "fetched"},
        key : Keys \cup {NoKey}, waiters : Nat, abandoned : BOOLEAN, res : Results]]
  /\ refreshes \in [RefreshSlots -> [phase : {"free", "fetching", "fetched"},
        key : Keys \cup {NoKey}, id : Nat, gen : Nat, res : Results]]
  /\ refreshing \in 0..MaxRefreshes /\ foreground \in 0..MaxForeground
  /\ diags \in 0..DiagSlots
  /\ closing \in BOOLEAN /\ canceled \in BOOLEAN
  /\ stopper \in {"idle", "cancel", "drain", "ok", "expired"}
  /\ pc \in [Callers -> PcStates] /\ key \in [Callers -> Keys \cup {NoKey}]
  /\ gone \in [Callers -> BOOLEAN] /\ mine \in [Callers -> FlightIds \cup {NoFlight}]
  /\ got \in [Callers -> Results] /\ calls \in [Callers -> 0..MaxCalls]

(* The cache never goes backward: what it holds for a key is the newest    *)
(* version it ever held, although slow refreshes commit after the entry    *)
(* they refreshed was evicted and fetched again.                           *)
NewestWins == \A k \in Keys : Present(k) => entries[k].ver = newest[k]

(* The recency list holds each cached key exactly once and the cap holds:  *)
(* a commit never finds its key already cached, which storeLocked assumes. *)
LruExact ==
  /\ Len(lru) <= MaxEntries
  /\ \A k \in Keys : Present(k) <=> \E i \in 1..Len(lru) : lru[i] = k
  /\ \A i, j \in 1..Len(lru) : lru[i] = lru[j] => i = j

(* One flight runs per key, its reservation lasts as long as its worker,   *)
(* it counts exactly the callers that have not left, and it is abandoned   *)
(* exactly when none is left.                                              *)
Waiting(f) == {c \in Callers : mine[c] = f /\ pc[c] \in {"joined", "await", "leave"}}

FlightAccounting ==
  /\ \A f \in FlightIds : flights[f].phase # "free" =>
       /\ reserved[flights[f].key] = f
       /\ flights[f].waiters = Cardinality(Waiting(f))
       /\ flights[f].abandoned <=> Waiting(f) = {}
  /\ \A k \in Keys : reserved[k] # NoFlight =>
       flights[reserved[k]].phase # "free" /\ flights[reserved[k]].key = k

NoForeignCancel == \A c \in Callers : pc[c] = "foreignCancel" => canceled
CancelWins == \A c \in Callers : pc[c] \in {"server", "failed", "foreignCancel"} => ~gone[c]

(* Cancellation is each caller's own: none receives that of a flight other *)
(* callers abandoned, and on a miss its own wins over any result, fallback *)
(* or admission error.                                                     *)
CancellationIsOwn == NoForeignCancel /\ CancelWins

(* Both admission counters equal the work they bound, and an entry is      *)
(* marked refreshing exactly while a refresh of it runs, so no entry is    *)
(* refreshed twice at once or never again.                                 *)
CountersExact ==
  /\ foreground = Cardinality({f \in FlightIds : flights[f].phase # "free"})
                  + Cardinality({c \in Callers : pc[c] = "directFetch"})
  /\ refreshing = Cardinality({r \in RefreshSlots : refreshes[r].phase # "free"})
  /\ \A k \in Keys : Present(k) =>
       (entries[k].refreshing <=> \E r \in RefreshSlots :
          refreshes[r].phase # "free" /\ refreshes[r].key = k /\ refreshes[r].id = entries[k].id)

(* The books balance: the recency list, the flights' waiters and both      *)
(* counters say what the workers and the entries are, at every instant.    *)
BooksExact == TypeOK /\ LruExact /\ FlightAccounting /\ CountersExact

(* Once shutdown has returned nil no fetch of any kind runs, then or later. *)
ShutdownDrains == stopper = "ok" => Drained

NoCallRuns == /\ \A c \in Callers : pc[c] \in Returned
              /\ stopper \notin {"cancel", "drain"}

(* Every GetPrompt call returns, whether or not its context ends, and the  *)
(* drain completes even if Shutdown's never does: calls being finite, from *)
(* some instant on none runs.                                              *)
CallsReturn == <>[]NoCallRuns
=============================================================================
