------------------------------ MODULE MCTeardown ------------------------------
(***************************************************************************)
(* TLC instances of what must end with a client: the client's own teardown *)
(* (ClientLifecycle), the prompt cache (PromptCache) and the score queue   *)
(* (ScoreQueue).  They share no state: a behaviour is one of any, and the  *)
(* others stay as they were.                                               *)
(***************************************************************************)
EXTENDS ClientLifecycle, Sequences

CONSTANTS k1, c1, c2, NoKey, NoFlight,      \* a prompt, two callers of GetPrompt
          s1, s2, f1, p1, NoScore   \* two Enqueue calls, a Flush and a Shutdown of the score queue

VARIABLES part,   \* the component the behaviour is one of
          server, entries, lru, newest, reserved, flights, foreground, refreshes, refreshing, diags,
          closing, canceled, stopper, pc, key, gone, mine, got, calls,
          call, buf, log, completed, wake, space, started, halted, aborted, disp, inflight, tries, outcome,
          stored, handlers, flush, target, waiters, released, stop

promptVars == <<server, entries, lru, newest, reserved, flights, foreground, refreshes, refreshing, diags,
                closing, canceled, stopper, pc, key, gone, mine, got, calls>>
queueVars == <<call, buf, log, completed, wake, space, started, halted, aborted, disp, inflight, tries, outcome,
               stored, handlers, flush, target, waiters, released, stop>>

Prompts == INSTANCE PromptCache WITH
  Keys <- {k1}, Callers <- {c1, c2},
  MaxEntries <- 1, MaxRefreshes <- 1, MaxForeground <- 2, DiagSlots <- 1,
  MaxVersion <- 1, MaxCalls <- 2, MaxShutdowns <- 1

Queue == INSTANCE ScoreQueue WITH
  stopped <- halted, canceled <- aborted, diags <- handlers,
  Scores <- {s1, s2}, Flushers <- {f1}, Stoppers <- {p1},
  Capacity <- 1, BlockOnFull <- TRUE, RetryEnabled <- FALSE, MaxTries <- 1, DiagSlots <- 1

MCInit == part \in {"prompts", "client", "queue"} /\ Init /\ Prompts!Init /\ Queue!Init
PromptsNext == part = "prompts" /\ Prompts!Next /\ UNCHANGED <<part, vars, queueVars>>
ClientNext == part = "client" /\ Next /\ UNCHANGED <<part, promptVars, queueVars>>
QueueNext == part = "queue" /\ Queue!Next /\ UNCHANGED <<part, vars, promptVars>>
MCNext == PromptsNext \/ ClientNext \/ QueueNext

\* The fairness of each, of the behaviours that are its own.
MCFairness ==
  /\ WF_promptVars(part = "prompts" /\ Prompts!Running)
  /\ WF_vars(part = "client" /\ Running)
  /\ WF_queueVars(part = "queue" /\ Queue!Running)
MCSpec == MCInit /\ [][MCNext]_<<part, vars, promptVars, queueVars>> /\ MCFairness

\* Every call returns: Client.Shutdown, GetPrompt and the cache's shutdown, and
\* the score client's Enqueue, Flush and Shutdown.
EveryCallReturns == <>[](NoCallRuns /\ Prompts!NoCallRuns /\ Queue!NoCallRuns)
=============================================================================
