----------------------------- MODULE Readiness ------------------------------
(***************************************************************************)
(* GET ready (ready/route.ts): both dependencies are probed at the same    *)
(* time, requests that come meanwhile wait for the same probe, and its     *)
(* result is kept for a while after it is complete.                        *)
(***************************************************************************)
EXTENDS Naturals, FiniteSets

CONSTANTS
  Dependency,
  Ttl,         \* 5000 ms
  ProbeLimit,  \* every probe times out by then
  Horizon,     \* bound of the clock
  Nothing

ASSUME ReadyAssumptions ==
  Ttl \in Nat /\ ProbeLimit \in Nat /\ Nothing # "ready"

VARIABLES
  now, up,
  lastUp,   \* when a dependency last answered
  cached, pending, waiting,
  answer    \* what was answered in the last step

readyVars == <<now, up, lastUp, cached, pending, waiting, answer>>

(* Defect: seconds for milliseconds.                                       *)
FreshForSeconds(at) == now - at <= 1000 * Ttl

Fresh(at) == now - at <= Ttl

Reply(ok) == answer' = IF ok = Dependency THEN "ready" ELSE "unavailable"

NoReply == answer' = Nothing

Get ==
  /\ ~waiting
  /\ IF cached # Nothing /\ Fresh(cached.at)
     THEN Reply(cached.ok) /\ UNCHANGED <<pending, waiting>>
     ELSE /\ waiting' = TRUE
          /\ pending' = IF pending # Nothing THEN pending
                        ELSE [since |-> now, left |-> Dependency, ok |-> {}]
          /\ NoReply
  /\ UNCHANGED <<now, up, lastUp, cached>>

(* One dependency answers, or fails or times out.                          *)
Probe(d) ==
  /\ pending # Nothing /\ d \in pending.left
  /\ \E ok \in {{}, {d} \cap up} :
       pending' = [pending EXCEPT !.left = @ \ {d}, !.ok = @ \cup ok]
  /\ NoReply /\ UNCHANGED <<now, up, lastUp, cached, waiting>>

(* Promise.allSettled: the result is stamped when both are there.          *)
Settle ==
  /\ pending # Nothing /\ pending.left = {}
  /\ cached' = [at |-> now, ok |-> pending.ok]
  /\ pending' = Nothing
  /\ waiting' = FALSE
  /\ IF waiting THEN Reply(pending.ok) ELSE NoReply
  /\ UNCHANGED <<now, up, lastUp>>

(* The client of a request that waits goes away; the probe goes on.        *)
GiveUp ==
  /\ waiting /\ waiting' = FALSE
  /\ NoReply /\ UNCHANGED <<now, up, lastUp, cached, pending>>

Turn(d) ==
  /\ up' = (up \ {d}) \cup ({d} \ up)
  /\ lastUp' = [lastUp EXCEPT ![d] = now]
  /\ NoReply /\ UNCHANGED <<now, cached, pending, waiting>>

Tick ==
  /\ now < Horizon
  /\ pending # Nothing => pending.left # {} /\ now - pending.since < ProbeLimit
  /\ now' = now + 1
  /\ lastUp' = [d \in Dependency |-> IF d \in up THEN now + 1 ELSE lastUp[d]]
  /\ NoReply /\ UNCHANGED <<up, cached, pending, waiting>>

ReadyInit ==
  /\ now = 0 /\ up \in SUBSET Dependency
  /\ lastUp = [d \in Dependency |-> 0]
  /\ cached = Nothing /\ pending = Nothing /\ waiting = FALSE /\ answer = Nothing

ReadyNext ==
  \/ Get \/ Settle \/ GiveUp \/ Tick
  \/ \E d \in Dependency : Probe(d) \/ Turn(d)

----------------------------------------------------------------------------
(* "ready" is never older than the cache's life and one probe: a database  *)
(* or a bucket that was gone for longer is never called ready, however     *)
(* requests overlap, share a probe or are given up (GET ready).            *)
ReadyIsRecent ==
  answer = "ready" =>
    \A d \in Dependency : now - lastUp[d] <= Ttl + ProbeLimit

=============================================================================
