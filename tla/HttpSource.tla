----------------------------- MODULE HttpSource -----------------------------
(***************************************************************************)
(* The export connector (internal/httpsource/service.go): consumer queries *)
(* and readiness probes read one source concurrently, each kind from slots *)
(* of its own, and every access that says something about the source sets  *)
(* two gauges which scrapes read.                                          *)
(*                                                                         *)
(* A step ends where another goroutine can see the difference: at a slot,  *)
(* at the mutex, at a gauge, and where cancellation is looked at.  What a  *)
(* single source read does is one step with any of its results.            *)
(***************************************************************************)
EXTENDS Naturals, Sequences, FiniteSets

CONSTANTS
  Queries,      \* calls of /api/data
  Probes,       \* calls of /readyz
  Scrapes,      \* calls of /metrics, each of which repeats
  QuerySlots, ProbeSlots,
  Failures,     \* the ways in which an access may fail
  None

ASSUME SlotsAssumption ==
  /\ QuerySlots \in Nat \ {0} /\ ProbeSlots \in Nat \ {0} /\ None \notin Nat
  /\ Queries \cap Probes = {} /\ None \notin Queries \cup Probes \cup Scrapes
  /\ (Queries \cup Probes) \cap Scrapes = {}
  /\ Failures \subseteq {"configuration_error", "upstream_error", "invalid_response"}

Calls == Queries \cup Probes
Operations == {"query", "probe"}
Gauges == {"ready", "observed"}
Accessed == {"success"} \cup Failures
Results == Accessed \cup {"disabled", "busy", "cancelled"}

VARIABLES
  enabled,    \* the release flag the process was started with
  pc,         \* where each call stands
  result,     \* what fetch has returned to it so far
  cancelled,  \* calls whose context is done
  slots,      \* tokens in the channels queries and probes
  gauge,      \* the gauges ready and observed
  mutex,      \* who holds observationMu
  scrape,     \* what each scrape has read: a gauge's value or None
  requests,   \* the counter, by result
  abandoned,  \* history: calls cancelled before their access completed
  recorded,   \* history: the calls that set the gauges, in order
  latest      \* history: the access that completed last

vars == <<enabled, pc, result, cancelled, slots, gauge, mutex, scrape, requests, abandoned, recorded, latest>>

Unread == [g \in Gauges |-> None]

Init ==
  /\ enabled \in BOOLEAN
  /\ pc = [c \in Calls |-> "start"] /\ result = [c \in Calls |-> None]
  /\ cancelled = {} /\ slots = [o \in Operations |-> 0]
  /\ gauge = [g \in Gauges |-> 0] /\ mutex = None
  /\ scrape = [s \in Scrapes |-> Unread]
  /\ requests = [r \in Results |-> 0]
  /\ abandoned = {} /\ recorded = <<>> /\ latest = None

Capacity == [query |-> QuerySlots, probe |-> ProbeSlots]

operation(c) == IF c \in Queries THEN "query" ELSE "probe"

(* Mutant: probes wait in the consumers' channel. *)
slotsOf_Shared(c) == "query"

(* The channel the call's handler passes to fetch. *)
slotsOf(c) == operation(c)

-----------------------------------------------------------------------------
(* query, readiness and fetch.                                             *)

(* A call finds the flag off; there is nothing to fetch. *)
Disabled(c) ==
  /\ pc[c] = "start" /\ ~enabled
  /\ pc' = [pc EXCEPT ![c] = "record"] /\ result' = [result EXCEPT ![c] = "disabled"]
  /\ latest' = c
  /\ UNCHANGED <<enabled, cancelled, slots, gauge, mutex, scrape, requests, abandoned, recorded>>

(* Mutant: the channel has room for one call more than it should. *)
TakeSlot_OneMore(c) ==
  /\ pc[c] = "start" /\ enabled /\ c \notin cancelled
  /\ slots[slotsOf(c)] <= Capacity[slotsOf(c)]
  /\ slots' = [slots EXCEPT ![slotsOf(c)] = @ + 1]
  /\ pc' = [pc EXCEPT ![c] = "fetch"]
  /\ UNCHANGED <<enabled, result, cancelled, gauge, mutex, scrape, requests, abandoned, recorded, latest>>

(* fetch takes a slot, or gives up at once: no call queues. *)
TakeSlot(c) ==
  /\ pc[c] = "start" /\ enabled
  /\ LET op == slotsOf(c)
     IN  \/ /\ c \notin cancelled /\ slots[op] < Capacity[op]
            /\ slots' = [slots EXCEPT ![op] = @ + 1]
            /\ pc' = [pc EXCEPT ![c] = "fetch"] /\ UNCHANGED result
         \/ /\ c \notin cancelled /\ slots[op] >= Capacity[op]
            /\ pc' = [pc EXCEPT ![c] = "classify"] /\ result' = [result EXCEPT ![c] = "busy"]
            /\ UNCHANGED slots
         \/ /\ c \in cancelled
            /\ pc' = [pc EXCEPT ![c] = "classify"] /\ result' = [result EXCEPT ![c] = "cancelled"]
            /\ UNCHANGED slots
  /\ UNCHANGED <<enabled, cancelled, gauge, mutex, scrape, requests, abandoned, recorded, latest>>

(* Mutant: every read gives back a slot of the consumers', and waits for   *)
(* one when their channel is empty.                                        *)
Fetch_WrongChannel(c) ==
  /\ pc[c] = "fetch" /\ slots["query"] > 0
  /\ \E r \in Accessed : result' = [result EXCEPT ![c] = r]
  /\ slots' = [slots EXCEPT !["query"] = @ - 1]
  /\ pc' = [pc EXCEPT ![c] = "classify"]
  /\ UNCHANGED <<enabled, cancelled, gauge, mutex, scrape, requests, abandoned, recorded, latest>>

(* The configuration is read, the source answers or fails; a cancellation  *)
(* may go unnoticed.  The slot is given back on every path.                *)
Fetch(c) ==
  /\ pc[c] = "fetch"
  /\ \E r \in Accessed : result' = [result EXCEPT ![c] = r]
  /\ slots' = [slots EXCEPT ![slotsOf(c)] = @ - 1]
  /\ pc' = [pc EXCEPT ![c] = "classify"]
  /\ UNCHANGED <<enabled, cancelled, gauge, mutex, scrape, requests, abandoned, recorded, latest>>

(* Mutant: the transport's own result is believed. *)
Classify_Trusting(c) ==
  /\ pc[c] = "classify" /\ pc' = [pc EXCEPT ![c] = "record"]
  /\ latest' = IF result[c] \in {"busy", "cancelled"} THEN latest ELSE c
  /\ UNCHANGED <<enabled, result, cancelled, slots, gauge, mutex, scrape, requests, abandoned, recorded>>

(* fetch's first deferred function runs last: the access is complete.      *)
Classify(c) ==
  /\ pc[c] = "classify" /\ pc' = [pc EXCEPT ![c] = "record"]
  /\ LET r == IF c \in cancelled THEN "cancelled" ELSE result[c]
     IN  /\ result' = [result EXCEPT ![c] = r]
         /\ latest' = IF r \in {"busy", "cancelled"} THEN latest ELSE c
  /\ UNCHANGED <<enabled, cancelled, slots, gauge, mutex, scrape, requests, abandoned, recorded>>

-----------------------------------------------------------------------------
(* record, and the answer after it.                                        *)

(* Every attempt is counted; saturation and cancellation end here. *)
Count(c) ==
  /\ pc[c] = "record"
  /\ requests' = [requests EXCEPT ![result[c]] = @ + 1]
  /\ pc' = [pc EXCEPT ![c] = IF result[c] \in {"busy", "cancelled"} THEN "done" ELSE "lock"]
  /\ UNCHANGED <<enabled, result, cancelled, slots, gauge, mutex, scrape, abandoned, recorded, latest>>

Lock(c) ==
  /\ pc[c] = "lock" /\ mutex = None
  /\ mutex' = c /\ pc' = [pc EXCEPT ![c] = "observed"]
  /\ UNCHANGED <<enabled, result, cancelled, slots, gauge, scrape, requests, abandoned, recorded, latest>>

(* The clock advances between two observations: their number stands for it. *)
SetObserved(c) ==
  /\ pc[c] = "observed"
  /\ recorded' = Append(recorded, c)
  /\ gauge' = [gauge EXCEPT !["observed"] = Len(recorded) + 1]
  /\ pc' = [pc EXCEPT ![c] = "ready"]
  /\ UNCHANGED <<enabled, result, cancelled, slots, mutex, scrape, requests, abandoned, latest>>

SetReady(c) ==
  /\ pc[c] = "ready"
  /\ gauge' = [gauge EXCEPT !["ready"] = IF result[c] = "success" THEN 1 ELSE 0]
  /\ pc' = [pc EXCEPT ![c] = "unlock"]
  /\ UNCHANGED <<enabled, result, cancelled, slots, mutex, scrape, requests, abandoned, recorded, latest>>

(* The caller is answered from the same result. *)
Unlock(c) ==
  /\ pc[c] = "unlock"
  /\ mutex' = None /\ pc' = [pc EXCEPT ![c] = "done"]
  /\ UNCHANGED <<enabled, result, cancelled, slots, gauge, scrape, requests, abandoned, recorded, latest>>

record(c) == Count(c) \/ Lock(c) \/ SetObserved(c) \/ SetReady(c) \/ Unlock(c)

Serve(c) == Disabled(c) \/ TakeSlot(c) \/ Fetch(c) \/ Classify(c) \/ record(c)

-----------------------------------------------------------------------------
(* Gather and the callers.                                                 *)

(* Mutant: a scrape does not wait for an observation under way. *)
GatherLock_Free(s) ==
  /\ mutex # s
  /\ mutex' = s /\ scrape' = [scrape EXCEPT ![s] = Unread]
  /\ UNCHANGED <<enabled, pc, result, cancelled, slots, gauge, requests, abandoned, recorded, latest>>

GatherLock(s) ==
  /\ mutex = None
  /\ mutex' = s /\ scrape' = [scrape EXCEPT ![s] = Unread]
  /\ UNCHANGED <<enabled, pc, result, cancelled, slots, gauge, requests, abandoned, recorded, latest>>

(* The registry collects its metrics in any order. *)
GatherRead(s) ==
  /\ mutex = s
  /\ \E g \in Gauges : scrape[s][g] = None /\ scrape' = [scrape EXCEPT ![s][g] = gauge[g]]
  /\ UNCHANGED <<enabled, pc, result, cancelled, slots, gauge, mutex, requests, abandoned, recorded, latest>>

Gathered(s) == \A g \in Gauges : scrape[s][g] # None

GatherUnlock(s) ==
  /\ mutex = s /\ Gathered(s)
  /\ mutex' = None
  /\ UNCHANGED <<enabled, pc, result, cancelled, slots, gauge, scrape, requests, abandoned, recorded, latest>>

Gather(s) == GatherLock(s) \/ GatherRead(s) \/ GatherUnlock(s)

(* External: the caller goes away, or the server shuts down. *)
Cancel(c) ==
  /\ pc[c] # "done" /\ c \notin cancelled
  /\ cancelled' = cancelled \cup {c}
  /\ abandoned' = IF pc[c] \in {"start", "fetch", "classify"} THEN abandoned \cup {c} ELSE abandoned
  /\ UNCHANGED <<enabled, pc, result, slots, gauge, mutex, scrape, requests, recorded, latest>>

Next ==
  \/ \E c \in Calls : Serve(c) \/ Cancel(c)
  \/ \E s \in Scrapes : Gather(s)

(* A handler's goroutine keeps running (the client's timeout of five       *)
(* seconds ends every source read) and a goroutine that waits for the      *)
(* mutex gets it in time: Go's mutex hands over to a starving waiter.      *)
Fairness ==
  /\ \A c \in Calls : WF_vars(Serve(c)) /\ SF_vars(Lock(c))
  /\ \A s \in Scrapes : WF_vars(GatherRead(s) \/ GatherUnlock(s))

Spec == Init /\ [][Next]_vars /\ Fairness

-----------------------------------------------------------------------------
(* Every variable keeps its type, and neither channel holds more tokens    *)
(* than NewService made room for.                                          *)
TypeOK ==
  /\ enabled \in BOOLEAN
  /\ pc \in [Calls -> {"start", "fetch", "classify", "record", "lock",
                       "observed", "ready", "unlock", "done"}]
  /\ result \in [Calls -> Results \cup {None}]
  /\ cancelled \subseteq Calls /\ abandoned \subseteq cancelled
  /\ slots \in [Operations -> Nat] /\ \A o \in Operations : slots[o] <= Capacity[o]
  /\ gauge \in [Gauges -> Nat] /\ mutex \in Calls \cup Scrapes \cup {None}
  /\ scrape \in [Scrapes -> [Gauges -> Nat \cup {None}]]
  /\ requests \in [Results -> Nat]
  /\ recorded \in Seq(Calls) /\ latest \in Calls \cup {None}

(* The gauges and the scrapes as the promise of HealthSample sees them.    *)
Health ==
  INSTANCE HealthSample
    WITH Outcomes <- Accessed \cup {"disabled"}, Good <- "success", Counted <- {},
         outcomes <- [i \in DOMAIN recorded |-> result[recorded[i]]],
         view <- [s \in Scrapes |->
                    IF Gathered(s) THEN [observed |-> scrape[s]["observed"], ready |-> scrape[s]["ready"], counts |-> <<>>]
                    ELSE None]

(* "a scrape cannot pair one completed observation's readiness with        *)
(* another's time": to whoever scrapes, the gauges set one after the       *)
(* other are one sample that changes and is read at one moment.            *)
HealthSampled == Health!Spec

(* "an abandoned caller never becomes a source-health observation": a call *)
(* cancelled before its access completed never sets the gauges, whatever   *)
(* the transport returned for it.  (With the flag off no source is         *)
(* accessed, and every call records just that.)                            *)
AbandonedNeverObserved ==
  enabled => \A i \in DOMAIN recorded : recorded[i] \notin abandoned

(* "A dedicated slot keeps query saturation from removing healthy pods":   *)
(* a call is turned away as busy only while calls of its own kind hold all *)
(* of that kind's slots.                                                   *)
BusyOnlyWhenFull ==
  [][\A c \in Calls :
       result'[c] = "busy" /\ result[c] # "busy" =>
         Cardinality({d \in Calls : operation(d) = operation(c) /\ pc[d] = "fetch"})
           = Capacity[operation(c)]]_vars

(* Every call is answered, however many scrapes and calls compete. *)
AllAnswered == \A c \in Calls : <>(pc[c] = "done")

(* "http_source_ready [...] reflects the most recently completed access or *)
(* configuration check" (docs/http-source.md), once no access is still     *)
(* being recorded.                                                         *)
ReflectsLatest ==
  latest # None /\ (\A c \in Calls : pc[c] \in {"start", "fetch", "classify", "done"}) =>
    gauge["ready"] = IF result[latest] = "success" THEN 1 ELSE 0

=============================================================================
