---------------------------- MODULE ContractProbe ----------------------------
(***************************************************************************)
(* The contract probe (internal/contractprobe/service.go): readiness calls *)
(* read an operator-selected contract one at a time and publish what they  *)
(* saw in a counter and two gauges; scrapes read those behind a reader     *)
(* lock.  The slot of a call is held until its observation is published,   *)
(* which is where this service differs from the source connector           *)
(* (HttpSource).                                                           *)
(***************************************************************************)
EXTENDS Naturals, Sequences, FiniteSets

CONSTANTS
  Probes,     \* calls of /readyz
  Scrapes,    \* calls of /metrics, each of which repeats
  Failures,   \* the ways in which a check may fail
  None

Completed == {"ContractReachable", "FeatureDisabled"} \cup Failures
Reasons == Completed \cup {"ContractProbeBusy", "ContractProbeCancelled"}
Metrics == {"requests", "observed", "ready"}

ASSUME ProbesAssumption ==
  /\ None \notin Probes \cup Scrapes \cup Nat \cup [Reasons -> Nat]
  /\ Failures \subseteq {"ContractConfigurationInvalid", "ContractUnavailable", "ContractInvalidResponse"}

VARIABLES
  enabled,    \* the release flag the process was started with
  pc,         \* where each call stands
  reason,     \* what each call is answered
  cancelled,  \* calls whose request is gone
  slots,      \* calls with the token of the channel slots
  writer,     \* the call that waits for metricMu or has it
  readers,    \* scrapes that hold metricMu
  requests, observed, ready,   \* the counter, by reason, and the gauges
  scrape,     \* what each scrape has read: a metric's value or None
  abandoned,  \* history: calls cancelled before they were given metricMu
  recorded,   \* history: the calls that set the gauges, in order
  checked     \* history: the calls that read the contract, in order

metrics == <<requests, observed, ready, recorded>>
vars == <<enabled, pc, reason, cancelled, slots, writer, readers, metrics, scrape, abandoned, checked>>

Unread == [m \in Metrics |-> None]

Init ==
  /\ enabled \in BOOLEAN
  /\ pc = [c \in Probes |-> "start"] /\ reason = [c \in Probes |-> None]
  /\ cancelled = {} /\ slots = {} /\ writer = None /\ readers = {}
  /\ requests = [r \in Reasons |-> 0] /\ observed = 0 /\ ready = 0
  /\ scrape = [s \in Scrapes |-> Unread]
  /\ abandoned = {} /\ recorded = <<>> /\ checked = <<>>

To(c, label) == pc' = [pc EXCEPT ![c] = label]
Answer(c, r) == reason' = [reason EXCEPT ![c] = r]
Inc(r) == requests' = [requests EXCEPT ![r] = @ + 1]

-----------------------------------------------------------------------------
(* readiness.                                                              *)

(* A second call is answered at once and leaves the observation alone. *)
TakeSlot(c) ==
  /\ pc[c] = "start"
  /\ \/ slots = {} /\ slots' = {c} /\ To(c, "fetch") /\ UNCHANGED <<reason, requests>>
     \/ slots # {} /\ To(c, "done") /\ Answer(c, "ContractProbeBusy") /\ Inc("ContractProbeBusy")
        /\ UNCHANGED slots
  /\ UNCHANGED <<enabled, cancelled, writer, readers, observed, ready, scrape, abandoned, recorded, checked>>

(* Mutant: the slot is given back as soon as the contract has been read. *)
Fetch_ReleasesSlot(c) ==
  /\ pc[c] = "fetch" /\ To(c, "check")
  /\ \E r \in IF enabled THEN Completed \ {"FeatureDisabled"} ELSE {"FeatureDisabled"} : Answer(c, r)
  /\ slots' = slots \ {c} /\ checked' = Append(checked, c)
  /\ UNCHANGED <<enabled, cancelled, writer, readers, metrics, scrape, abandoned>>

(* The contract is read, or the flag is off; either way with a result,     *)
(* and a request that has gone away may still see its read succeed.        *)
Fetch(c) ==
  /\ pc[c] = "fetch" /\ To(c, "check")
  /\ \E r \in IF enabled THEN Completed \ {"FeatureDisabled"} ELSE {"FeatureDisabled"} : Answer(c, r)
  /\ checked' = Append(checked, c)
  /\ UNCHANGED <<enabled, cancelled, slots, writer, readers, metrics, scrape, abandoned>>

(* The first look at the context; then metricMu is asked for, and no new   *)
(* reader gets it.                                                         *)
Check(c) ==
  /\ pc[c] = "check"
  /\ \/ /\ c \in cancelled
        /\ To(c, "release") /\ Answer(c, "ContractProbeCancelled") /\ Inc("ContractProbeCancelled")
        /\ UNCHANGED writer
     \/ /\ c \notin cancelled /\ writer = None
        /\ writer' = c /\ To(c, "lock") /\ UNCHANGED <<reason, requests>>
  /\ UNCHANGED <<enabled, cancelled, slots, readers, observed, ready, scrape, abandoned, recorded, checked>>

(* Mutant: the context is not looked at again. *)
Lock_Trusting(c) ==
  /\ pc[c] = "lock" /\ readers = {} /\ To(c, "count")
  /\ UNCHANGED <<enabled, reason, cancelled, slots, writer, readers, metrics, scrape, abandoned, checked>>

(* The scrapes that had it are through.  The second look at the context    *)
(* is the last one.                                                        *)
Lock(c) ==
  /\ pc[c] = "lock" /\ readers = {}
  /\ \/ c \in cancelled /\ writer' = None /\ To(c, "cancelled")
     \/ c \notin cancelled /\ To(c, "count") /\ UNCHANGED writer
  /\ UNCHANGED <<enabled, reason, cancelled, slots, readers, metrics, scrape, abandoned, checked>>

Cancelled(c) ==
  /\ pc[c] = "cancelled"
  /\ To(c, "release") /\ Answer(c, "ContractProbeCancelled") /\ Inc("ContractProbeCancelled")
  /\ UNCHANGED <<enabled, cancelled, slots, writer, readers, observed, ready, scrape, abandoned, recorded, checked>>

Count(c) ==
  /\ pc[c] = "count" /\ To(c, "observed") /\ Inc(reason[c])
  /\ UNCHANGED <<enabled, reason, cancelled, slots, writer, readers, observed, ready, scrape, abandoned, recorded, checked>>

(* The clock advances between two observations: their number stands for it. *)
SetObserved(c) ==
  /\ pc[c] = "observed" /\ To(c, "clear")
  /\ recorded' = Append(recorded, c) /\ observed' = Len(recorded')
  /\ UNCHANGED <<enabled, reason, cancelled, slots, writer, readers, requests, ready, scrape, abandoned, checked>>

ClearReady(c) ==
  /\ pc[c] = "clear" /\ ready' = 0
  /\ To(c, IF reason[c] = "ContractReachable" THEN "set" ELSE "unlock")
  /\ UNCHANGED <<enabled, reason, cancelled, slots, writer, readers, requests, observed, scrape, abandoned, recorded, checked>>

SetReady(c) ==
  /\ pc[c] = "set" /\ To(c, "unlock") /\ ready' = 1
  /\ UNCHANGED <<enabled, reason, cancelled, slots, writer, readers, requests, observed, scrape, abandoned, recorded, checked>>

Unlock(c) ==
  /\ pc[c] = "unlock" /\ To(c, "release") /\ writer' = None
  /\ UNCHANGED <<enabled, reason, cancelled, slots, readers, metrics, scrape, abandoned, checked>>

(* The caller has its answer and the deferred receive runs. *)
Release(c) ==
  /\ pc[c] = "release" /\ To(c, "done") /\ slots' = slots \ {c}
  /\ UNCHANGED <<enabled, reason, cancelled, writer, readers, metrics, scrape, abandoned, checked>>

readiness(c) ==
  \/ TakeSlot(c) \/ Fetch(c) \/ Check(c) \/ Lock(c) \/ Cancelled(c) \/ Count(c)
  \/ SetObserved(c) \/ ClearReady(c) \/ SetReady(c) \/ Unlock(c) \/ Release(c)

-----------------------------------------------------------------------------
(* Gather, and the callers.                                                *)

(* Mutant: a scrape waits for a call that has the mutex, not for one that waits. *)
GatherLock_Barging(s) ==
  /\ s \notin readers /\ (writer # None => pc[writer] = "lock")
  /\ readers' = readers \cup {s} /\ scrape' = [scrape EXCEPT ![s] = Unread]
  /\ UNCHANGED <<enabled, pc, reason, cancelled, slots, writer, metrics, abandoned, checked>>

(* Mutant: a scrape takes no lock. *)
GatherLock_Free(s) ==
  /\ s \notin readers
  /\ readers' = readers \cup {s} /\ scrape' = [scrape EXCEPT ![s] = Unread]
  /\ UNCHANGED <<enabled, pc, reason, cancelled, slots, writer, metrics, abandoned, checked>>

(* A reader lock: scrapes share it, and wait behind a call that asked. *)
GatherLock(s) ==
  /\ s \notin readers /\ writer = None
  /\ readers' = readers \cup {s} /\ scrape' = [scrape EXCEPT ![s] = Unread]
  /\ UNCHANGED <<enabled, pc, reason, cancelled, slots, writer, metrics, abandoned, checked>>

(* The registry collects its metrics in any order. *)
GatherRead(s) ==
  /\ s \in readers
  /\ \E m \in Metrics :
       /\ scrape[s][m] = None
       /\ scrape' = [scrape EXCEPT ![s][m] = CASE m = "requests" -> requests
                                              [] m = "observed" -> observed
                                              [] m = "ready" -> ready]
  /\ UNCHANGED <<enabled, pc, reason, cancelled, slots, writer, readers, metrics, abandoned, checked>>

Gathered(s) == \A m \in Metrics : scrape[s][m] # None

GatherUnlock(s) ==
  /\ s \in readers /\ Gathered(s)
  /\ readers' = readers \ {s}
  /\ UNCHANGED <<enabled, pc, reason, cancelled, slots, writer, metrics, scrape, abandoned, checked>>

Gather(s) == GatherLock(s) \/ GatherRead(s) \/ GatherUnlock(s)

(* External: the caller goes away, or the server shuts down. *)
Cancel(c) ==
  /\ pc[c] # "done" /\ c \notin cancelled
  /\ cancelled' = cancelled \cup {c}
  /\ abandoned' = IF pc[c] \in {"start", "fetch", "check", "lock"} THEN abandoned \cup {c} ELSE abandoned
  /\ UNCHANGED <<enabled, pc, reason, slots, writer, readers, metrics, scrape, checked>>

Next ==
  \/ \E c \in Probes : readiness(c) \/ Cancel(c)
  \/ \E s \in Scrapes : Gather(s)

(* Goroutines that can run do run; the client's timeout of five seconds    *)
(* ends every read.  A scrape need not begin, but one that has the lock    *)
(* comes to an end.                                                        *)
Fairness ==
  /\ \A c \in Probes : WF_vars(readiness(c))
  /\ \A s \in Scrapes : WF_vars(GatherRead(s) \/ GatherUnlock(s))

Spec == Init /\ [][Next]_vars /\ Fairness

-----------------------------------------------------------------------------
(* The metrics and the scrapes as the promise of HealthSample sees them.   *)
Health ==
  INSTANCE HealthSample
    WITH Outcomes <- Completed, Good <- "ContractReachable", Counted <- Completed,
         outcomes <- [i \in DOMAIN recorded |-> reason[recorded[i]]],
         view <- [s \in Scrapes |->
                    IF Gathered(s) THEN [observed |-> scrape[s]["observed"], ready |-> scrape[s]["ready"],
                                         counts |-> [r \in Completed |-> scrape[s]["requests"][r]]]
                    ELSE None]

(* "Gather snapshots one completed observation": to whoever scrapes, the   *)
(* counters, the time and the readiness that a call sets in four steps are *)
(* one sample that changes and is read at one moment.                      *)
HealthSampled == Health!Spec

(* A request that went away while the contract was read, or while its      *)
(* handler waited for scrapes to finish, is never published as an          *)
(* observation of the contract.                                            *)
AbandonedNeverObserved == \A i \in DOMAIN recorded : recorded[i] \notin abandoned

(* "Whether the latest completed contract check succeeded": once no call   *)
(* is publishing, the gauge is the answer of the check that completed last *)
(* among those that were not cancelled.                                    *)
LatestShown ==
  \A i \in DOMAIN checked :
    /\ reason[checked[i]] # "ContractProbeCancelled"
    /\ \A j \in DOMAIN checked : j > i => reason[checked[j]] = "ContractProbeCancelled"
    /\ \A c \in Probes : pc[c] \in {"start", "fetch", "release", "done"}
    => ready = IF reason[checked[i]] = "ContractReachable" THEN 1 ELSE 0

(* Every call is answered, however many scrapes overlap. *)
AllAnswered == \A c \in Probes : <>(pc[c] = "done")

=============================================================================
