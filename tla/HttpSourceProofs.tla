-------------------------- MODULE HttpSourceProofs --------------------------
(***************************************************************************)
(* Machine-checked theorems about HttpSource, for any number of queries,   *)
(* probes, scrapes and slots.                                              *)
(***************************************************************************)
EXTENDS HttpSource, FiniteSetTheorems, SequenceTheorems, TLAPS

Observable == Accessed \cup {"disabled"}

(* The calls between taking a slot for operation o and giving it back. *)
Fetching(o) == {d \in Calls : operation(d) = o /\ pc[d] = "fetch"}

(* A channel holds one token for each of them. *)
SlotsExact == \A o \in Operations : IsFiniteSet(Fetching(o)) /\ slots[o] = Cardinality(Fetching(o))

(* observationMu is held by the call that is setting the gauges. *)
MutexExact == \A c \in Calls : mutex = c <=> pc[c] \in {"observed", "ready", "unlock"}

(* What a call brings to record, and what it may set the gauges with. *)
ResultKnown ==
  \A c \in Calls :
    /\ pc[c] \notin {"start", "fetch"} => result[c] \in Results
    /\ pc[c] \in {"lock", "observed", "ready", "unlock"} => result[c] \in Observable

(* A call that set a gauge has a result that no longer changes. *)
RecordedSettled ==
  \A i \in DOMAIN recorded :
    pc[recorded[i]] \in {"ready", "unlock", "done"} /\ result[recorded[i]] \in Observable

(* Outside of a recording, ready is the last recorded result. *)
Verdict == IF recorded # <<>> /\ result[recorded[Len(recorded)]] = "success" THEN 1 ELSE 0

GaugesCurrent ==
  /\ gauge["observed"] = Len(recorded)
  /\ \A c \in Calls : pc[c] = "ready" => recorded # <<>> /\ recorded[Len(recorded)] = c
  /\ (\A c \in Calls : pc[c] # "ready") => gauge["ready"] = Verdict

(* What a scrape under way has read is still so. *)
ScrapeCurrent ==
  \A s \in Scrapes : mutex = s => \A g \in Gauges : scrape[s][g] \in {None, gauge[g]}

(* Once classified, an abandoned call is a cancelled one. *)
AbandonedClassified ==
  enabled => \A c \in abandoned : pc[c] \notin {"start", "fetch", "classify"} => result[c] = "cancelled"

SourceInv ==
  /\ TypeOK /\ SlotsExact /\ MutexExact /\ ResultKnown /\ RecordedSettled
  /\ GaugesCurrent /\ ScrapeCurrent /\ AbandonedClassified

-----------------------------------------------------------------------------
(* Initially no call has a token, the mutex or an observation. *)
LEMMA InitInv == Init => SourceInv
<1> SUFFICES ASSUME Init PROVE SourceInv
  OBVIOUS
<1>1. TypeOK
  BY SlotsAssumption DEF Init, TypeOK, Unread, Capacity, Operations
<1>2. SlotsExact
  <2>1. \A o \in Operations : Fetching(o) = {}
    BY DEF Init, Fetching
  <2> QED
    BY <2>1, FS_EmptySet DEF Init, SlotsExact
<1>3. MutexExact /\ ResultKnown /\ RecordedSettled /\ AbandonedClassified /\ ScrapeCurrent
  BY SlotsAssumption DEF Init, MutexExact, ResultKnown, RecordedSettled, AbandonedClassified, ScrapeCurrent, Calls
<1>4. GaugesCurrent
  BY DEF Init, GaugesCurrent, Verdict, Gauges
<1> QED
  BY <1>1, <1>2, <1>3, <1>4 DEF SourceInv

-----------------------------------------------------------------------------
(* Steps.                                                                  *)

(* A call that has not come to record yet disturbs neither the gauges nor  *)
(* what was recorded, whatever fetch gives it.                             *)
LEMMA EarlyStep ==
  ASSUME SourceInv, NEW c \in Calls, pc[c] \in {"start", "fetch", "classify"},
         NEW label \in {"fetch", "classify", "record"}, pc' = [pc EXCEPT ![c] = label],
         NEW r \in Results \cup {None}, result' = [result EXCEPT ![c] = r],
         UNCHANGED <<gauge, mutex, scrape, recorded>>
  PROVE  MutexExact' /\ RecordedSettled' /\ GaugesCurrent' /\ ScrapeCurrent'
<1> USE DEF SourceInv, TypeOK
<1>1. \A d \in Calls \ {c} : pc'[d] = pc[d] /\ result'[d] = result[d]
  OBVIOUS
<1>2. pc'[c] = label
  OBVIOUS
<1>3. \A i \in DOMAIN recorded : recorded[i] \in Calls \ {c}
  <2>1. \A i \in DOMAIN recorded : recorded[i] \in Calls
    OBVIOUS
  <2>2. \A i \in DOMAIN recorded : recorded[i] # c
    BY DEF RecordedSettled
  <2> QED
    BY <2>1, <2>2
<1>4. recorded # <<>> => Len(recorded) \in DOMAIN recorded
  OBVIOUS
<1> HIDE DEF SourceInv, TypeOK
<1>5. MutexExact'
  BY <1>1, <1>2 DEF MutexExact, SourceInv
<1>6. RecordedSettled'
  BY <1>1, <1>3 DEF RecordedSettled, SourceInv
<1>7. Verdict' = Verdict
  BY <1>1, <1>3, <1>4 DEF Verdict
<1>8. GaugesCurrent'
  BY <1>1, <1>2, <1>7 DEF GaugesCurrent, SourceInv
<1>9. ScrapeCurrent'
  BY DEF ScrapeCurrent, SourceInv
<1> QED
  BY <1>5, <1>6, <1>8, <1>9

(* With the flag off a call goes straight to record. *)
LEMMA DisabledStep ==
  ASSUME SourceInv, NEW c \in Calls, Disabled(c)
  PROVE  SourceInv'
<1> USE SlotsAssumption DEF SourceInv, TypeOK, Disabled
<1>1. TypeOK'
  BY DEF Results
<1>2. SlotsExact'
  <2>1. \A o \in Operations : Fetching(o)' = Fetching(o)
    BY DEF Fetching, operation
  <2> QED
    BY <2>1 DEF SlotsExact
<1>3. MutexExact' /\ RecordedSettled' /\ GaugesCurrent' /\ ScrapeCurrent'
  BY EarlyStep DEF Results
<1>4. ResultKnown'
  BY DEF ResultKnown, Results, Accessed, Observable
<1>5. AbandonedClassified'
  BY DEF AbandonedClassified
<1> QED
  BY <1>1, <1>2, <1>3, <1>4, <1>5

(* A token is put in the channel exactly when the call goes on to fetch. *)
LEMMA TakeSlotStep ==
  ASSUME SourceInv, NEW c \in Calls, TakeSlot(c)
  PROVE  SourceInv'
<1> DEFINE o == operation(c)
<1>1. o \in Operations /\ slotsOf(c) = o
  BY DEF operation, slotsOf, Operations
<1>2. CASE slots[o] < Capacity[o] /\ slots' = [slots EXCEPT ![o] = @ + 1] /\ pc' = [pc EXCEPT ![c] = "fetch"] /\ UNCHANGED result
  <2> USE <1>1, <1>2 DEF SourceInv, TypeOK, TakeSlot
  <2>1. TypeOK'
    <3>1. Capacity \in [Operations -> Nat]
      BY SlotsAssumption DEF Capacity, Operations
    <3>2. slots' \in [Operations -> Nat] /\ \A q \in Operations : slots'[q] <= Capacity[q]
      BY ONLY <3>1, <1>1, <1>2, slots \in [Operations -> Nat], \A q \in Operations : slots[q] <= Capacity[q]
    <3>3. pc' \in [Calls -> {"start", "fetch", "classify", "record", "lock", "observed", "ready", "unlock", "done"}]
      OBVIOUS
    <3> QED
      BY <3>2, <3>3
  <2>2. SlotsExact'
    <3>1. \A q \in Operations : Fetching(q)' = IF q = o THEN Fetching(q) \cup {c} ELSE Fetching(q)
      BY DEF Fetching, operation
    <3>2. c \notin Fetching(o)
      BY DEF Fetching
    <3>3. IsFiniteSet(Fetching(o)')  /\ Cardinality(Fetching(o)') = Cardinality(Fetching(o)) + 1
      <4>1. IsFiniteSet(Fetching(o)) /\ Fetching(o)' = Fetching(o) \cup {c}
        BY <3>1 DEF SlotsExact
      <4> HIDE DEF o, SourceInv, TypeOK, TakeSlot
      <4> QED
        BY <3>2, <4>1, FS_AddElement
    <3> QED
      BY <3>1, <3>3 DEF SlotsExact
  <2>3. MutexExact' /\ RecordedSettled' /\ GaugesCurrent' /\ ScrapeCurrent'
    <3>1. result' = [result EXCEPT ![c] = result[c]]
      OBVIOUS
    <3> QED
      BY <3>1, EarlyStep
  <2>4. ResultKnown' /\ AbandonedClassified'
    BY DEF ResultKnown, AbandonedClassified
  <2> QED
    BY <2>1, <2>2, <2>3, <2>4
<1>3. ASSUME NEW r \in {"busy", "cancelled"}, UNCHANGED slots,
             pc' = [pc EXCEPT ![c] = "classify"], result' = [result EXCEPT ![c] = r]
      PROVE  SourceInv'
  <2> USE <1>3 DEF SourceInv, TypeOK, TakeSlot
  <2>1. TypeOK'
    BY DEF Results
  <2>2. SlotsExact'
    <3>1. \A q \in Operations : Fetching(q)' = Fetching(q)
      BY DEF Fetching, operation
    <3> QED
      BY <3>1 DEF SlotsExact
  <2>3. MutexExact' /\ RecordedSettled' /\ GaugesCurrent' /\ ScrapeCurrent'
    BY EarlyStep DEF Results
  <2>4. ResultKnown' /\ AbandonedClassified'
    BY DEF ResultKnown, AbandonedClassified, Results
  <2> QED
    BY <2>1, <2>2, <2>3, <2>4
<1> QED
  BY <1>1, <1>2, <1>3 DEF TakeSlot

(* The token of the call, and no other, is taken out again. *)
LEMMA FetchStep ==
  ASSUME SourceInv, NEW c \in Calls, Fetch(c)
  PROVE  SourceInv'
<1> USE SlotsAssumption DEF SourceInv, TypeOK, Fetch
<1> DEFINE o == operation(c)
<1>0. o \in Operations /\ slots' = [slots EXCEPT ![o] = @ - 1]
  BY DEF operation, Operations, slotsOf
<1>1. TypeOK'
  <2>1. c \in Fetching(o)
    BY DEF Fetching
  <2>2. slots[o] # 0
    BY <1>0, <2>1, FS_EmptySet DEF SlotsExact
  <2>3. Capacity \in [Operations -> Nat]
    BY DEF Capacity, Operations
  <2>4. slots' \in [Operations -> Nat] /\ \A q \in Operations : slots'[q] <= Capacity[q]
    BY ONLY <1>0, <2>2, <2>3, slots \in [Operations -> Nat], \A q \in Operations : slots[q] <= Capacity[q]
  <2>5. /\ result' \in [Calls -> Results \cup {None}]
        /\ pc' \in [Calls -> {"start", "fetch", "classify", "record", "lock", "observed", "ready", "unlock", "done"}]
    BY DEF Results
  <2> QED
    BY <2>4, <2>5
<1>2. SlotsExact'
  <2>1. \A q \in Operations : Fetching(q)' = IF q = o THEN Fetching(q) \ {c} ELSE Fetching(q)
    BY DEF Fetching, operation
  <2>2. c \in Fetching(o)
    BY DEF Fetching
  <2> QED
    BY <1>0, <2>1, <2>2, FS_RemoveElement DEF SlotsExact
<1>3. MutexExact' /\ RecordedSettled' /\ GaugesCurrent' /\ ScrapeCurrent'
  BY EarlyStep, <1>0 DEF Results
<1>4. ResultKnown'
  BY DEF ResultKnown, Results, Accessed, Observable
<1>5. AbandonedClassified'
  BY DEF AbandonedClassified
<1> QED
  BY <1>1, <1>2, <1>3, <1>4, <1>5

(* Here an abandoned call becomes a cancelled one. *)
LEMMA ClassifyStep ==
  ASSUME SourceInv, NEW c \in Calls, Classify(c)
  PROVE  SourceInv'
<1> USE SlotsAssumption DEF SourceInv, TypeOK, Classify
<1>1. TypeOK'
  BY DEF Results
<1>2. SlotsExact'
  <2>1. \A o \in Operations : Fetching(o)' = Fetching(o)
    BY DEF Fetching, operation
  <2> QED
    BY <2>1 DEF SlotsExact
<1>3. MutexExact' /\ RecordedSettled' /\ GaugesCurrent' /\ ScrapeCurrent'
  <2>1. (IF c \in cancelled THEN "cancelled" ELSE result[c]) \in Results
    BY DEF ResultKnown, Results
  <2> QED
    BY <2>1, EarlyStep
<1>4. ResultKnown'
  BY DEF ResultKnown, Results, Accessed, Observable
<1>5. AbandonedClassified'
  BY DEF AbandonedClassified
<1> QED
  BY <1>1, <1>2, <1>3, <1>4, <1>5

(* Only a result that may be observed goes on to the mutex. *)
LEMMA CountStep ==
  ASSUME SourceInv, NEW c \in Calls, Count(c)
  PROVE  SourceInv'
<1> USE SlotsAssumption DEF SourceInv, TypeOK, Count
<1>1. TypeOK'
  <2>1. result[c] \in Results /\ requests \in [Results -> Nat] /\ requests' = [requests EXCEPT ![result[c]] = @ + 1]
    BY DEF ResultKnown
  <2>2. requests' \in [Results -> Nat]
    BY ONLY <2>1
  <2> QED
    BY <2>2
<1>2. SlotsExact'
  <2>1. \A o \in Operations : Fetching(o)' = Fetching(o)
    BY DEF Fetching, operation
  <2> QED
    BY <2>1 DEF SlotsExact
<1>3. MutexExact'
  BY DEF MutexExact
<1>4. ResultKnown'
  BY DEF ResultKnown, Results, Accessed, Observable
<1>5. RecordedSettled'
  BY DEF RecordedSettled
<1>6. GaugesCurrent'
  BY DEF GaugesCurrent, RecordedSettled, Verdict
<1>7. ScrapeCurrent'
  BY DEF ScrapeCurrent
<1>8. AbandonedClassified'
  BY DEF AbandonedClassified
<1> QED
  BY <1>1, <1>2, <1>3, <1>4, <1>5, <1>6, <1>7, <1>8

(* The call that gets the mutex is the only one that sets the gauges. *)
LEMMA LockStep ==
  ASSUME SourceInv, NEW c \in Calls, Lock(c)
  PROVE  SourceInv'
<1> USE SlotsAssumption DEF SourceInv, TypeOK, Lock
<1>1. TypeOK'
  BY DEF Results
<1>2. SlotsExact'
  <2>1. \A o \in Operations : Fetching(o)' = Fetching(o)
    BY DEF Fetching, operation
  <2> QED
    BY <2>1 DEF SlotsExact
<1>3. MutexExact'
  BY DEF MutexExact, Calls
<1>4. ResultKnown'
  BY DEF ResultKnown, Results, Accessed, Observable
<1>5. RecordedSettled'
  BY DEF RecordedSettled
<1>6. GaugesCurrent'
  BY DEF GaugesCurrent, RecordedSettled, Verdict
<1>7. ScrapeCurrent'
  BY DEF ScrapeCurrent, Calls
<1>8. AbandonedClassified'
  BY DEF AbandonedClassified
<1> QED
  BY <1>1, <1>2, <1>3, <1>4, <1>5, <1>6, <1>7, <1>8

(* The time is set first: from here on the call is recorded. *)
LEMMA SetObservedStep ==
  ASSUME SourceInv, NEW c \in Calls, SetObserved(c)
  PROVE  SourceInv'
<1> USE SlotsAssumption DEF SourceInv, TypeOK, SetObserved
<1>0. /\ recorded' \in Seq(Calls) /\ Len(recorded') = Len(recorded) + 1 /\ recorded' # <<>>
      /\ \A i \in DOMAIN recorded : recorded'[i] = recorded[i]
      /\ recorded'[Len(recorded) + 1] = c /\ DOMAIN recorded' = DOMAIN recorded \cup {Len(recorded) + 1}
  <2>1. recorded \in Seq(Calls) /\ recorded' = Append(recorded, c)
    OBVIOUS
  <2> QED
    BY ONLY <2>1, c \in Calls, AppendProperties
<1>1. TypeOK'
  BY <1>0 DEF Gauges
<1>2. SlotsExact'
  <2>1. \A o \in Operations : Fetching(o)' = Fetching(o)
    BY DEF Fetching, operation
  <2> QED
    BY <2>1 DEF SlotsExact
<1>3. MutexExact'
  BY DEF MutexExact
<1>4. ResultKnown'
  BY DEF ResultKnown, Results, Accessed, Observable
<1>5. RecordedSettled'
  BY <1>0 DEF RecordedSettled, ResultKnown
<1>6. GaugesCurrent'
  BY <1>0 DEF GaugesCurrent, MutexExact, Gauges
<1>7. ScrapeCurrent'
  BY DEF ScrapeCurrent, MutexExact, Calls
<1>8. AbandonedClassified'
  BY DEF AbandonedClassified
<1> QED
  BY <1>1, <1>2, <1>3, <1>4, <1>5, <1>6, <1>7, <1>8

(* The readiness follows, from the same result. *)
LEMMA SetReadyStep ==
  ASSUME SourceInv, NEW c \in Calls, SetReady(c)
  PROVE  SourceInv'
<1> USE SlotsAssumption DEF SourceInv, TypeOK, SetReady
<1>1. TypeOK'
  BY DEF Gauges
<1>2. SlotsExact'
  <2>1. \A o \in Operations : Fetching(o)' = Fetching(o)
    BY DEF Fetching, operation
  <2> QED
    BY <2>1 DEF SlotsExact
<1>3. MutexExact'
  BY DEF MutexExact
<1>4. ResultKnown'
  BY DEF ResultKnown, Results, Accessed, Observable
<1>5. RecordedSettled'
  BY DEF RecordedSettled
<1>6. GaugesCurrent'
  <2>1. recorded # <<>> /\ recorded[Len(recorded)] = c
    BY DEF GaugesCurrent
  <2>2. \A d \in Calls : pc'[d] # "ready"
    BY DEF MutexExact
  <2>3. gauge'["ready"] = Verdict' /\ gauge'["observed"] = gauge["observed"]
    BY <2>1 DEF Verdict, Gauges
  <2> QED
    BY <2>2, <2>3 DEF GaugesCurrent
<1>7. ScrapeCurrent'
  BY DEF ScrapeCurrent, MutexExact, Calls
<1>8. AbandonedClassified'
  BY DEF AbandonedClassified
<1> QED
  BY <1>1, <1>2, <1>3, <1>4, <1>5, <1>6, <1>7, <1>8

(* The observation is over. *)
LEMMA UnlockStep ==
  ASSUME SourceInv, NEW c \in Calls, Unlock(c)
  PROVE  SourceInv'
<1> USE SlotsAssumption DEF SourceInv, TypeOK, Unlock
<1>1. TypeOK'
  BY DEF Results
<1>2. SlotsExact'
  <2>1. \A o \in Operations : Fetching(o)' = Fetching(o)
    BY DEF Fetching, operation
  <2> QED
    BY <2>1 DEF SlotsExact
<1>3. MutexExact'
  BY DEF MutexExact, Calls
<1>4. ResultKnown'
  BY DEF ResultKnown, Results, Accessed, Observable
<1>5. RecordedSettled'
  BY DEF RecordedSettled
<1>6. GaugesCurrent'
  BY DEF GaugesCurrent, RecordedSettled, Verdict
<1>7. ScrapeCurrent'
  BY DEF ScrapeCurrent
<1>8. AbandonedClassified'
  BY DEF AbandonedClassified
<1> QED
  BY <1>1, <1>2, <1>3, <1>4, <1>5, <1>6, <1>7, <1>8

(* A scrape that has the mutex keeps calls from setting the gauges. *)
LEMMA GatherLockStep ==
  ASSUME SourceInv, NEW s \in Scrapes, GatherLock(s)
  PROVE  SourceInv'
<1> USE SlotsAssumption DEF SourceInv, TypeOK, GatherLock
<1>1. TypeOK'
  BY DEF Unread
<1>2. SlotsExact'
  <2>1. \A o \in Operations : Fetching(o)' = Fetching(o)
    BY DEF Fetching, operation
  <2> QED
    BY <2>1 DEF SlotsExact
<1>3. MutexExact'
  BY DEF MutexExact, Calls
<1>4. ResultKnown'
  BY DEF ResultKnown, Results, Accessed, Observable
<1>5. RecordedSettled'
  BY DEF RecordedSettled
<1>6. GaugesCurrent'
  BY DEF GaugesCurrent, RecordedSettled, Verdict
<1>7. ScrapeCurrent'
  BY DEF ScrapeCurrent, Unread
<1>8. AbandonedClassified'
  BY DEF AbandonedClassified
<1> QED
  BY <1>1, <1>2, <1>3, <1>4, <1>5, <1>6, <1>7, <1>8

(* A scrape reads a gauge as it is. *)
LEMMA GatherReadStep ==
  ASSUME SourceInv, NEW s \in Scrapes, GatherRead(s)
  PROVE  SourceInv'
<1> USE SlotsAssumption DEF SourceInv, TypeOK, GatherRead
<1>1. TypeOK'
  BY DEF Results
<1>2. SlotsExact'
  <2>1. \A o \in Operations : Fetching(o)' = Fetching(o)
    BY DEF Fetching, operation
  <2> QED
    BY <2>1 DEF SlotsExact
<1>3. MutexExact'
  BY DEF MutexExact
<1>4. ResultKnown'
  BY DEF ResultKnown, Results, Accessed, Observable
<1>5. RecordedSettled'
  BY DEF RecordedSettled
<1>6. GaugesCurrent'
  BY DEF GaugesCurrent, RecordedSettled, Verdict
<1>7. ScrapeCurrent'
  BY DEF ScrapeCurrent
<1>8. AbandonedClassified'
  BY DEF AbandonedClassified
<1> QED
  BY <1>1, <1>2, <1>3, <1>4, <1>5, <1>6, <1>7, <1>8

(* A scrape that ends takes nothing with it. *)
LEMMA GatherUnlockStep ==
  ASSUME SourceInv, NEW s \in Scrapes, GatherUnlock(s)
  PROVE  SourceInv'
<1> USE SlotsAssumption DEF SourceInv, TypeOK, GatherUnlock
<1>1. TypeOK'
  BY DEF Results
<1>2. SlotsExact'
  <2>1. \A o \in Operations : Fetching(o)' = Fetching(o)
    BY DEF Fetching, operation
  <2> QED
    BY <2>1 DEF SlotsExact
<1>3. MutexExact'
  BY DEF MutexExact, Calls
<1>4. ResultKnown'
  BY DEF ResultKnown, Results, Accessed, Observable
<1>5. RecordedSettled'
  BY DEF RecordedSettled
<1>6. GaugesCurrent'
  BY DEF GaugesCurrent, RecordedSettled, Verdict
<1>7. ScrapeCurrent'
  BY DEF ScrapeCurrent
<1>8. AbandonedClassified'
  BY DEF AbandonedClassified
<1> QED
  BY <1>1, <1>2, <1>3, <1>4, <1>5, <1>6, <1>7, <1>8

(* A caller that leaves after Classify is not abandoned. *)
LEMMA CancelStep ==
  ASSUME SourceInv, NEW c \in Calls, Cancel(c)
  PROVE  SourceInv'
<1> USE SlotsAssumption DEF SourceInv, TypeOK, Cancel
<1>1. TypeOK'
  BY DEF Results
<1>2. SlotsExact'
  <2>1. \A o \in Operations : Fetching(o)' = Fetching(o)
    BY DEF Fetching, operation
  <2> QED
    BY <2>1 DEF SlotsExact
<1>3. MutexExact'
  BY DEF MutexExact
<1>4. ResultKnown'
  BY DEF ResultKnown, Results, Accessed, Observable
<1>5. RecordedSettled'
  BY DEF RecordedSettled
<1>6. GaugesCurrent'
  BY DEF GaugesCurrent, RecordedSettled, Verdict
<1>7. ScrapeCurrent'
  BY DEF ScrapeCurrent
<1>8. AbandonedClassified'
  BY DEF AbandonedClassified
<1> QED
  BY <1>1, <1>2, <1>3, <1>4, <1>5, <1>6, <1>7, <1>8

(* The invariant is inductive. *)
LEMMA NextInv == SourceInv /\ [Next]_vars => SourceInv'
<1> SUFFICES ASSUME SourceInv, [Next]_vars PROVE SourceInv'
  OBVIOUS
<1>1. CASE UNCHANGED vars
  <2>1. \A o \in Operations : Fetching(o)' = Fetching(o)
    BY <1>1 DEF Fetching, vars
  <2> QED
    BY <1>1, <2>1 DEF SourceInv, TypeOK, SlotsExact, MutexExact, ResultKnown, RecordedSettled, GaugesCurrent,
                      Verdict, ScrapeCurrent, AbandonedClassified, vars
<1>2. ASSUME NEW c \in Calls, Serve(c) \/ Cancel(c)
      PROVE  SourceInv'
  BY <1>2, DisabledStep, TakeSlotStep, FetchStep, ClassifyStep, CountStep, LockStep, SetObservedStep, SetReadyStep,
     UnlockStep, CancelStep DEF Serve, record
<1>3. ASSUME NEW s \in Scrapes, Gather(s)
      PROVE  SourceInv'
  BY <1>3, GatherLockStep, GatherReadStep, GatherUnlockStep DEF Gather
<1> QED
  BY <1>1, <1>2, <1>3 DEF Next

-----------------------------------------------------------------------------
(* Theorems.                                                               *)

(* The invariant holds of every behaviour. *)
LEMMA Invariant == Spec => []SourceInv
  BY InitInv, NextInv, PTL DEF Spec

(* Every variable keeps its type, and neither channel ever holds more      *)
(* tokens than NewService made room for, for any number of callers.        *)
THEOREM TypeCorrect == Spec => []TypeOK
<1>1. SourceInv => TypeOK
  BY DEF SourceInv
<1> QED
  BY <1>1, Invariant, PTL

(* A caller that went away before its access completed never becomes an    *)
(* observation of the source.                                              *)
THEOREM AbandonedUnobserved == Spec => []AbandonedNeverObserved
<1>1. SourceInv => AbandonedNeverObserved
  <2> SUFFICES ASSUME SourceInv, enabled, NEW i \in DOMAIN recorded, recorded[i] \in abandoned
               PROVE  FALSE
    BY DEF AbandonedNeverObserved
  <2>1. pc[recorded[i]] \in {"ready", "unlock", "done"} /\ result[recorded[i]] \in Observable
    BY DEF SourceInv, RecordedSettled
  <2>2. result[recorded[i]] = "cancelled"
    BY <2>1 DEF SourceInv, AbandonedClassified
  <2> QED
    BY <2>1, <2>2, SlotsAssumption DEF Observable, Accessed
<1> QED
  BY <1>1, Invariant, PTL

(* A call is turned away as busy only at a moment at which calls of its    *)
(* own kind occupy every slot of that kind: consumers cannot saturate the  *)
(* probes' slot, nor can a slot be lost.                                   *)
THEOREM BusyIsFull == Spec => BusyOnlyWhenFull
<1> DEFINE Refused(c) == result'[c] = "busy" /\ result[c] # "busy"
<1>1. ASSUME SourceInv, [Next]_vars, NEW c \in Calls, Refused(c)
      PROVE  Cardinality(Fetching(operation(c))) = Capacity[operation(c)]
  <2>1. PICK d \in Calls : Serve(d) \/ Cancel(d)
    BY <1>1 DEF Next, Gather, GatherLock, GatherRead, GatherUnlock, vars
  <2>2. d = c
    BY <1>1, <2>1 DEF SourceInv, TypeOK, Serve, record, Cancel, Disabled, TakeSlot, Fetch, Classify, Count, Lock,
                      SetObserved, SetReady, Unlock
  <2>3. TakeSlot(c)
    BY <1>1, <2>1, <2>2, SlotsAssumption
       DEF SourceInv, TypeOK, Serve, record, Cancel, Disabled, Fetch, Classify, Count, Lock, SetObserved, SetReady,
           Unlock, Accessed
  <2>4. operation(c) \in Operations /\ slotsOf(c) = operation(c)
    BY DEF operation, slotsOf, Operations
  <2>5. slots[operation(c)] >= Capacity[operation(c)]
    BY <1>1, <2>3, <2>4 DEF TakeSlot, SourceInv, TypeOK
  <2>6. /\ slots[operation(c)] <= Capacity[operation(c)] /\ slots[operation(c)] \in Nat
        /\ slots[operation(c)] = Cardinality(Fetching(operation(c)))
    BY <1>1, <2>4 DEF SourceInv, TypeOK, SlotsExact
  <2>7. Capacity[operation(c)] \in Nat
    BY SlotsAssumption DEF Capacity, operation
  <2> QED
    BY <2>5, <2>6, <2>7
<1>2. SourceInv /\ [Next]_vars
      => [\A c \in Calls : Refused(c) =>
            Cardinality({d \in Calls : operation(d) = operation(c) /\ pc[d] = "fetch"}) = Capacity[operation(c)]]_vars
  BY <1>1 DEF Fetching
<1> QED
  BY <1>2, Invariant, PTL DEF Spec, BusyOnlyWhenFull

-----------------------------------------------------------------------------
(* The refinement of HealthSample.                                         *)

Outcomes == [i \in DOMAIN recorded |-> result[recorded[i]]]
View == [s \in Scrapes |->
           IF Gathered(s) THEN [observed |-> scrape[s]["observed"], ready |-> scrape[s]["ready"], counts |-> <<>>]
           ELSE None]

(* The abstract observations are as many as the recorded calls. *)
LEMMA OutcomesType ==
  ASSUME SourceInv
  PROVE  /\ Outcomes \in Seq(Observable) /\ Len(Outcomes) = Len(recorded)
         /\ Outcomes = <<>> <=> recorded = <<>>
<1>1. \A i \in DOMAIN recorded : result[recorded[i]] \in Observable
  BY DEF SourceInv, RecordedSettled
<1>2. recorded \in Seq(Calls)
  BY DEF SourceInv, TypeOK
<1> QED
  BY ONLY <1>1, <1>2 DEF Outcomes

(* To whoever scrapes, the two gauges are one sample: the connector        *)
(* implements HealthSample.                                                *)
THEOREM HealthRefined == Spec => HealthSampled
<1>1. Init => Health!Init
  BY DEF Init, Health!Init, Gathered, Unread, Gauges
<1>2. ASSUME SourceInv, [Next]_vars
      PROVE  [Health!Next]_(Health!sampleVars)
  <2> USE <1>2
  <2>1. ASSUME UNCHANGED <<recorded, scrape>>, \A i \in DOMAIN recorded : result'[recorded[i]] = result[recorded[i]]
        PROVE  UNCHANGED <<Outcomes, View>>
    BY <2>1 DEF Outcomes, View, Gathered
  <2>2. ASSUME NEW c \in Calls, Serve(c) \/ Cancel(c), ~SetObserved(c)
        PROVE  UNCHANGED <<Outcomes, View>>
    <3>1. UNCHANGED <<recorded, scrape>>
      BY <2>2 DEF Serve, record, Cancel, Disabled, TakeSlot, Fetch, Classify, Count, Lock, SetReady, Unlock
    <3>2. \A d \in Calls : pc[d] \in {"ready", "unlock", "done"} => result'[d] = result[d]
      BY <2>2 DEF Serve, record, Cancel, Disabled, TakeSlot, Fetch, Classify, Count, Lock, SetReady, Unlock, SourceInv, TypeOK
    <3>3. \A i \in DOMAIN recorded : recorded[i] \in Calls /\ pc[recorded[i]] \in {"ready", "unlock", "done"}
      BY DEF SourceInv, TypeOK, RecordedSettled
    <3> QED
      BY <2>1, <3>1, <3>2, <3>3
  <2>3. ASSUME NEW c \in Calls, SetObserved(c)
        PROVE  Health!Observe
    <3>1. result[c] \in Observable
      BY <2>3 DEF SourceInv, ResultKnown, SetObserved
    <3>2. recorded \in Seq(Calls) /\ recorded' = Append(recorded, c) /\ result' = result
      BY <2>3 DEF SourceInv, TypeOK, SetObserved
    <3>3. Outcomes' = Append(Outcomes, result[c])
      BY <3>2 DEF Outcomes
    <3>4. View' = View
      BY <2>3 DEF View, Gathered, SetObserved
    <3> QED
      BY <3>1, <3>3, <3>4 DEF Health!Observe, Outcomes, View, Observable
  <2>4. ASSUME NEW s \in Scrapes, GatherLock(s)
        PROVE  Health!Begin(s)
    <3>1. Outcomes' = Outcomes
      BY <2>4 DEF GatherLock, Outcomes
    <3>2. ~Gathered(s)' /\ \A t \in Scrapes \ {s} : Gathered(t)' <=> Gathered(t)
      BY <2>4 DEF GatherLock, Gathered, Unread, Gauges, SourceInv, TypeOK
    <3>3. View' = [View EXCEPT ![s] = None]
      BY <2>4, <3>2 DEF View, GatherLock, SourceInv, TypeOK
    <3> QED
      BY <3>1, <3>3 DEF Health!Begin, Outcomes, View
  <2>5. ASSUME NEW s \in Scrapes, GatherRead(s)
        PROVE  Health!Answered(s) \/ UNCHANGED <<Outcomes, View>>
    <3>1. Outcomes' = Outcomes
      BY <2>5 DEF GatherRead, Outcomes
    <3>2. ~Gathered(s) /\ \A t \in Scrapes \ {s} : scrape'[t] = scrape[t] /\ (Gathered(t)' <=> Gathered(t))
      BY <2>5 DEF GatherRead, Gathered, Gauges, SourceInv, TypeOK
    <3>3. CASE ~Gathered(s)'
      <4>1. View' = View
        BY <3>2, <3>3 DEF View
      <4> QED
        BY <3>1, <4>1
    <3>4. CASE Gathered(s)'
      <4>1. \A g \in Gauges : scrape'[s][g] = gauge[g]
        BY <2>5, <3>4 DEF GatherRead, Gathered, SourceInv, TypeOK, ScrapeCurrent
      <4>2. \A c \in Calls : pc[c] # "ready"
        BY <2>5, SlotsAssumption DEF GatherRead, SourceInv, MutexExact, Calls
      <4>3. gauge["observed"] = Len(Outcomes) /\ gauge["ready"] = Verdict
        BY <4>2, OutcomesType DEF SourceInv, GaugesCurrent
      <4>4. Verdict = IF Outcomes # <<>> /\ Outcomes[Len(Outcomes)] = "success" THEN 1 ELSE 0
        <5>1. recorded \in Seq(Calls)
          BY DEF SourceInv, TypeOK
        <5>2. recorded # <<>> => Outcomes[Len(recorded)] = result[recorded[Len(recorded)]]
          BY <5>1 DEF Outcomes
        <5> QED
          BY <5>2, OutcomesType DEF Verdict
      <4>5. Health!Shown(Outcomes) = [observed |-> scrape'[s]["observed"], ready |-> scrape'[s]["ready"], counts |-> <<>>]
        BY <4>1, <4>3, <4>4 DEF Health!Shown, Gauges
      <4>6. View[s] = None /\ View' = [View EXCEPT ![s] = Health!Shown(Outcomes)]
        BY <3>2, <3>4, <4>5 DEF View
      <4> QED
        BY <3>1, <4>6 DEF Health!Answered, Outcomes, View
    <3> QED
      BY <3>3, <3>4
  <2>6. ASSUME NEW s \in Scrapes, GatherUnlock(s)
        PROVE  UNCHANGED <<Outcomes, View>>
    BY <2>1, <2>6 DEF GatherUnlock
  <2>7. ASSUME UNCHANGED vars
        PROVE  UNCHANGED <<Outcomes, View>>
    <3>1. UNCHANGED <<recorded, scrape, result>>
      BY <2>7 DEF vars
    <3> QED
      BY <2>1, <3>1
  <2>8. Health!Next \/ UNCHANGED <<Outcomes, View>>
    <3>1. ASSUME NEW c \in Calls, Serve(c) \/ Cancel(c)
          PROVE  Health!Next \/ UNCHANGED <<Outcomes, View>>
      BY <2>2, <2>3, <3>1 DEF Health!Next
    <3>2. ASSUME NEW s \in Scrapes, Gather(s)
          PROVE  Health!Next \/ UNCHANGED <<Outcomes, View>>
      BY <2>4, <2>5, <2>6, <3>2 DEF Gather, Health!Next
    <3> QED
      BY <2>7, <3>1, <3>2 DEF Next
  <2> QED
    BY <2>8 DEF Health!sampleVars, Outcomes, View
<1> QED
  BY <1>1, <1>2, Invariant, PTL DEF Spec, HealthSampled, Health!Spec

=============================================================================
