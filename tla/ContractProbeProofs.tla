------------------------- MODULE ContractProbeProofs -------------------------
(***************************************************************************)
(* Machine-checked theorems about ContractProbe, for any number of calls   *)
(* and scrapes.                                                            *)
(***************************************************************************)
EXTENDS ContractProbe, FiniteSetTheorems, SequenceTheorems, TLAPS

Labels == {"start", "fetch", "check", "lock", "cancelled", "count", "observed", "clear", "set", "unlock", "release", "done"}

(* A call at one of these has metricMu; past the middle one it has set a   *)
(* gauge, which a call at one of the latter ones has done for good.        *)
Publishing == {"count", "observed", "clear", "set", "unlock"}
Settled == {"clear", "set", "unlock", "release", "done"}

ProbeType ==
  /\ enabled \in BOOLEAN
  /\ pc \in [Probes -> Labels] /\ reason \in [Probes -> Reasons \cup {None}]
  /\ cancelled \subseteq Probes /\ abandoned \subseteq cancelled
  /\ slots \subseteq Probes /\ writer \in Probes \cup {None} /\ readers \subseteq Scrapes
  /\ requests \in [Reasons -> Nat] /\ observed \in Nat /\ ready \in Nat
  /\ scrape \in [Scrapes -> [Metrics -> Nat \cup [Reasons -> Nat] \cup {None}]]
  /\ recorded \in Seq(Probes) /\ checked \in Seq(Probes)

(* One call at a time is past the slot, and one at a time has or awaits    *)
(* metricMu; the scrapes are then through.                                 *)
SlotExact ==
  /\ \A c \in Probes : c \in slots <=> pc[c] \notin {"start", "done"}
  /\ \A c, d \in slots : c = d

WriterExact ==
  /\ \A c \in Probes : writer = c <=> pc[c] \in Publishing \cup {"lock"}
  /\ \A c \in Probes : pc[c] \in Publishing => readers = {}

ReasonKnown ==
  \A c \in Probes : pc[c] \in Publishing \cup {"check", "lock"} => reason[c] \in Completed

(* What is published comes from calls that were there to the end. *)
Attended == \A c \in Probes : pc[c] \in {"count", "observed"} => c \notin abandoned

(* A call that set a gauge has a reason that no longer changes. *)
RecordedSettled ==
  \A i \in DOMAIN recorded :
    pc[recorded[i]] \in Settled /\ reason[recorded[i]] \in Completed /\ recorded[i] \notin abandoned

(* Outside of a publication the metrics are those of what was recorded. *)
Last == recorded[Len(recorded)]
Verdict == IF recorded # <<>> /\ reason[Last] = "ContractReachable" THEN 1 ELSE 0

GaugesCurrent ==
  /\ observed = Len(recorded)
  /\ \A c \in Probes : pc[c] \in {"clear", "set"} => recorded # <<>> /\ Last = c
  /\ \A c \in Probes : pc[c] = "set" => reason[c] = "ContractReachable"
  /\ (\A c \in Probes : pc[c] \notin {"clear", "set"}) => ready = Verdict

With(r) == {i \in DOMAIN recorded : reason[recorded[i]] = r}

CountsCurrent ==
  \A r \in Completed :
    requests[r] = Cardinality(With(r)) + (IF \E c \in Probes : pc[c] = "observed" /\ reason[c] = r THEN 1 ELSE 0)

(* What a scrape under way has read is still so, of the outcomes of checks *)
(* at least: others are counted meanwhile.                                 *)
ScrapeCurrent ==
  \A s \in readers :
    /\ scrape[s]["requests"] # None =>
         scrape[s]["requests"] \in [Reasons -> Nat] /\ \A r \in Completed : scrape[s]["requests"][r] = requests[r]
    /\ scrape[s]["observed"] \in {None, observed} /\ scrape[s]["ready"] \in {None, ready}

(* Calls are recorded in the order in which they read the contract. *)
Concluded(i) == pc[checked[i]] \in Settled /\ reason[checked[i]] # "ContractProbeCancelled"

CheckedInOrder ==
  /\ \A i \in DOMAIN checked : pc[checked[i]] \notin {"start", "fetch"}
  /\ \A c \in Probes : pc[c] \notin {"start", "fetch", "done"} => checked # <<>> /\ checked[Len(checked)] = c
  /\ \A i \in DOMAIN checked :
       Concluded(i) /\ (\A j \in DOMAIN checked : j > i => ~Concluded(j)) => recorded # <<>> /\ Last = checked[i]

ProbeInv ==
  /\ ProbeType /\ SlotExact /\ WriterExact /\ ReasonKnown /\ Attended /\ RecordedSettled
  /\ GaugesCurrent /\ CountsCurrent /\ ScrapeCurrent /\ CheckedInOrder

-----------------------------------------------------------------------------
(* Initially nothing is held, published or read. *)
LEMMA InitInv == Init => ProbeInv
<1> SUFFICES ASSUME Init PROVE ProbeInv
  OBVIOUS
<1> USE DEF Init
<1>1. ProbeType
  BY DEF ProbeType, Labels, Unread
<1>2. SlotExact /\ WriterExact /\ ReasonKnown /\ Attended /\ RecordedSettled /\ ScrapeCurrent /\ CheckedInOrder
  BY ProbesAssumption DEF SlotExact, WriterExact, ReasonKnown, Attended, RecordedSettled, ScrapeCurrent, CheckedInOrder, Publishing
<1>3. GaugesCurrent
  BY DEF GaugesCurrent, Verdict
<1>4. CountsCurrent
  <2>1. \A r : With(r) = {}
    BY DEF With
  <2>2. \A r \in Completed : requests[r] = 0
    BY DEF Reasons
  <2>3. \A c \in Probes : pc[c] # "observed"
    OBVIOUS
  <2>4. Cardinality({}) = 0
    BY FS_EmptySet
  <2> QED
    BY ONLY <2>1, <2>2, <2>3, <2>4 DEF CountsCurrent
<1> QED
  BY <1>1, <1>2, <1>3, <1>4 DEF ProbeInv

-----------------------------------------------------------------------------
(* Steps.                                                                  *)

(* A call that has been recorded keeps its reason, so that what was        *)
(* recorded still counts the same.                                         *)
LEMMA RecordKept ==
  ASSUME ProbeInv, NEW c \in Probes, NEW label \in Labels, pc' = [pc EXCEPT ![c] = label],
         pc[c] # "observed", label # "observed", pc[c] \in Settled => label \in Settled,
         NEW r \in Reasons \cup {None}, reason' = [reason EXCEPT ![c] = r], pc[c] \in Settled => r = reason[c],
         UNCHANGED <<recorded, abandoned>>, \A k \in Completed : requests'[k] = requests[k]
  PROVE  RecordedSettled' /\ CountsCurrent' /\ Verdict' = Verdict
<1> USE DEF ProbeInv
<1>1. \A d \in Probes \ {c} : pc'[d] = pc[d] /\ reason'[d] = reason[d]
  BY DEF ProbeType
<1>2. pc'[c] = label /\ reason'[c] = r
  BY DEF ProbeType
<1>3. \A i \in DOMAIN recorded : recorded[i] \in Probes
  BY DEF ProbeType
<1>4. \A i \in DOMAIN recorded : reason'[recorded[i]] = reason[recorded[i]] /\ pc'[recorded[i]] \in Settled
  BY <1>1, <1>2, <1>3 DEF RecordedSettled
<1>5. RecordedSettled'
  BY <1>4 DEF RecordedSettled
<1>6. Verdict' = Verdict
  <2>1. recorded # <<>> => Len(recorded) \in DOMAIN recorded
    BY DEF ProbeType
  <2> QED
    BY <1>4, <2>1 DEF Verdict, Last
<1>7. CountsCurrent'
  <2>1. \A k : With(k)' = With(k)
    BY <1>4 DEF With
  <2>2. \A k : (\E d \in Probes : pc'[d] = "observed" /\ reason'[d] = k) <=> (\E d \in Probes : pc[d] = "observed" /\ reason[d] = k)
    BY <1>1, <1>2
  <2> QED
    BY <2>1, <2>2 DEF CountsCurrent
<1> QED
  BY <1>5, <1>6, <1>7

(* A call that is not publishing leaves what was published alone. *)
LEMMA QuietStep ==
  ASSUME ProbeInv, NEW c \in Probes, NEW label \in Labels, pc' = [pc EXCEPT ![c] = label],
         {pc[c], label} \cap {"observed", "clear", "set"} = {}, pc[c] \in Settled => label \in Settled,
         NEW r \in Reasons \cup {None}, reason' = [reason EXCEPT ![c] = r], pc[c] \in Settled => r = reason[c],
         UNCHANGED <<observed, ready, recorded, scrape, readers, abandoned>>,
         \A k \in Completed : requests'[k] = requests[k]
  PROVE  RecordedSettled' /\ GaugesCurrent' /\ CountsCurrent' /\ ScrapeCurrent'
<1> USE DEF ProbeInv
<1>1. RecordedSettled' /\ CountsCurrent' /\ Verdict' = Verdict
  BY RecordKept
<1>2. \A d \in Probes \ {c} : pc'[d] = pc[d] /\ reason'[d] = reason[d]
  BY DEF ProbeType
<1>3. pc'[c] = label
  BY DEF ProbeType
<1>4. GaugesCurrent'
  BY <1>1, <1>2, <1>3 DEF GaugesCurrent, Last
<1>5. ScrapeCurrent'
  BY DEF ScrapeCurrent
<1> QED
  BY <1>1, <1>4, <1>5

(* Scrapes and callers touch neither the metrics nor the calls. *)
LEMMA MetricsKept ==
  ASSUME ProbeInv, UNCHANGED <<pc, reason, requests, observed, ready, recorded, checked>>
  PROVE  ReasonKnown' /\ GaugesCurrent' /\ CountsCurrent' /\ CheckedInOrder'
<1> USE DEF ProbeInv
<1>1. ReasonKnown'
  BY DEF ReasonKnown
<1>2. Last' = Last /\ Verdict' = Verdict
  BY DEF Verdict, Last
<1>3. GaugesCurrent'
  BY <1>2 DEF GaugesCurrent
<1>4. CountsCurrent'
  <2>1. \A k : With(k)' = With(k)
    BY DEF With
  <2> QED
    BY <2>1 DEF CountsCurrent
<1>5. CheckedInOrder'
  <2>1. \A i : Concluded(i)' <=> Concluded(i)
    BY DEF Concluded
  <2> QED
    BY <1>2, <2>1 DEF CheckedInOrder
<1> QED
  BY <1>1, <1>3, <1>4, <1>5

(* Where the order of the checks is not concerned. *)
LEMMA OrderKept ==
  ASSUME ProbeInv, NEW c \in Probes, NEW label \in Labels \ {"start", "fetch"}, pc' = [pc EXCEPT ![c] = label],
         NEW r \in Reasons \cup {None}, reason' = [reason EXCEPT ![c] = r], UNCHANGED <<checked, recorded>>,
         \/ pc[c] \notin {"start", "fetch", "done"} /\ (label \in Settled /\ r # "ContractProbeCancelled"
                                                      <=> pc[c] \in Settled /\ reason[c] # "ContractProbeCancelled")
         \/ pc[c] = "start" /\ label = "done"
  PROVE  CheckedInOrder'
<1> USE DEF ProbeInv
<1>1. \A d \in Probes \ {c} : pc'[d] = pc[d] /\ reason'[d] = reason[d]
  BY DEF ProbeType
<1>2. pc'[c] = label /\ reason'[c] = r
  BY DEF ProbeType
<1>3. \A i \in DOMAIN checked : checked[i] \in Probes /\ pc[checked[i]] \notin {"start", "fetch"}
  BY DEF ProbeType, CheckedInOrder
<1>4. \A i \in DOMAIN checked : Concluded(i)' <=> Concluded(i)
  BY <1>1, <1>2, <1>3 DEF Concluded
<1>5. \A i \in DOMAIN checked : pc'[checked[i]] \notin {"start", "fetch"}
  BY <1>1, <1>2, <1>3
<1>6. \A d \in Probes : pc'[d] \notin {"start", "fetch", "done"} => checked # <<>> /\ checked[Len(checked)] = d
  BY <1>1, <1>2 DEF CheckedInOrder
<1> QED
  BY <1>4, <1>5, <1>6 DEF CheckedInOrder, Last

(* A call takes the slot or is answered busy. *)
LEMMA TakeSlotStep ==
  ASSUME ProbeInv, NEW c \in Probes, TakeSlot(c)
  PROVE  ProbeInv'
<1> USE DEF ProbeInv, TakeSlot, To, Answer, Inc
<1>1. CASE slots = {}
  <2> USE <1>1
  <2>1. ProbeType' /\ SlotExact' /\ WriterExact' /\ ReasonKnown' /\ Attended'
    BY DEF ProbeType, Labels, SlotExact, WriterExact, ReasonKnown, Attended, Publishing
  <2>2. RecordedSettled' /\ GaugesCurrent' /\ CountsCurrent' /\ ScrapeCurrent'
    <3>1. reason' = [reason EXCEPT ![c] = reason[c]] /\ reason[c] \in Reasons \cup {None}
      BY DEF ProbeType
    <3> QED
      BY <3>1, QuietStep DEF Settled, Labels
  <2>3. CheckedInOrder'
    BY DEF CheckedInOrder, Concluded, Settled, Last, ProbeType, SlotExact
  <2> QED
    BY <2>1, <2>2, <2>3
<1>2. CASE slots # {}
  <2> USE <1>2
  <2>1. /\ pc' = [pc EXCEPT ![c] = "done"] /\ reason' = [reason EXCEPT ![c] = "ContractProbeBusy"]
        /\ requests' = [requests EXCEPT !["ContractProbeBusy"] = @ + 1]
    OBVIOUS
  <2>2. ProbeType' /\ SlotExact' /\ WriterExact' /\ ReasonKnown' /\ Attended'
    BY <2>1 DEF ProbeType, Labels, Reasons, SlotExact, WriterExact, ReasonKnown, Attended, Publishing
  <2>3. \A k \in Completed : requests'[k] = requests[k]
    BY <2>1, ProbesAssumption DEF Completed, ProbeType
  <2>4. RecordedSettled' /\ GaugesCurrent' /\ CountsCurrent' /\ ScrapeCurrent'
    BY <2>1, <2>3, QuietStep DEF Settled, Labels, Reasons
  <2>5. CheckedInOrder'
    BY <2>1, OrderKept DEF Labels, Reasons
  <2> QED
    BY <2>2, <2>4, <2>5
<1> QED
  BY <1>1, <1>2

(* The contract is read: the call joins the order of the checks. *)
LEMMA FetchStep ==
  ASSUME ProbeInv, NEW c \in Probes, Fetch(c)
  PROVE  ProbeInv'
<1> USE ProbesAssumption DEF ProbeInv, ProbeType, Fetch, To, Answer, metrics
<1>0. PICK r \in Completed : reason' = [reason EXCEPT ![c] = r]
  BY DEF Completed
<1>a. r \in Reasons
  BY DEF Reasons
<1>b. /\ checked' \in Seq(Probes) /\ Len(checked') = Len(checked) + 1 /\ checked' # <<>>
      /\ \A i \in DOMAIN checked : checked'[i] = checked[i]
      /\ checked'[Len(checked) + 1] = c /\ DOMAIN checked' = DOMAIN checked \cup {Len(checked) + 1}
  <2>1. checked \in Seq(Probes) /\ checked' = Append(checked, c)
    OBVIOUS
  <2> QED
    BY ONLY <2>1, c \in Probes, AppendProperties
<1>1. ProbeType'
  BY <1>0, <1>a, <1>b DEF Labels
<1>2. SlotExact'
  BY DEF SlotExact
<1>3. WriterExact'
  BY DEF WriterExact, Publishing
<1>4. ReasonKnown'
  BY <1>0 DEF ReasonKnown, Publishing
<1>5. Attended'
  BY DEF Attended
<1>6. RecordedSettled' /\ GaugesCurrent' /\ CountsCurrent' /\ ScrapeCurrent'
  <2>1. /\ ProbeInv /\ pc' = [pc EXCEPT ![c] = "check"] /\ pc[c] = "fetch"
        /\ UNCHANGED <<observed, ready, recorded, scrape, readers, abandoned, requests>>
    OBVIOUS
  <2> QED
    BY ONLY <1>0, <1>a, <2>1, QuietStep, c \in Probes DEF Settled, Labels
<1>7. CheckedInOrder'
  <2>1. \A i \in DOMAIN checked : checked[i] \in Probes /\ checked[i] # c
    BY DEF CheckedInOrder
  <2>2. \A i \in DOMAIN checked : (Concluded(i)' <=> Concluded(i)) /\ pc'[checked[i]] = pc[checked[i]]
    BY <1>0, <1>b, <2>1 DEF Concluded
  <2>4. \A d \in Probes \ {c} : pc[d] \in {"start", "done"}
    BY DEF SlotExact
  <2>5. pc'[c] = "check" /\ \A d \in Probes \ {c} : pc'[d] = pc[d]
    OBVIOUS
  <2>3. ~Concluded(Len(checked))'
    BY <1>b, <2>5 DEF Concluded, Settled
  <2>6. \A i \in DOMAIN checked' : pc'[checked'[i]] \notin {"start", "fetch"}
    BY <1>b, <2>2, <2>5 DEF CheckedInOrder
  <2>7. \A d \in Probes : pc'[d] \notin {"start", "fetch", "done"} => checked' # <<>> /\ checked'[Len(checked')] = d
    BY <1>b, <2>4, <2>5
  <2>8. ASSUME NEW i \in DOMAIN checked', Concluded(i)', \A j \in DOMAIN checked' : j > i => ~Concluded(j)'
        PROVE  recorded' # <<>> /\ Last' = checked'[i]
    <3>1. i \in DOMAIN checked
      BY <1>b, <2>3, <2>8
    <3>2. Concluded(i) /\ \A j \in DOMAIN checked : j > i => ~Concluded(j)
      BY <1>b, <2>2, <2>8, <3>1
    <3> QED
      BY <1>b, <3>1, <3>2 DEF CheckedInOrder, Last
  <2> QED
    BY <2>6, <2>7, <2>8 DEF CheckedInOrder
<1> QED
  BY <1>1, <1>2, <1>3, <1>4, <1>5, <1>6, <1>7

(* A call whose caller has left publishes nothing. *)
LEMMA CheckStep ==
  ASSUME ProbeInv, NEW c \in Probes, Check(c)
  PROVE  ProbeInv'
<1> USE DEF ProbeInv, Check, To, Answer, Inc
<1>1. CASE c \in cancelled
  <2>1. /\ pc' = [pc EXCEPT ![c] = "release"] /\ reason' = [reason EXCEPT ![c] = "ContractProbeCancelled"]
        /\ requests' = [requests EXCEPT !["ContractProbeCancelled"] = @ + 1] /\ UNCHANGED writer
    BY <1>1
  <2>2. ProbeType' /\ SlotExact' /\ WriterExact' /\ ReasonKnown' /\ Attended'
    BY <2>1 DEF ProbeType, Labels, Reasons, SlotExact, WriterExact, ReasonKnown, Attended, Publishing
  <2>3. \A k \in Completed : requests'[k] = requests[k]
    BY <2>1, ProbesAssumption DEF Completed, ProbeType
  <2>4. RecordedSettled' /\ GaugesCurrent' /\ CountsCurrent' /\ ScrapeCurrent'
    BY <2>1, <2>3, QuietStep DEF Settled, Labels, Reasons
  <2>5. CheckedInOrder'
    BY <2>1, OrderKept DEF Labels, Reasons, Settled
  <2> QED
    BY <2>2, <2>4, <2>5
<1>2. CASE c \notin cancelled
  <2> USE <1>2
  <2>1. pc' = [pc EXCEPT ![c] = "lock"] /\ writer = None /\ writer' = c /\ UNCHANGED <<reason, requests>>
    OBVIOUS
  <2>2. ProbeType' /\ SlotExact' /\ WriterExact' /\ ReasonKnown' /\ Attended'
    BY <2>1, ProbesAssumption DEF ProbeType, Labels, SlotExact, WriterExact, ReasonKnown, Attended, Publishing
  <2>3. reason' = [reason EXCEPT ![c] = reason[c]] /\ reason[c] \in Reasons \cup {None}
    BY <2>1 DEF ProbeType
  <2>4. RecordedSettled' /\ GaugesCurrent' /\ CountsCurrent' /\ ScrapeCurrent'
    BY <2>1, <2>3, QuietStep DEF Settled, Labels
  <2>5. CheckedInOrder'
    <3>1. ProbeInv /\ pc[c] = "check" /\ UNCHANGED <<checked, recorded>>
      OBVIOUS
    <3>2. "lock" \in Labels \ {"start", "fetch"} /\ "lock" \notin Settled /\ "check" \notin Settled \cup {"start", "fetch", "done"}
      BY DEF Labels, Settled
    <3> QED
      BY ONLY <2>1, <2>3, <3>1, <3>2, OrderKept, c \in Probes
  <2> QED
    BY <2>2, <2>4, <2>5
<1> QED
  BY <1>1, <1>2

(* Nor does one whose caller left while it waited for metricMu. *)
LEMMA CancelledStep ==
  ASSUME ProbeInv, NEW c \in Probes, Cancelled(c)
  PROVE  ProbeInv'
<1> USE DEF ProbeInv, Cancelled, To, Answer, Inc
<1>1. /\ pc' = [pc EXCEPT ![c] = "release"] /\ reason' = [reason EXCEPT ![c] = "ContractProbeCancelled"]
      /\ requests' = [requests EXCEPT !["ContractProbeCancelled"] = @ + 1] /\ UNCHANGED writer
  OBVIOUS
<1>2. ProbeType' /\ SlotExact' /\ WriterExact' /\ ReasonKnown' /\ Attended'
  BY <1>1 DEF ProbeType, Labels, Reasons, SlotExact, WriterExact, ReasonKnown, Attended, Publishing
<1>3. \A k \in Completed : requests'[k] = requests[k]
  BY <1>1, ProbesAssumption DEF Completed, ProbeType
<1>4. RecordedSettled' /\ GaugesCurrent' /\ CountsCurrent' /\ ScrapeCurrent'
  BY <1>1, <1>3, QuietStep DEF Settled, Labels, Reasons
<1>5. CheckedInOrder'
  BY <1>1, OrderKept DEF Labels, Reasons, Settled
<1> QED
  BY <1>2, <1>4, <1>5

(* The call has metricMu, and goes on if its caller is there. *)
LEMMA LockStep ==
  ASSUME ProbeInv, NEW c \in Probes, Lock(c)
  PROVE  ProbeInv'
<1> USE ProbesAssumption DEF ProbeInv, ProbeType, Lock, To, metrics
<1>0. reason' = [reason EXCEPT ![c] = reason[c]] /\ reason[c] \in Reasons \cup {None}
  OBVIOUS
<1>1. ProbeType'
  BY DEF Labels
<1>2. SlotExact'
  BY DEF SlotExact
<1>3. WriterExact'
  BY DEF WriterExact, Publishing
<1>4. ReasonKnown'
  BY DEF ReasonKnown, Publishing, Completed
<1>5. Attended'
  BY DEF Attended
<1>6. PICK label \in {"cancelled", "count"} : pc' = [pc EXCEPT ![c] = label] /\ pc[c] = "lock"
        /\ UNCHANGED <<requests, observed, ready, recorded, scrape, readers, abandoned, checked>>
  OBVIOUS
<1>7. RecordedSettled' /\ GaugesCurrent' /\ CountsCurrent' /\ ScrapeCurrent'
  BY ONLY ProbeInv, c \in Probes, <1>0, <1>6, QuietStep DEF Settled, Labels
<1>8. CheckedInOrder'
  BY ONLY ProbeInv, c \in Probes, <1>0, <1>6, OrderKept DEF Settled, Labels
<1> QED
  BY <1>1, <1>2, <1>3, <1>4, <1>5, <1>7, <1>8

(* The publication is over. *)
LEMMA UnlockStep ==
  ASSUME ProbeInv, NEW c \in Probes, Unlock(c)
  PROVE  ProbeInv'
<1> USE ProbesAssumption DEF ProbeInv, ProbeType, Unlock, To, metrics
<1>0. reason' = [reason EXCEPT ![c] = reason[c]] /\ reason[c] \in Reasons \cup {None}
  OBVIOUS
<1>1. ProbeType'
  BY DEF Labels
<1>2. SlotExact'
  BY DEF SlotExact
<1>3. WriterExact'
  BY DEF WriterExact, Publishing
<1>4. ReasonKnown'
  BY DEF ReasonKnown, Publishing, Completed
<1>5. Attended'
  BY DEF Attended
<1>6. /\ pc' = [pc EXCEPT ![c] = "release"] /\ pc[c] = "unlock"
        /\ UNCHANGED <<requests, observed, ready, recorded, scrape, readers, abandoned, checked>>
  OBVIOUS
<1>7. RecordedSettled' /\ GaugesCurrent' /\ CountsCurrent' /\ ScrapeCurrent'
  BY ONLY ProbeInv, c \in Probes, <1>0, <1>6, QuietStep DEF Settled, Labels
<1>8. CheckedInOrder'
  BY ONLY ProbeInv, c \in Probes, <1>0, <1>6, OrderKept DEF Settled, Labels
<1> QED
  BY <1>1, <1>2, <1>3, <1>4, <1>5, <1>7, <1>8

(* The next call may have the slot. *)
LEMMA ReleaseStep ==
  ASSUME ProbeInv, NEW c \in Probes, Release(c)
  PROVE  ProbeInv'
<1> USE ProbesAssumption DEF ProbeInv, ProbeType, Release, To, metrics
<1>0. reason' = [reason EXCEPT ![c] = reason[c]] /\ reason[c] \in Reasons \cup {None}
  OBVIOUS
<1>1. ProbeType'
  BY DEF Labels
<1>2. SlotExact'
  BY DEF SlotExact
<1>3. WriterExact'
  BY DEF WriterExact, Publishing
<1>4. ReasonKnown'
  BY DEF ReasonKnown, Publishing, Completed
<1>5. Attended'
  BY DEF Attended
<1>6. /\ pc' = [pc EXCEPT ![c] = "done"] /\ pc[c] = "release"
        /\ UNCHANGED <<requests, observed, ready, recorded, scrape, readers, abandoned, checked>>
  OBVIOUS
<1>7. RecordedSettled' /\ GaugesCurrent' /\ CountsCurrent' /\ ScrapeCurrent'
  BY ONLY ProbeInv, c \in Probes, <1>0, <1>6, QuietStep DEF Settled, Labels
<1>8. CheckedInOrder'
  BY ONLY ProbeInv, c \in Probes, <1>0, <1>6, OrderKept DEF Settled, Labels
<1> QED
  BY <1>1, <1>2, <1>3, <1>4, <1>5, <1>7, <1>8

(* How many recorded calls have a reason is a number. *)
LEMMA WithFinite ==
  ASSUME ProbeType, NEW r
  PROVE  IsFiniteSet(With(r)) /\ Cardinality(With(r)) \in Nat
<1>1. Len(recorded) \in Nat /\ With(r) \subseteq 1..Len(recorded)
  BY DEF ProbeType, With
<1>2. IsFiniteSet(1..Len(recorded))
  BY <1>1, FS_Interval
<1> QED
  BY <1>1, <1>2, FS_Subset, FS_CardinalityType

(* Recorded calls are calls, past their publication. *)
LEMMA RecordedCalls ==
  ASSUME ProbeInv
  PROVE  \A i \in DOMAIN recorded : recorded[i] \in Probes /\ pc[recorded[i]] \in Settled
<1>1. \A i \in DOMAIN recorded : recorded[i] \in Probes
  BY DEF ProbeInv, ProbeType
<1> QED
  BY <1>1 DEF ProbeInv, RecordedSettled

(* A call that publishes is alone, and no scrape is under way. *)
LEMMA PublishesAlone ==
  ASSUME ProbeInv, NEW c \in Probes, pc[c] \in Publishing
  PROVE  /\ readers = {} /\ reason[c] \in Completed
         /\ \A d \in Probes \ {c} : pc[d] \in {"start", "done"}
         /\ checked # <<>> /\ checked[Len(checked)] = c
BY DEF ProbeInv, WriterExact, SlotExact, ReasonKnown, CheckedInOrder, Publishing

(* The counter is the first of the metrics to change. *)
LEMMA CountStep ==
  ASSUME ProbeInv, NEW c \in Probes, Count(c)
  PROVE  ProbeInv'
<1> USE ProbesAssumption DEF ProbeInv, ProbeType, Count, To, Inc
<1>0. reason' = [reason EXCEPT ![c] = reason[c]] /\ reason[c] \in Reasons \cup {None}
  OBVIOUS
<1>a. readers = {} /\ reason[c] \in Completed /\ \A d \in Probes \ {c} : pc[d] \in {"start", "done"}
  BY PublishesAlone DEF Publishing
<1>b. pc[c] = "count" /\ pc'[c] = "observed" /\ \A d \in Probes \ {c} : pc'[d] = pc[d]
  OBVIOUS
<1>c. requests' \in [Reasons -> Nat] /\ \A r \in Reasons : requests'[r] = IF r = reason[c] THEN requests[r] + 1 ELSE requests[r]
  <2>1. requests \in [Reasons -> Nat] /\ requests' = [requests EXCEPT ![reason[c]] = @ + 1] /\ reason[c] \in Reasons
    BY <1>a DEF Reasons
  <2> QED
    BY ONLY <2>1
<1>1. ProbeType'
  <2>1. pc' \in [Probes -> Labels]
    BY DEF Labels
  <2> QED
    BY <1>c, <2>1
<1>2. SlotExact'
  BY DEF SlotExact
<1>3. WriterExact'
  BY DEF WriterExact, Publishing
<1>4. ReasonKnown'
  BY DEF ReasonKnown, Publishing, Completed
<1>5. Attended'
  BY DEF Attended
<1>6. RecordedSettled'
  <2>1. \A i \in DOMAIN recorded : recorded[i] \in Probes /\ recorded[i] # c
    BY RecordedCalls, <1>b DEF Settled
  <2> QED
    BY <1>b, <2>1 DEF RecordedSettled
<1>7. GaugesCurrent'
  BY DEF GaugesCurrent, Verdict, Last
<1>8. CountsCurrent'
  <2>1. \A r : With(r)' = With(r)
    BY DEF With
  <2> SUFFICES ASSUME NEW r \in Completed
               PROVE  requests'[r] = Cardinality(With(r)) + (IF \E d \in Probes : pc'[d] = "observed" /\ reason'[d] = r THEN 1 ELSE 0)
    BY <2>1 DEF CountsCurrent
  <2>2. ~\E d \in Probes : pc[d] = "observed" /\ reason[d] = r
    BY <1>a, <1>b
  <2>3. (\E d \in Probes : pc'[d] = "observed" /\ reason'[d] = r) <=> r = reason[c]
    BY <1>a, <1>b
  <2>4. Cardinality(With(r)) \in Nat
    BY WithFinite
  <2>5. requests[r] = Cardinality(With(r))
    BY <2>2, <2>4 DEF CountsCurrent
  <2>6. requests'[r] = IF r = reason[c] THEN requests[r] + 1 ELSE requests[r]
    BY <1>c DEF Reasons
  <2> QED
    BY ONLY <2>3, <2>4, <2>5, <2>6
<1>9. ScrapeCurrent'
  BY <1>a DEF ScrapeCurrent
<1>10. CheckedInOrder'
  <2>1. /\ "observed" \in Labels \ {"start", "fetch"} /\ "observed" \notin Settled
        /\ "count" \notin Settled \cup {"start", "fetch", "done"}
    BY DEF Labels, Settled
  <2>2. pc[c] = "count" /\ pc' = [pc EXCEPT ![c] = "observed"] /\ UNCHANGED <<checked, recorded>>
    OBVIOUS
  <2> QED
    BY ONLY ProbeInv, c \in Probes, <1>0, <2>1, <2>2, OrderKept
<1> QED
  BY <1>1, <1>2, <1>3, <1>4, <1>5, <1>6, <1>7, <1>8, <1>9, <1>10

(* The time is the second: from here on the call is recorded. *)
LEMMA SetObservedStep ==
  ASSUME ProbeInv, NEW c \in Probes, SetObserved(c)
  PROVE  ProbeInv'
<1> USE ProbesAssumption DEF ProbeInv, ProbeType, SetObserved, To
<1>a. /\ readers = {} /\ reason[c] \in Completed /\ \A d \in Probes \ {c} : pc[d] \in {"start", "done"}
      /\ checked # <<>> /\ checked[Len(checked)] = c
  BY PublishesAlone DEF Publishing
<1>b. pc[c] = "observed" /\ pc'[c] = "clear" /\ \A d \in Probes \ {c} : pc'[d] = pc[d]
  OBVIOUS
<1>c. /\ recorded' \in Seq(Probes) /\ Len(recorded) \in Nat /\ Len(recorded') = Len(recorded) + 1 /\ recorded' # <<>>
      /\ \A i \in DOMAIN recorded : recorded'[i] = recorded[i] /\ i # Len(recorded) + 1
      /\ recorded'[Len(recorded) + 1] = c /\ DOMAIN recorded' = DOMAIN recorded \cup {Len(recorded) + 1}
  <2>1. recorded \in Seq(Probes) /\ recorded' = Append(recorded, c)
    OBVIOUS
  <2> QED
    BY ONLY <2>1, c \in Probes, AppendProperties
<1>d. reason' = reason /\ \A i \in DOMAIN recorded : recorded[i] \in Probes /\ recorded[i] # c
  BY RecordedCalls, <1>b DEF Settled
<1>1. ProbeType'
  <2>1. pc' \in [Probes -> Labels]
    BY DEF Labels
  <2>2. observed' \in Nat
    BY <1>c
  <2> QED
    BY <1>c, <2>1, <2>2
<1>2. SlotExact'
  BY DEF SlotExact
<1>3. WriterExact'
  BY DEF WriterExact, Publishing
<1>4. ReasonKnown'
  BY DEF ReasonKnown, Publishing, Completed
<1>5. Attended'
  BY DEF Attended
<1>6. RecordedSettled'
  <2> SUFFICES ASSUME NEW i \in DOMAIN recorded'
               PROVE  pc'[recorded'[i]] \in Settled /\ reason'[recorded'[i]] \in Completed /\ recorded'[i] \notin abandoned'
    BY DEF RecordedSettled
  <2>1. CASE i \in DOMAIN recorded
    BY <1>b, <1>c, <1>d, <2>1 DEF RecordedSettled
  <2>2. CASE i = Len(recorded) + 1
    BY <1>a, <1>b, <1>c, <2>2 DEF Attended, Settled
  <2> QED
    BY <1>c, <2>1, <2>2
<1>e. Last' = c
  BY <1>c DEF Last
<1>7. GaugesCurrent'
  BY <1>a, <1>b, <1>c, <1>e DEF GaugesCurrent
<1>8. CountsCurrent'
  <2> SUFFICES ASSUME NEW r \in Completed
               PROVE  requests'[r] = Cardinality(With(r)') + (IF \E d \in Probes : pc'[d] = "observed" /\ reason'[d] = r THEN 1 ELSE 0)
    BY DEF CountsCurrent
  <2>1. ~\E d \in Probes : pc'[d] = "observed" /\ reason'[d] = r
    BY <1>a, <1>b
  <2>2. (\E d \in Probes : pc[d] = "observed" /\ reason[d] = r) <=> r = reason[c]
    BY <1>a, <1>b
  <2>3. IsFiniteSet(With(r)) /\ Cardinality(With(r)) \in Nat
    BY WithFinite
  <2>4. With(r)' = IF r = reason[c] THEN With(r) \cup {Len(recorded) + 1} ELSE With(r)
    BY <1>c, <1>d DEF With
  <2>5. Len(recorded) + 1 \notin With(r)
    BY <1>c DEF With
  <2>6. Cardinality(With(r)') = IF r = reason[c] THEN Cardinality(With(r)) + 1 ELSE Cardinality(With(r))
    BY ONLY <2>3, <2>4, <2>5, FS_AddElement
  <2>7. requests'[r] = IF r = reason[c] THEN Cardinality(With(r)) + 1 ELSE Cardinality(With(r))
    BY <2>2, <2>3 DEF CountsCurrent
  <2> QED
    BY ONLY <2>1, <2>3, <2>6, <2>7
<1>9. ScrapeCurrent'
  BY <1>a DEF ScrapeCurrent
<1>10. CheckedInOrder'
  <2>1. \A i \in DOMAIN checked' : pc'[checked'[i]] \notin {"start", "fetch"}
    BY <1>b DEF CheckedInOrder
  <2>2. \A d \in Probes : pc'[d] \notin {"start", "fetch", "done"} => checked' # <<>> /\ checked'[Len(checked')] = d
    BY <1>a, <1>b
  <2>3. Len(checked) \in DOMAIN checked /\ \A i \in DOMAIN checked : i = Len(checked) \/ Len(checked) > i
    BY <1>a
  <2>4. Concluded(Len(checked))'
    <3>1. reason[c] # "ContractProbeCancelled"
      BY <1>a DEF Completed
    <3> QED
      BY <1>a, <1>b, <1>d, <3>1 DEF Concluded, Settled
  <2>5. ASSUME NEW i \in DOMAIN checked', Concluded(i)', \A j \in DOMAIN checked' : j > i => ~Concluded(j)'
        PROVE  recorded' # <<>> /\ Last' = checked'[i]
    BY <1>a, <1>c, <1>e, <2>3, <2>4, <2>5
  <2> QED
    BY <2>1, <2>2, <2>5 DEF CheckedInOrder
<1> QED
  BY <1>1, <1>2, <1>3, <1>4, <1>5, <1>6, <1>7, <1>8, <1>9, <1>10

(* The readiness gauge goes down first. *)
LEMMA ClearReadyStep ==
  ASSUME ProbeInv, NEW c \in Probes, ClearReady(c)
  PROVE  ProbeInv'
<1> USE ProbesAssumption DEF ProbeInv, ProbeType, ClearReady, To
<1>0. reason' = [reason EXCEPT ![c] = reason[c]] /\ reason[c] \in Reasons \cup {None}
  OBVIOUS
<1>a. readers = {} /\ reason[c] \in Completed /\ \A d \in Probes \ {c} : pc[d] \in {"start", "done"}
  BY PublishesAlone DEF Publishing
<1>1. ProbeType'
  BY DEF Labels
<1>2. SlotExact'
  BY DEF SlotExact
<1>3. WriterExact'
  BY DEF WriterExact, Publishing
<1>4. ReasonKnown'
  BY DEF ReasonKnown, Publishing, Completed
<1>5. Attended'
  BY DEF Attended
<1>6. PICK label \in {"set", "unlock"} : pc' = [pc EXCEPT ![c] = label] /\ pc[c] = "clear"
      /\ UNCHANGED <<requests, recorded, abandoned, checked, readers, scrape>>
  OBVIOUS
<1>7. RecordedSettled' /\ CountsCurrent' /\ Verdict' = Verdict
  BY ONLY ProbeInv, c \in Probes, <1>0, <1>6, RecordKept DEF Settled, Labels
<1>8. GaugesCurrent'
  BY <1>a, <1>7 DEF GaugesCurrent, Verdict, Last
<1>9. ScrapeCurrent'
  BY <1>a DEF ScrapeCurrent
<1>10. CheckedInOrder'
  BY ONLY ProbeInv, c \in Probes, <1>0, <1>6, OrderKept DEF Labels, Settled
<1> QED
  BY <1>1, <1>2, <1>3, <1>4, <1>5, <1>7, <1>8, <1>9, <1>10

(* It goes up only for a contract that was reached. *)
LEMMA SetReadyStep ==
  ASSUME ProbeInv, NEW c \in Probes, SetReady(c)
  PROVE  ProbeInv'
<1> USE ProbesAssumption DEF ProbeInv, ProbeType, SetReady, To
<1>0. reason' = [reason EXCEPT ![c] = reason[c]] /\ reason[c] \in Reasons \cup {None}
  OBVIOUS
<1>a. readers = {} /\ reason[c] \in Completed /\ \A d \in Probes \ {c} : pc[d] \in {"start", "done"}
  BY PublishesAlone DEF Publishing
<1>1. ProbeType'
  BY DEF Labels
<1>2. SlotExact'
  BY DEF SlotExact
<1>3. WriterExact'
  BY DEF WriterExact, Publishing
<1>4. ReasonKnown'
  BY DEF ReasonKnown, Publishing, Completed
<1>5. Attended'
  BY DEF Attended
<1>6. /\ pc' = [pc EXCEPT ![c] = "unlock"] /\ pc[c] = "set"
      /\ UNCHANGED <<requests, recorded, abandoned, checked, readers, scrape>>
  OBVIOUS
<1>7. RecordedSettled' /\ CountsCurrent' /\ Verdict' = Verdict
  BY ONLY ProbeInv, c \in Probes, <1>0, <1>6, RecordKept DEF Settled, Labels
<1>8. GaugesCurrent'
  BY <1>a, <1>7 DEF GaugesCurrent, Verdict, Last
<1>9. ScrapeCurrent'
  BY <1>a DEF ScrapeCurrent
<1>10. CheckedInOrder'
  BY ONLY ProbeInv, c \in Probes, <1>0, <1>6, OrderKept DEF Labels, Settled
<1> QED
  BY <1>1, <1>2, <1>3, <1>4, <1>5, <1>7, <1>8, <1>9, <1>10

(* A scrape under way keeps calls from publishing. *)
LEMMA GatherLockStep ==
  ASSUME ProbeInv, NEW s \in Scrapes, GatherLock(s)
  PROVE  ProbeInv'
<1> USE ProbesAssumption DEF ProbeInv, GatherLock, metrics
<1>1. scrape' \in [Scrapes -> [Metrics -> Nat \cup [Reasons -> Nat] \cup {None}]]
  BY DEF ProbeType, Unread
<1>2. ProbeType'
  BY <1>1 DEF ProbeType
<1>3. SlotExact' /\ Attended'
  BY DEF SlotExact, Attended
<1>4. WriterExact'
  BY DEF WriterExact, Publishing, ProbeType
<1>5. RecordedSettled'
  BY DEF RecordedSettled
<1>6. ReasonKnown' /\ GaugesCurrent' /\ CountsCurrent' /\ CheckedInOrder'
  BY MetricsKept
<1>7. ScrapeCurrent'
  <2>1. scrape'[s] = Unread /\ \A t \in Scrapes \ {s} : scrape'[t] = scrape[t]
    BY DEF ProbeType
  <2>2. Unread["requests"] = None /\ Unread["observed"] = None /\ Unread["ready"] = None
    BY DEF Unread, Metrics
  <2>3. \A t \in readers : t \in Scrapes \ {s}
    BY DEF ProbeType
  <2> QED
    BY <2>1, <2>2, <2>3 DEF ScrapeCurrent
<1> QED
  BY <1>2, <1>3, <1>4, <1>5, <1>6, <1>7

(* A scrape reads a metric as it is. *)
LEMMA GatherReadStep ==
  ASSUME ProbeInv, NEW s \in Scrapes, GatherRead(s)
  PROVE  ProbeInv'
<1> USE ProbesAssumption DEF ProbeInv, GatherRead, metrics
<1>1. PICK m \in Metrics :
        scrape' = [scrape EXCEPT ![s][m] = CASE m = "requests" -> requests [] m = "observed" -> observed [] m = "ready" -> ready]
  OBVIOUS
<1> DEFINE v == CASE m = "requests" -> requests [] m = "observed" -> observed [] m = "ready" -> ready
<1>2. v \in Nat \cup [Reasons -> Nat] \cup {None}
  BY <1>1 DEF ProbeType, Metrics
<1>3. scrape' \in [Scrapes -> [Metrics -> Nat \cup [Reasons -> Nat] \cup {None}]]
  <2>1. scrape \in [Scrapes -> [Metrics -> Nat \cup [Reasons -> Nat] \cup {None}]]
    BY DEF ProbeType
  <2>2. scrape' = [scrape EXCEPT ![s][m] = v]
    BY <1>1
  <2> HIDE DEF v
  <2> QED
    BY ONLY <1>2, <2>1, <2>2, m \in Metrics, s \in Scrapes
<1>4. ProbeType'
  BY <1>3 DEF ProbeType
<1>5. SlotExact' /\ Attended'
  BY DEF SlotExact, Attended
<1>6. WriterExact'
  BY DEF WriterExact, Publishing
<1>7. RecordedSettled'
  BY DEF RecordedSettled
<1>8. ReasonKnown' /\ GaugesCurrent' /\ CountsCurrent' /\ CheckedInOrder'
  BY MetricsKept
<1>9. ScrapeCurrent'
  <2>1. \A t \in readers \ {s} : scrape'[t] = scrape[t]
    BY <1>1 DEF ProbeType
  <2>2. scrape'[s] = [scrape[s] EXCEPT ![m] = v] /\ DOMAIN scrape[s] = Metrics
    BY <1>1 DEF ProbeType
  <2>3. CASE m = "requests"
    BY <2>1, <2>2, <2>3 DEF ScrapeCurrent, Metrics, ProbeType
  <2>4. CASE m = "observed"
    BY <2>1, <2>2, <2>4 DEF ScrapeCurrent, Metrics, ProbeType
  <2>5. CASE m = "ready"
    BY <2>1, <2>2, <2>5 DEF ScrapeCurrent, Metrics, ProbeType
  <2> QED
    BY <1>1, <2>3, <2>4, <2>5 DEF Metrics
<1> QED
  BY <1>4, <1>5, <1>6, <1>7, <1>8, <1>9

(* A scrape that ends takes nothing with it. *)
LEMMA GatherUnlockStep ==
  ASSUME ProbeInv, NEW s \in Scrapes, GatherUnlock(s)
  PROVE  ProbeInv'
<1> USE ProbesAssumption DEF ProbeInv, GatherUnlock, metrics
<1>1. ProbeType'
  BY DEF ProbeType
<1>2. SlotExact' /\ Attended'
  BY DEF SlotExact, Attended
<1>3. WriterExact'
  BY DEF WriterExact, Publishing
<1>4. RecordedSettled'
  BY DEF RecordedSettled
<1>5. ReasonKnown' /\ GaugesCurrent' /\ CountsCurrent' /\ CheckedInOrder'
  BY MetricsKept
<1>6. ScrapeCurrent'
  BY DEF ScrapeCurrent
<1> QED
  BY <1>1, <1>2, <1>3, <1>4, <1>5, <1>6

(* A caller that leaves is too late for what has been recorded. *)
LEMMA CancelStep ==
  ASSUME ProbeInv, NEW c \in Probes, Cancel(c)
  PROVE  ProbeInv'
<1> USE ProbesAssumption DEF ProbeInv, Cancel, metrics
<1>1. ProbeType'
  BY DEF ProbeType
<1>2. SlotExact' /\ Attended'
  BY DEF SlotExact, Attended
<1>3. WriterExact'
  BY DEF WriterExact, Publishing
<1>4. RecordedSettled'
  BY DEF RecordedSettled, Settled
<1>5. ReasonKnown' /\ GaugesCurrent' /\ CountsCurrent' /\ CheckedInOrder'
  BY MetricsKept
<1>6. ScrapeCurrent'
  BY DEF ScrapeCurrent
<1> QED
  BY <1>1, <1>2, <1>3, <1>4, <1>5, <1>6

(* The invariant is inductive. *)
LEMMA NextInv == ProbeInv /\ [Next]_vars => ProbeInv'
<1> SUFFICES ASSUME ProbeInv, [Next]_vars PROVE ProbeInv'
  OBVIOUS
<1>1. CASE UNCHANGED vars
  <2> USE <1>1 DEF ProbeInv, vars, metrics
  <2>1. ProbeType'
    BY DEF ProbeType
  <2>2. SlotExact' /\ WriterExact' /\ Attended' /\ RecordedSettled' /\ ScrapeCurrent'
    BY DEF SlotExact, WriterExact, Attended, RecordedSettled, ScrapeCurrent
  <2>3. ReasonKnown' /\ GaugesCurrent' /\ CountsCurrent' /\ CheckedInOrder'
    BY MetricsKept
  <2> QED
    BY <2>1, <2>2, <2>3
<1>2. ASSUME NEW c \in Probes, readiness(c) \/ Cancel(c)
      PROVE  ProbeInv'
  BY <1>2, TakeSlotStep, FetchStep, CheckStep, LockStep, CancelledStep, CountStep, SetObservedStep, ClearReadyStep,
     SetReadyStep, UnlockStep, ReleaseStep, CancelStep DEF readiness
<1>3. ASSUME NEW s \in Scrapes, Gather(s)
      PROVE  ProbeInv'
  BY <1>3, GatherLockStep, GatherReadStep, GatherUnlockStep DEF Gather
<1> QED
  BY <1>1, <1>2, <1>3 DEF Next

-----------------------------------------------------------------------------
(* Theorems.                                                               *)

(* The invariant holds of every behaviour. *)
LEMMA Invariant == Spec => []ProbeInv
  BY InitInv, NextInv, PTL DEF Spec

(* A request that went away while the contract was read, or while its      *)
(* handler waited for scrapes, is never published.                         *)
THEOREM AbandonedUnpublished == Spec => []AbandonedNeverObserved
<1>1. ProbeInv => AbandonedNeverObserved
  BY DEF ProbeInv, RecordedSettled, AbandonedNeverObserved
<1> QED
  BY <1>1, Invariant, PTL

(* Once no call is publishing, the readiness gauge is the answer of the    *)
(* last check that was not cancelled: publications cannot overtake each    *)
(* other, because the slot is kept until a call has published.             *)
THEOREM LatestIsShown == Spec => []LatestShown
<1>1. ASSUME ProbeInv
      PROVE  LatestShown
  <2> SUFFICES ASSUME NEW i \in DOMAIN checked, reason[checked[i]] # "ContractProbeCancelled",
                      \A j \in DOMAIN checked : j > i => reason[checked[j]] = "ContractProbeCancelled",
                      \A c \in Probes : pc[c] \in {"start", "fetch", "release", "done"}
               PROVE  ready = IF reason[checked[i]] = "ContractReachable" THEN 1 ELSE 0
    BY DEF LatestShown
  <2> USE <1>1 DEF ProbeInv
  <2>1. checked[i] \in Probes
    BY DEF ProbeType
  <2>2. pc[checked[i]] \in {"release", "done"}
    BY <2>1 DEF CheckedInOrder
  <2>3. Concluded(i) /\ \A j \in DOMAIN checked : j > i => ~Concluded(j)
    BY <2>2 DEF Concluded, Settled
  <2>4. recorded # <<>> /\ Last = checked[i]
    BY <2>3 DEF CheckedInOrder
  <2>5. ready = Verdict
    BY DEF GaugesCurrent
  <2> QED
    BY <2>4, <2>5 DEF Verdict
<1> QED
  BY <1>1, Invariant, PTL

-----------------------------------------------------------------------------
(* The refinement of HealthSample.                                         *)

Outcomes == [i \in DOMAIN recorded |-> reason[recorded[i]]]
View == [s \in Scrapes |->
           IF Gathered(s) THEN [observed |-> scrape[s]["observed"], ready |-> scrape[s]["ready"],
                                counts |-> [r \in Completed |-> scrape[s]["requests"][r]]]
           ELSE None]

(* The abstract observations are as many as the recorded calls. *)
LEMMA OutcomesType ==
  ASSUME ProbeInv
  PROVE  /\ Outcomes \in Seq(Completed) /\ Len(Outcomes) = Len(recorded)
         /\ Outcomes = <<>> <=> recorded = <<>>
<1>1. \A i \in DOMAIN recorded : reason[recorded[i]] \in Completed
  BY DEF ProbeInv, RecordedSettled
<1>2. recorded \in Seq(Probes)
  BY DEF ProbeInv, ProbeType
<1> QED
  BY ONLY <1>1, <1>2 DEF Outcomes

(* When no call publishes, the metrics are what the promise shows. *)
LEMMA MetricsShown ==
  ASSUME ProbeInv, \A c \in Probes : pc[c] \notin {"observed", "clear", "set"}
  PROVE  Health!Shown(Outcomes) = [observed |-> observed, ready |-> ready, counts |-> [r \in Completed |-> requests[r]]]
<1>1. observed = Len(Outcomes) /\ ready = Verdict
  BY OutcomesType DEF ProbeInv, GaugesCurrent
<1>2. Verdict = IF Outcomes # <<>> /\ Outcomes[Len(Outcomes)] = "ContractReachable" THEN 1 ELSE 0
  <2>1. recorded \in Seq(Probes)
    BY DEF ProbeInv, ProbeType
  <2>2. recorded # <<>> => Outcomes[Len(recorded)] = reason[Last]
    BY <2>1 DEF Outcomes, Last
  <2> QED
    BY <2>2, OutcomesType DEF Verdict
<1>3. \A r \in Completed : requests[r] = Cardinality({i \in DOMAIN Outcomes : Outcomes[i] = r})
  <2> SUFFICES ASSUME NEW r \in Completed PROVE requests[r] = Cardinality({i \in DOMAIN Outcomes : Outcomes[i] = r})
    OBVIOUS
  <2>1. {i \in DOMAIN Outcomes : Outcomes[i] = r} = With(r)
    BY DEF Outcomes, With
  <2>2. Cardinality(With(r)) \in Nat
    BY WithFinite DEF ProbeInv
  <2>3. requests[r] = Cardinality(With(r)) + 0
    BY DEF ProbeInv, CountsCurrent
  <2> QED
    BY <2>1, <2>2, <2>3
<1>4. [o \in Completed |-> Cardinality({i \in DOMAIN Outcomes : Outcomes[i] = o})] = [r \in Completed |-> requests[r]]
  BY <1>3
<1>5. Health!Shown(Outcomes)
      = [observed |-> Len(Outcomes), ready |-> IF Outcomes # <<>> /\ Outcomes[Len(Outcomes)] = "ContractReachable" THEN 1 ELSE 0,
         counts |-> [o \in Completed |-> Cardinality({i \in DOMAIN Outcomes : Outcomes[i] = o})]]
  <2>1. \A S : Health!Cardinality(S) = Cardinality(S)
    BY DEF Cardinality, Health!Cardinality
  <2> QED
    BY <2>1 DEF Health!Shown
<1> QED
  BY ONLY <1>1, <1>2, <1>4, <1>5

(* To whoever scrapes, the counters, the time and the readiness are one    *)
(* sample: the probe implements HealthSample.                              *)
THEOREM HealthRefined == Spec => HealthSampled
<1>1. Init => Health!Init
  BY DEF Init, Health!Init, Gathered, Unread, Metrics
<1>2. ASSUME ProbeInv, [Next]_vars
      PROVE  [Health!Next]_(Health!sampleVars)
  <2> USE <1>2
  <2>1. ASSUME UNCHANGED <<recorded, scrape>>, \A i \in DOMAIN recorded : reason'[recorded[i]] = reason[recorded[i]]
        PROVE  UNCHANGED <<Outcomes, View>>
    BY <2>1 DEF Outcomes, View, Gathered
  <2>2. ASSUME NEW c \in Probes, readiness(c) \/ Cancel(c), ~SetObserved(c)
        PROVE  UNCHANGED <<Outcomes, View>>
    <3>1. UNCHANGED <<recorded, scrape>>
      BY <2>2 DEF readiness, Cancel, TakeSlot, Fetch, Check, Lock, Cancelled, Count, ClearReady, SetReady, Unlock, Release, metrics
    <3>2. \A d \in Probes : pc[d] \in Settled => reason'[d] = reason[d]
      BY <2>2 DEF readiness, Cancel, TakeSlot, Fetch, Check, Lock, Cancelled, Count, ClearReady, SetReady, Unlock, Release,
                  Answer, Settled, ProbeInv, ProbeType
    <3> QED
      BY <2>1, <3>1, <3>2, RecordedCalls
  <2>3. ASSUME NEW c \in Probes, SetObserved(c)
        PROVE  Health!Observe
    <3>1. reason[c] \in Completed
      BY <2>3 DEF ProbeInv, ReasonKnown, SetObserved, Publishing
    <3>2. recorded \in Seq(Probes) /\ recorded' = Append(recorded, c) /\ reason' = reason
      BY <2>3 DEF ProbeInv, ProbeType, SetObserved
    <3>3. Outcomes' = Append(Outcomes, reason[c])
      BY <3>2 DEF Outcomes
    <3>4. View' = View
      BY <2>3 DEF View, Gathered, SetObserved
    <3> QED
      BY <3>1, <3>3, <3>4 DEF Health!Observe, Outcomes, View
  <2>4. ASSUME NEW s \in Scrapes, GatherLock(s)
        PROVE  Health!Begin(s)
    <3>1. Outcomes' = Outcomes
      BY <2>4 DEF GatherLock, Outcomes, metrics
    <3>2. ~Gathered(s)' /\ \A t \in Scrapes \ {s} : Gathered(t)' <=> Gathered(t)
      BY <2>4 DEF GatherLock, Gathered, Unread, Metrics, ProbeInv, ProbeType
    <3>3. \A t \in Scrapes \ {s} : scrape'[t] = scrape[t]
      BY <2>4 DEF GatherLock, ProbeInv, ProbeType
    <3>4. View' = [View EXCEPT ![s] = None]
      BY <3>2, <3>3 DEF View
    <3> QED
      BY <3>1, <3>4 DEF Health!Begin, Outcomes, View
  <2>5. ASSUME NEW s \in Scrapes, GatherRead(s)
        PROVE  Health!Answered(s) \/ UNCHANGED <<Outcomes, View>>
    <3>1. Outcomes' = Outcomes /\ UNCHANGED <<requests, observed, ready, readers>>
      BY <2>5 DEF GatherRead, Outcomes, metrics
    <3>2. \A t \in Scrapes \ {s} : scrape'[t] = scrape[t]
      BY <2>5 DEF GatherRead, ProbeInv, ProbeType
    <3>3. ~Gathered(s) /\ \A t \in Scrapes \ {s} : Gathered(t)' <=> Gathered(t)
      BY <2>5, <3>2 DEF GatherRead, Gathered
    <3>4. CASE ~Gathered(s)'
      <4>1. View' = View
        BY <3>2, <3>3, <3>4 DEF View
      <4> QED
        BY <3>1, <4>1
    <3>5. CASE Gathered(s)'
      <4>1. /\ scrape'[s]["observed"] = observed /\ scrape'[s]["ready"] = ready
            /\ \A r \in Completed : scrape'[s]["requests"][r] = requests[r]
        <5>1. s \in readers' /\ ScrapeCurrent'
          BY <2>5, GatherReadStep DEF GatherRead, ProbeInv
        <5> QED
          BY <3>1, <3>5, <5>1 DEF ScrapeCurrent, Gathered, Metrics
      <4>2. \A c \in Probes : pc[c] \notin {"observed", "clear", "set"}
        BY <2>5 DEF GatherRead, ProbeInv, WriterExact, Publishing
      <4>3. Health!Shown(Outcomes) = [observed |-> scrape'[s]["observed"], ready |-> scrape'[s]["ready"],
                                      counts |-> [r \in Completed |-> scrape'[s]["requests"][r]]]
        BY <4>1, <4>2, MetricsShown
      <4>4. View[s] = None /\ View' = [View EXCEPT ![s] = Health!Shown(Outcomes)]
        BY <3>2, <3>3, <3>5, <4>3 DEF View
      <4> QED
        BY <3>1, <4>4 DEF Health!Answered, Outcomes, View
    <3> QED
      BY <3>4, <3>5
  <2>6. ASSUME NEW s \in Scrapes, GatherUnlock(s)
        PROVE  UNCHANGED <<Outcomes, View>>
    BY <2>1, <2>6 DEF GatherUnlock, metrics
  <2>7. ASSUME UNCHANGED vars
        PROVE  UNCHANGED <<Outcomes, View>>
    <3>1. UNCHANGED <<recorded, scrape, reason>>
      BY <2>7 DEF vars, metrics
    <3> QED
      BY <2>1, <3>1
  <2>8. Health!Next \/ UNCHANGED <<Outcomes, View>>
    <3>1. ASSUME NEW c \in Probes, readiness(c) \/ Cancel(c)
          PROVE  Health!Next \/ UNCHANGED <<Outcomes, View>>
      BY <2>2, <2>3, <3>1 DEF Health!Next
    <3>2. ASSUME NEW s \in Scrapes, Gather(s)
          PROVE  Health!Next \/ UNCHANGED <<Outcomes, View>>
      BY <2>4, <2>5, <2>6, <3>2 DEF Gather, Health!Next
    <3> QED
      BY <2>7, <3>1, <3>2 DEF Next
  <2> QED
    BY <2>8 DEF Health!sampleVars, Outcomes, View
<1> QED
  BY <1>1, <1>2, Invariant, PTL DEF Spec, HealthSampled, Health!Spec

=============================================================================
