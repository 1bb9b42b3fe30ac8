--------------------------- MODULE PublisherReview ---------------------------
(***************************************************************************)
(* A publisher checks the products of a namespace offline, and the         *)
(* controller then composes the very same objects: what the two say of     *)
(* them, and what a reader of the report makes of it.                      *)
(***************************************************************************)
EXTENDS CompositionObservation, ReportReader

(* The products of the cache as documents, each with an identifier of its  *)
(* own.                                                                    *)
Declared(p) == [name |-> p, id |-> p, spec |-> cache[p].spec, ui |-> p = Alphabet[1], fault |-> ""]
Present == SelectSeq(Alphabet, LAMBDA p : cache[p] # None)
Bundle == [i \in DOMAIN Present |-> Declared(Present[i])]

(* In one file, or in a second one that begins with an empty document. *)
Whole == <<[fault |-> "", documents |-> Bundle]>>
Split == <<[fault |-> "", documents |-> <<Bundle[1]>>], [fault |-> "", documents |-> <<None>> \o Tail(Bundle)]>>

(* Selections that something is wrong with: a document, an identity, a     *)
(* file.                                                                   *)
Damaged ==
  {[Split EXCEPT ![1].documents[1].fault = fault] : fault \in Faults}
  \cup {Append(Split, [fault |-> "", documents |-> <<[Bundle[1] EXCEPT !.id = None]>>]),
        Append(Whole, [fault |-> "ReadFailed", documents |-> <<>>]),
        Append(Whole, [fault |-> "", documents |-> <<None, None, None, None>>]),
        Whole \o <<[fault |-> "", documents |-> <<None, None, None, None>>], [fault |-> "", documents |-> <<None>>]>>,
        <<[fault |-> "", documents |-> <<None>>]>>, Split \o Split}

(* A request of the check: with a deadline, and a report too large for one *)
(* of the two versions.                                                    *)
Never == 1000   \* more often than ctx is ever asked
Plainly(selection) == [selection |-> selection, apiOnly |-> FALSE, expires |-> Never, large |-> ""]
Requests ==
  [selection : {Whole, Split}, apiOnly : {FALSE}, expires : {0, 1, 3, 6, 9, Never}, large : {""}]
  \cup [selection : Damaged \cup {Split}, apiOnly : BOOLEAN, expires : {Never}, large : {""}]
  \cup {[Plainly(Whole) EXCEPT !.large = "v1"], [Plainly(Split) EXCEPT !.apiOnly = TRUE, !.large = "v2"]}

Answer(request) ==
  bundleReport(checkSelected(request.selection, request.apiOnly, request.expires, request.large = "v1"), request.large = "v2")

(* The reader accepts the report, and if it is complete the deadline left  *)
(* nothing out.                                                            *)
Sound(request, report) ==
  /\ validateReport(report)
  /\ report.complete => request.expires = Never \/ report = Answer([request EXCEPT !.expires = Never])

Unmoving == \A p \in Products : Cardinality(world.held[p]) = 1
FirstTarget == target = Head(SelectSeq(Alphabet, LAMBDA p : InputsOf(cache, p) # <<>>))

(* path leads through the graph of the bundle, back to its start for a     *)
(* cycle, to the greatest depth otherwise.                                 *)
Witnesses(path, cycle) ==
  LET at(step) == Bundle[step.at.document]
      leadsTo(step) == at(step).spec.inputs[step.input].ref
  IN  /\ \A j \in 1 .. Len(path) - 1 : leadsTo(path[j]) = at(path[j + 1]).name
      /\ IF cycle THEN leadsTo(path[Len(path)]) = at(path[1]).name ELSE Len(path) = MaxDepth

(* What a report and the controller's reason say of the same objects. *)
Agrees(report, reason) ==
  /\ report.valid => reason \notin {"CrossNamespaceDependencyDenied", "DependencyCycle", "OutputNotFound", "ContractIncompatible"}
  /\ report.complete => reason # "DependencyNotFound" /\ (reason = compositionLimit => ~LineageFits(cache, target))
  /\ \A i \in DOMAIN report.diagnostics :
       report.diagnostics[i].code \in {"CompositionCycle", "CompositionLimit"} /\ report.diagnostics[i].witness # <<>> =>
         Witnesses(report.diagnostics[i].witness, report.diagnostics[i].code = "CompositionCycle")

-----------------------------------------------------------------------------
(* A bundle that passes the offline check gives the controller no          *)
(* structural reason to refuse any of its products; where the only         *)
(* findings are producers that are not in the bundle, the controller at    *)
(* most misses one.  Conversely the cycle or the depth the check reports   *)
(* is there, and its witness is a path of the graph, closed for a cycle.   *)
ReviewAgrees ==
  pc = "done" /\ Unmoving /\ ~observation.err =>
    Agrees(Answer(Plainly(Whole)), product.status.composition.reason)

(* Every report the check can end with, wherever the deadline strikes,     *)
(* whatever is wrong with the selection and however much is shown of it,   *)
(* is one the independent reader accepts, and it never calls complete what *)
(* the deadline cut short.                                                 *)
ReportAccepted ==
  pc = "composition" /\ FirstTarget =>
    \A request \in Requests : Sound(request, Answer(request))

=============================================================================
