---------------------------- MODULE HealthSample ----------------------------
(***************************************************************************)
(* What HttpSource and ContractProbe promise to whoever scrapes them: that *)
(* observations happen one after the other, each at one moment, and that a *)
(* scrape shows one of those moments, the one at which it is answered.     *)
(***************************************************************************)
EXTENDS Naturals, Sequences, FiniteSets

CONSTANTS
  Scrapes,
  Outcomes,   \* of an observation
  Good,       \* the one that means ready
  Counted,    \* the outcomes a scrape counts
  None

VARIABLES
  outcomes,   \* of the observations so far
  view        \* what each scrape was answered; None while it runs

sampleVars == <<outcomes, view>>

Shown(seq) ==
  [observed |-> Len(seq), ready |-> IF seq # <<>> /\ seq[Len(seq)] = Good THEN 1 ELSE 0,
   counts |-> [o \in Counted |-> Cardinality({i \in DOMAIN seq : seq[i] = o})]]

Observe == \E o \in Outcomes : outcomes' = Append(outcomes, o) /\ UNCHANGED view

Begin(s) == view' = [view EXCEPT ![s] = None] /\ UNCHANGED outcomes

Answered(s) == view[s] = None /\ view' = [view EXCEPT ![s] = Shown(outcomes)] /\ UNCHANGED outcomes

Init == outcomes = <<>> /\ view = [s \in Scrapes |-> None]

Next == Observe \/ \E s \in Scrapes : Begin(s) \/ Answered(s)

Spec == Init /\ [][Next]_sampleVars

=============================================================================
