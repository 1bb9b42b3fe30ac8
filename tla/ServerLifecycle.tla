-------------------------- MODULE ServerLifecycle --------------------------
(***************************************************************************)
(* How the project's own HTTP processes end: httpserver.Run, which serves  *)
(* the demo product and the portable hosts; the contract probe's run; and  *)
(* serve of the source connector, which has two listeners.  A signal, the  *)
(* failure of a listener, requests that take their time and the deadline   *)
(* of the shutdown come in any order.                                      *)
(***************************************************************************)
EXTENDS Naturals, Sequences, FiniteSets

CONSTANT Hosts   \* the processes to look at, out of "run", "probe", "source"

ASSUME HostsAssumption == Hosts \subseteq {"run", "probe", "source"}

Servers(h) == IF h = "source" THEN <<"api", "admin">> ELSE <<"api">>

VARIABLES
  host,      \* which of the processes this is
  ctx,       \* the signal has come
  serving,   \* of each server: "starting", "serving" or "ended"
  results,   \* the channel the serving goroutines send to
  received,  \* a result was taken from it
  pc,        \* "select", "shutdown", "drain", "close", "collect", "returned"
  todo,      \* servers still to be shut down, in order
  closing,   \* servers whose Shutdown was called
  deadline,  \* of the shutdown: "unset", "set" or "passed"
  active,    \* servers with a request in progress
  errors,    \* what the function returns joins these; none is nil
  failed,    \* history: servers that ended for another reason than Shutdown
  dropped    \* history: servers whose requests Close cut off

vars == <<host, ctx, serving, results, received, pc, todo, closing, deadline, active, errors, failed, dropped>>

Init ==
  /\ host \in Hosts /\ ctx = FALSE
  /\ serving = [s \in {Servers(host)[i] : i \in DOMAIN Servers(host)} |-> "starting"]
  /\ results = <<>> /\ received = FALSE
  /\ pc = "select" /\ todo = Servers(host) /\ closing = {} /\ deadline = "unset"
  /\ active = {} /\ errors = {} /\ failed = {} /\ dropped = {}

Running == pc # "returned"

-----------------------------------------------------------------------------
(* net/http and the world.                                                 *)

Ends(s, reason) ==
  /\ serving' = [serving EXCEPT ![s] = "ended"] /\ results' = Append(results, reason)
  /\ failed' = IF reason = "failed" THEN failed \cup {s} ELSE failed
  /\ UNCHANGED <<host, ctx, received, pc, todo, closing, deadline, active, errors, dropped>>

(* Serving begins, late perhaps: listening and loading certificates take   *)
(* time, and fail.                                                         *)
Starts(s) ==
  /\ Running /\ serving[s] = "starting" /\ s \notin closing
  /\ serving' = [serving EXCEPT ![s] = "serving"]
  /\ UNCHANGED <<host, ctx, results, received, pc, todo, closing, deadline, active, errors, failed, dropped>>

ServeFails(s) ==
  /\ Running /\ serving[s] # "ended" /\ (serving[s] = "serving" => s \notin closing)
  /\ Ends(s, "failed")

ServeClosed(s) == Running /\ serving[s] # "ended" /\ s \in closing /\ Ends(s, "closed")

RequestArrives(s) ==
  /\ Running /\ serving[s] = "serving" /\ s \notin closing \cup active
  /\ active' = active \cup {s}
  /\ UNCHANGED <<host, ctx, serving, results, received, pc, todo, closing, deadline, errors, failed, dropped>>

RequestEnds(s) ==
  /\ Running /\ s \in active /\ active' = active \ {s}
  /\ UNCHANGED <<host, ctx, serving, results, received, pc, todo, closing, deadline, errors, failed, dropped>>

Signal ==
  /\ Running /\ ~ctx /\ ctx' = TRUE
  /\ UNCHANGED <<host, serving, results, received, pc, todo, closing, deadline, active, errors, failed, dropped>>

DeadlinePasses ==
  /\ Running /\ deadline = "set" /\ deadline' = "passed"
  /\ UNCHANGED <<host, ctx, serving, results, received, pc, todo, closing, active, errors, failed, dropped>>

-----------------------------------------------------------------------------
(* The process.                                                            *)

(* A result of a server: closing it on purpose is no error. *)
Error(reason) == IF reason = "closed" THEN {} ELSE {reason}

(* The signal and a result may both be there: select takes either.  The    *)
(* contract probe returns at once with a result.                           *)
Select ==
  /\ pc = "select"
  /\ \/ /\ ctx /\ pc' = "shutdown" /\ deadline' = "set"
        /\ UNCHANGED <<results, received, errors>>
     \/ /\ results # <<>>
        /\ results' = Tail(results) /\ received' = TRUE /\ errors' = Error(Head(results))
        /\ IF host = "probe" THEN pc' = "returned" /\ UNCHANGED deadline
           ELSE pc' = "shutdown" /\ deadline' = "set"
  /\ UNCHANGED <<host, ctx, serving, todo, closing, active, failed, dropped>>

Shutdown ==
  /\ pc = "shutdown" /\ pc' = "drain" /\ closing' = closing \cup {Head(todo)}
  /\ UNCHANGED <<host, ctx, serving, results, received, todo, deadline, active, errors, failed, dropped>>

(* Mutant: Shutdown is given a context that does not end. *)
Drain_Patient ==
  /\ pc = "drain" /\ Head(todo) \notin active
  /\ todo' = Tail(todo) /\ pc' = IF Tail(todo) = <<>> THEN "close" ELSE "shutdown"
  /\ UNCHANGED <<host, ctx, serving, results, received, closing, deadline, active, errors, failed, dropped>>

(* Shutdown waits for the requests in progress, at most until the deadline. *)
Drain ==
  /\ pc = "drain"
  /\ \/ Head(todo) \notin active /\ UNCHANGED errors
     \/ Head(todo) \in active /\ deadline = "passed" /\ errors' = errors \cup {"deadline"}
  /\ todo' = Tail(todo) /\ pc' = IF Tail(todo) = <<>> THEN "close" ELSE "shutdown"
  /\ UNCHANGED <<host, ctx, serving, results, received, closing, deadline, active, failed, dropped>>

(* Mutant: nobody asks how serving ended after the signal. *)
Close_Returns ==
  /\ pc = "close" /\ pc' = "returned"
  /\ dropped' = active /\ active' = {}
  /\ UNCHANGED <<host, ctx, serving, results, received, todo, closing, deadline, errors, failed>>

(* What is left of the connections is closed.  Run then wants the result   *)
(* of serving if it has none yet; the others return.                       *)
Close ==
  /\ pc = "close" /\ pc' = IF host = "run" /\ ~received THEN "collect" ELSE "returned"
  /\ dropped' = active /\ active' = {}
  /\ UNCHANGED <<host, ctx, serving, results, received, todo, closing, deadline, errors, failed>>

(* Serving may not have returned by the deadline. *)
Collect ==
  /\ pc = "collect" /\ pc' = "returned"
  /\ \/ results # <<>> /\ results' = Tail(results) /\ received' = TRUE /\ errors' = errors \cup Error(Head(results))
     \/ deadline = "passed" /\ errors' = errors \cup {"deadline"} /\ UNCHANGED <<results, received>>
  /\ UNCHANGED <<host, ctx, serving, todo, closing, deadline, active, failed, dropped>>

Process == Select \/ Shutdown \/ Drain \/ Close \/ Collect

Next ==
  \/ Process \/ Signal \/ DeadlinePasses
  \/ \E s \in DOMAIN serving :
       Starts(s) \/ ServeFails(s) \/ ServeClosed(s) \/ RequestArrives(s) \/ RequestEnds(s)

(* The goroutine runs and time passes; nothing is assumed of requests, nor *)
(* of a server that is slow to start.                                      *)
Spec == Init /\ [][Next]_vars /\ WF_vars(Process) /\ WF_vars(DeadlinePasses)

-----------------------------------------------------------------------------
(* The exit is honest: nil means that no response was cut off and, of Run, *)
(* that serving did not fail, even if the signal came first; without a     *)
(* signal there was a failure and it is returned; and no server that can   *)
(* still accept is left behind.                                            *)
CleanStop ==
  pc = "returned" =>
    /\ errors = {} => dropped = {} /\ active = {} /\ (host = "run" => failed = {})
    /\ ~ctx => "failed" \in errors
    /\ \A s \in DOMAIN serving : serving[s] = "serving" => s \in closing

(* Once the signal has come or a listener has failed the process ends,     *)
(* with requests that never finish or a server that never starts.          *)
Stops == (ctx \/ failed # {}) ~> (pc = "returned")

=============================================================================
