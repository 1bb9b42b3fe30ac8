------------------------------ MODULE MCServers ------------------------------
(* Each of the three processes, with one request at a time on each server. *)
EXTENDS ServerLifecycle

=============================================================================
