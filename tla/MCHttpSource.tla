---------------------------- MODULE MCHttpSource ----------------------------
(* Two consumers and a probe, each with one slot for its kind, against a   *)
(* scrape that never stops: enough for a consumer to be turned away while  *)
(* the probe is not, and for three recordings and a scrape to overlap.     *)
EXTENDS HttpSource

=============================================================================
