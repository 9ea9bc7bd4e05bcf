---------------------------- MODULE MCIngestPipeline ----------------------------
(* Three readings of one device; m1 and m2 share their timestamp. *)
EXTENDS IngestPipeline, TLC

CONSTANTS m1, m2, m3, k1, k2, temp

MCKeyOf == m1 :> k1 @@ m2 :> k1 @@ m3 :> k2
MCMetricsOf == [m \in {m1, m2, m3} |-> {temp}]
=================================================================================
