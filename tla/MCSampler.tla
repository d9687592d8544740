----------------------------- MODULE MCSampler -----------------------------
(* Two connections and a log that records one response in three.           *)
EXTENDS Sampler

MCTargets == {[path |-> "/a", query |-> ""], [path |-> "/a", query |-> "q"],
              [path |-> "/health", query |-> ""], [path |-> "/health", query |-> "q"]}
=============================================================================
