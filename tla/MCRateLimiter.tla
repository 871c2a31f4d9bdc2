--------------------------- MODULE MCRateLimiter ---------------------------
(* Small instances of RateLimiter for TLC.                                 *)
EXTENDS RateLimiter

(* In memory; in Redis, full before the time to live is over and not; and  *)
(* values nobody wants, which the configuration accepts.                   *)
MCConfigs ==
    {[shared |-> FALSE, rate |-> 2, burst |-> 2],
     [shared |-> TRUE,  rate |-> 2, burst |-> 2],
     [shared |-> TRUE,  rate |-> 1, burst |-> 2],
     [shared |-> TRUE,  rate |-> -1, burst |-> 1],
     [shared |-> TRUE,  rate |-> 1, burst |-> -1]}
=============================================================================
