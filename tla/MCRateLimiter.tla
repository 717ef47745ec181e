---------------------------- MODULE MCRateLimiter ----------------------------
(* RateLimiter on small instances: one key per endpoint. *)
EXTENDS RateLimiter

MCKeys == {"token", "readyz"}
MCLimit == [token |-> 2, readyz |-> 1]
\* One window shorter and one longer than the sweep interval of three ticks.
MCWindow == [token |-> 4, readyz |-> 2]
=============================================================================
