-------------------------- MODULE WebSubscriberMC --------------------------
(* WebSubscriber for TLC: two topics, a filter for one and a filter for both. *)
EXTENDS WebSubscriber

CONSTANTS t1, t2

Topics == {t1, t2}
Filters == {{t1}, {t1, t2}}
=============================================================================
