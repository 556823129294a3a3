------------------------------ MODULE MCBilling -----------------------------
(***************************************************************************)
(* Small instances of Billing: events drawn from a catalog of those that   *)
(* come early and late in the life of a subscription.                      *)
(***************************************************************************)
EXTENDS Billing

Says(kind, provider, time, period, cancel) ==
    [kind |-> kind, provider |-> provider, time |-> time, period |-> period,
     cancel |-> cancel]

Lifecycle ==
    {Says("checkout", "none", 2, 0, FALSE),
     Says("updated", "active", 1, 5, TRUE),
     Says("updated", "past_due", 2, 0, FALSE),
     Says("deleted", "none", 2, 0, FALSE),
     Says("paid", "none", 3, 6, FALSE),
     Says("payment_failed", "none", 1, 0, FALSE),
     Says("payment_failed", "none", 3, 0, FALSE)}

\* Every kind.
EveryKind ==
    {Says("checkout", "none", 2, 0, FALSE),
     Says("updated", "paused", 1, 5, TRUE),
     Says("updated", "past_due", 2, 0, FALSE),
     Says("updated", "unknown", 2, 0, FALSE),
     Says("deleted", "none", 3, 0, FALSE),
     Says("paid", "none", 3, 6, FALSE),
     Says("payment_failed", "none", 3, 0, FALSE),
     Says("refund", "none", 1, 0, FALSE),
     Says("unrecognized", "none", 1, 0, FALSE),
     Says("unresolvable", "none", 1, 0, FALSE)}
=============================================================================
