-------------------------------- MODULE MCHost --------------------------------
(***************************************************************************)
(* Host for TLC.                                                           *)
(***************************************************************************)
EXTENDS Host

MCPids == 1 .. 2

\* Two pids are too few for a managed daemon, a program that has its pid and a triage:
\* while somebody is about the checkout there is no unit, and the user starts daemons only.
\* This prunes steps of the user and of triages, to which no fairness is given.
AtCheckout ==
    lockFile # None \/ \E p \in alive : st[p] = "triage" \/ at[p] # "out"

CheckoutAlone == AtCheckout' => ~unit' /\ cmd'.op = "start"

=============================================================================
