----------------------------- MODULE MCPayment -----------------------------
(* Small instances of Payment.  The identifiers are interchangeable; symmetry *)
(* is for the runs that check safety only.                                    *)
EXTENDS Payment, TLC

Symmetry ==
    Permutations(Orders) \cup Permutations(ExternalRefunds) \cup Permutations(Credits)

\* The events that some action or property reads: those of the API, against
\* their replay, and those of money that came or went.
ReadAgain ==
    {<<e.source, e.fact>> :
        e \in {d \in event : d.source = "api" \/ d.fact.type \in {"paid", "refunded"}}}

\* States that differ in other events, or in the status an event was left with,
\* have the same behaviours: the runs that check safety take them for one.
View ==
    <<walletVars, payment, operation, call, dispute, ReadAgain, observed,
      providerVars>>
=============================================================================
