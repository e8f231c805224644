--------------------------- MODULE MCDailyBudget ----------------------------
(* Instances of DailyBudget for TLC. *)
EXTENDS DailyBudget, TLC

CONSTANTS t1, t2, s1

OneTask == {t1}
TwoTasks == {t1, t2}
OneSession == {s1}
NoSession == {}

\* One known model, one id that matches no prefix, and a usable, a negative and
\* a malformed override.
KnownModel == <<"k", "n">>
TypoModel == <<"t">>
KnownModels == {KnownModel, TypoModel}
PriceTable == (<<"k">> :> [in |-> 1, out |-> 1]) @@ (<<"z">> :> [in |-> 1, out |-> 0])
OperatorPricing ==
    (<<"k", "n">> :> [numeric |-> TRUE, in |-> 1, out |-> 0])
    @@ (<<"k">> :> [numeric |-> TRUE, in |-> -1, out |-> 0])
    @@ (<<"t">> :> [numeric |-> FALSE, in |-> 0, out |-> 0])
CacheTable == (<<"k">> :> [read |-> 1, write |-> 3])

\* A plain report and one with more cache tokens than input tokens.
Reports == {[in |-> 1, out |-> 0, read |-> 0, write |-> 0],
            [in |-> 1, out |-> 0, read |-> 2, write |-> 1]}

Everything == {"chat", "midnight", "crash", "dberror"}
=============================================================================
