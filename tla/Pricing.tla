------------------------------ MODULE Pricing -------------------------------
(***************************************************************************)
(* What one model response costs (pricing.py): the price table with the    *)
(* operator's overrides, the longest-prefix lookup, the fail-safe price of *)
(* an unknown model, and the cache tokens of a usage report.  Names are    *)
(* sequences of symbols; money is a natural, a multiplier a number of      *)
(* Units, where Unit is the price of a plain token.                        *)
(***************************************************************************)
EXTENDS Integers, Sequences

CONSTANTS
    DefaultPricing,    \* [name prefix -> [in, out: Nat]]
    Overrides,         \* [name prefix -> [numeric: BOOLEAN, in, out: Int]]
    CacheMultipliers,  \* [name prefix -> [read, write: Nat]]
    Unit               \* the multiplier of a plain token

IsPrefixOf(p, name) == Len(p) <= Len(name) /\ SubSeq(name, 1, Len(p)) = p
Matching(prefixes, name) == {p \in prefixes : IsPrefixOf(p, name)}
Longest(S) == CHOOSE p \in S : \A q \in S : Len(q) <= Len(p)
Greatest(S) == CHOOSE x \in S : \A y \in S : y <= x
Least(a, b) == IF a <= b THEN a ELSE b

\* Malformed and negative overrides are skipped.
UsableOverrides ==
    {k \in DOMAIN Overrides :
        Overrides[k].numeric /\ Overrides[k].in >= 0 /\ Overrides[k].out >= 0}

MergedTable ==
    [k \in DOMAIN DefaultPricing \cup UsableOverrides |->
        IF k \in UsableOverrides
        THEN [in |-> Overrides[k].in, out |-> Overrides[k].out]
        ELSE DefaultPricing[k]]

\* The dearest rates there are; overrides can only raise them.
FallbackPrice ==
    LET rates(f) == {DefaultPricing[k][f] : k \in DOMAIN DefaultPricing}
                        \cup {MergedTable[k][f] : k \in DOMAIN MergedTable}
    IN  [in |-> Greatest(rates("in")), out |-> Greatest(rates("out"))]

Priced(name) == Matching(DOMAIN MergedTable, name) # {}

PriceOf(name) ==
    IF Priced(name) THEN MergedTable[Longest(Matching(DOMAIN MergedTable, name))]
                    ELSE FallbackPrice

MultipliersOf(name) ==
    LET known == Matching(DOMAIN CacheMultipliers, name)
    IN  IF known = {} THEN [read |-> Unit, write |-> Unit]
                      ELSE CacheMultipliers[Longest(known)]

\* The cache tokens are part of in; a malformed report is clamped.
CacheRead(u) == Least(u.read, u.in)
CacheWriteUnclamped(u) == u.write
CacheWrite(u) == Least(u.write, u.in - CacheRead(u))
PlainIn(u) ==
    LET rest == u.in - CacheRead(u) - CacheWrite(u)
    IN  IF rest >= 0 THEN rest ELSE 0

\* CostTracker.add_usage.
Cost(u, name) ==
    LET price == PriceOf(name)
        mult == MultipliersOf(name)
    IN    PlainIn(u) * price.in * Unit
        + CacheRead(u) * price.in * mult.read
        + CacheWrite(u) * price.in * mult.write
        + u.out * price.out * Unit
=============================================================================
