-------------------------- MODULE MCFrequencyPlans --------------------------
(***************************************************************************)
(* FrequencyPlans for TLC: small numbers for the windows, and the pure     *)
(* arithmetic compared with what it is meant to compute around its edges.  *)
(***************************************************************************)
EXTENDS FrequencyPlans, FiniteSetsExt

MCStarts == {-3, 0, 1, 7}
MCStops == 1 .. 24

Edges == {0, 1, 999999, MHz, MHz + 1, 2 * MHz - 1, 1000 * MHz, 1000200000, 1000 * MHz + 999999}

\* A rounded gain is the multiple of the step nearest to the value.
ASSUME StepsNearest ==
    \A v \in -5 .. 70 :
        LET near == {8 * k : k \in 0 .. 5}
            Away(g) == IF g > v THEN g - v ELSE v - g
        IN \A g \in near : v \in 0 .. 40 => Away(LnaGain("start_stream", v)) <= Away(g)

\* The tuning range of a frequency is the smallest one in MHz that holds its
\* band, and never empty.
ASSUME RangesSmallest ==
    \A freq \in Edges, half_hz \in Edges : freq > half_hz =>
        LET Holding == {k \in 0 .. 2100 : k * MHz >= freq + half_hz}
            r == RangeOfFrequency(freq, half_hz)
        IN r.lo * MHz <= freq - half_hz /\ r.hi = Greater(Min(Holding), r.lo + 1)

\* range(start, stop + 1, hop).
ASSUME CentersOfRange ==
    \A start \in 1 .. 4, stop \in 1 .. 12, hop \in 1 .. 5 :
        CentersFromConfig(start, stop, hop) = {f \in {start + k * hop : k \in 0 .. 12} : f <= stop}
=============================================================================
