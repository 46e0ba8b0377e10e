--------------------------- MODULE FrequencyPlans ---------------------------
(***************************************************************************)
(* How requests become frequencies: the arithmetic between a request and   *)
(* the command line of a sweep (src/app/main.py, apex_hunter.py,           *)
(* services.py, sdr/hackrf_backend.py, sdr/native/hackrf_iq_sweep.c), and, *)
(* as a state machine, the loop of sdr/soapy_sweep_worker.py that lays     *)
(* overlapping windows over the range of a sweep.  Frequencies are in Hz.  *)
(***************************************************************************)
EXTENDS Integers, Sequences

CONSTANTS
    Starts, Stops,  \* limits of the sweeps
    Rates,          \* sample rates
    BinWidths,
    Unset           \* no number given

ASSUME PlansAssumption ==
    /\ Starts \subseteq Int /\ Stops \subseteq Int
    /\ Rates \subseteq Nat
    /\ BinWidths \subseteq Nat \ {0}
    /\ Unset \notin Int

MHz == 1000000
Lesser(a, b) == IF a <= b THEN a ELSE b
Greater(a, b) == IF a >= b THEN a ELSE b

-----------------------------------------------------------------------------
(* POST /sweeps/plan: the range asked for, cut to the device's             *)

Around(center, span) == [start |-> center - span \div 2, stop |-> center + span \div 2]
Spread(lowest, highest, margin) == [start |-> lowest - margin, stop |-> highest + margin]

Clipped(range, device) ==
    [start |-> Greater(device.freq_min_hz, range.start),
     stop |-> Lesser(device.freq_max_hz, range.stop)]
Accepted(range) == range.start < range.stop

-----------------------------------------------------------------------------
(* ApexHunterService: the sweep recommended for a device and the           *)
(* constraints of a mission, where a value that is not a number has        *)
(* already been replaced by its default                                    *)

BoundedInt(num, min_value, max_value) == Greater(min_value, Lesser(max_value, num))

FreqMin(asked) == BoundedInt(asked.freq_min_hz, MHz, 20000 * MHz)
FreqMax(asked) == BoundedInt(asked.freq_max_hz, FreqMin(asked) + MHz, 20000 * MHz)
StartHz(asked) == BoundedInt(asked.start_freq_hz, FreqMin(asked), FreqMax(asked) - MHz)
StopHz(asked) == BoundedInt(asked.stop_freq_hz, StartHz(asked) + MHz, FreqMax(asked))

DefaultBin(asked) ==
    Greater(10000, Lesser(500000, BoundedInt(asked.max_sample_rate_sps, 200000, 120 * MHz) \div 20))
BinWidthHz(asked) ==
    BoundedInt(IF asked.bin_width_hz = Unset THEN DefaultBin(asked) ELSE asked.bin_width_hz,
               5000, 2 * MHz)

-----------------------------------------------------------------------------
(* hackrf_backend.py: gains in the steps of the chip, and whole MHz        *)

\* round() goes to the even one of two neighbours.
NearestStep(value, step, lo, hi) ==
    LET clamped == Lesser(Greater(value, lo), hi)
        q == clamped \div step
        r == clamped % step
    IN step * (IF 2 * r < step \/ (2 * r = step /\ q % 2 = 0) THEN q ELSE q + 1)

\* What is sent to a HackRF, and by whom: a stream and an IQ sweep are started
\* with rounded gains, a sweep and a live retune carry the numbers of the request.
Rounded == {"start_stream", "start_iq_sweep"}
Unrounded == {"start_sweep", "retune"}

LnaGain(sender, value) == IF sender \in Rounded THEN NearestStep(value, 8, 0, 40) ELSE value
VgaGain(sender, value) == IF sender \in Rounded THEN NearestStep(value, 2, 0, 62) ELSE value

\* Whole MHz, by a division that drops the rest of both limits.
SweepMHz(range) == [lo |-> range.start \div MHz, hi |-> range.stop \div MHz]

-----------------------------------------------------------------------------
(* hackrf_iq_sweep.c: the tuning ranges in MHz, as uint16_t, and the       *)
(* bytes of a block                                                        *)

Uint16(n) == n % 65536
Up(hz) == (hz + 999999) \div MHz

RangeOfLimits(start_hz, stop_hz) == [lo |-> Uint16(start_hz \div MHz), hi |-> Uint16(Up(stop_hz))]

RangeOfFrequency(freq, half) ==
    LET lo == Uint16((IF freq > half THEN freq - half ELSE freq) \div MHz)
        hi == Uint16(Up(freq + half))
    IN [lo |-> lo, hi |-> IF lo >= hi THEN lo + 1 ELSE hi]

BytesPerBlock == 16384
MaxSweepBytes == 16 * 1024 * 1024

\* dwell_bytes is what --dwell-s asks for, 0 without it; its cut at UINT32_MAX
\* is one at MaxSweepBytes in the end.
ChunkBytes(chunk_bytes, dwell_bytes) ==
    (Greater(Lesser(Greater(chunk_bytes, dwell_bytes), MaxSweepBytes), BytesPerBlock)
        \div BytesPerBlock) * BytesPerBlock

-----------------------------------------------------------------------------
(* services.py: the centres of an IQ sweep                                 *)

CentersFromConfig(start_hz, stop_hz, hop_hz) ==
    {f \in start_hz .. stop_hz : (f - start_hz) % hop_hz = 0}

-----------------------------------------------------------------------------
(* soapy_sweep_worker.py: _window_centers                                  *)

VARIABLES
    args,           \* the worker's command line
    cursor,         \* up to here the range is covered
    centers,
    pc              \* "loop", then "done"

planVars == <<args, cursor, centers, pc>>

Half(rate) == ((rate * 9) \div 10) \div 2
half == Half(args.rate)

\* main() refuses an empty range and a bin width of 0.
PlanInit ==
    /\ args \in [start : Starts, stop : Stops, rate : Rates, bin : BinWidths]
    /\ args.start < args.stop
    /\ cursor = args.start /\ centers = <<>> /\ pc = "loop"

CenterAt(at) == Lesser(Greater(at + half, args.start + half), args.stop - half)

\* Error: the windows do not overlap any more, they miss each other.
FromCursor(center) == cursor + 2 * half + 1

NextCursor(center) == center + half

Noted(center) ==
    IF centers = <<>> \/ center # centers[Len(centers)] THEN Append(centers, center) ELSE centers

\* Error: a window that does not move on is no reason to stop.
NeverStuck(next) == FALSE

Stuck(next) == next <= cursor

AddWindow ==
    LET next == NextCursor(CenterAt(cursor)) IN
    /\ pc = "loop" /\ cursor < args.stop
    /\ centers' = Noted(CenterAt(cursor))
    /\ IF Stuck(next) THEN pc' = "done" /\ cursor' = cursor
                      ELSE pc' = "loop" /\ cursor' = next
    /\ UNCHANGED args

Finish ==
    /\ pc = "loop" /\ cursor >= args.stop
    /\ centers' = IF centers = <<>> THEN <<(args.start + args.stop) \div 2>> ELSE centers
    /\ pc' = "done"
    /\ UNCHANGED <<args, cursor>>

PlanNext == AddWindow \/ Finish
PlanSpec == PlanInit /\ [][PlanNext]_planVars
FairPlanSpec == PlanSpec /\ WF_planVars(PlanNext)

\* The limits of the row that main() prints for a window: those of the window
\* inside the range, moved outwards to whole bins, inside the range again.
Row(center) ==
    LET b == args.bin
        low == Greater(args.start, center - half)
        high == Lesser(args.stop, center + half)
    IN [low |-> Greater(args.start, (low \div b) * b),
        high |-> Lesser(args.stop, ((high + b - 1) \div b) * b)]

-----------------------------------------------------------------------------
(* Properties                                                              *)

PlanTypeOK ==
    /\ args \in [start : Int, stop : Int, rate : Nat, bin : Nat \ {0}]
    /\ args.start < args.stop
    /\ cursor \in Int /\ cursor >= args.start
    /\ centers \in Seq(Int)
    /\ pc \in {"loop", "done"}

\* Every frequency of the range is in the row of some window, whatever the
\* limits, the sample rate and the bin width, as long as a window has a width.
RowsCoverRange ==
    pc = "done" /\ half > 0 =>
        \A f \in args.start .. args.stop - 1 :
            \E i \in 1 .. Len(centers) : Row(centers[i]).low <= f /\ f < Row(centers[i]).high

PlanSafe == PlanTypeOK /\ RowsCoverRange

\* The worker gets to its sweep: the loop ends, also for windows of no width.
PlanEnds == <>(pc = "done")
=============================================================================
