------------------------------ MODULE Windows ------------------------------
(***************************************************************************)
(* The time analysis of the diagnostic report (internal/diagnose/          *)
(* diagnose.go): the timeline of five buckets, bursts, the pattern of      *)
(* connections and the peak of TCP operations.  They read an event's       *)
(* timestamp as nanoseconds of the wall clock, which is what start and     *)
(* end are.                                                                *)
(*                                                                         *)
(* Times are in the code's nanoseconds, of which a second has Second here  *)
(* (10^9 in the code), so integer divisions truncate as they do there.     *)
(* Rates are left as counts per window.                                    *)
(***************************************************************************)
EXTENDS Statistics

CONSTANTS
  Second,    \* nanoseconds in a second
  BurstMin   \* events without which bursts are not looked for (10)

ASSUME WindowsAssumption ==
  /\ Second \in Nat /\ Second >= 10
  /\ BurstMin \in Nat

(* Mutant of Within: a window includes its start. *)
WithinOrAt(evs, from, length) ==
  Count(evs, LAMBDA e : from <= e.timestamp /\ e.timestamp <= from + length)
(* The events strictly inside a window (After and Before). *)
Within(evs, from, length) ==
  Count(evs, LAMBDA e : from < e.timestamp /\ e.timestamp < from + length)

Buckets == 0 .. 4

(* Mutant of Bucket: without the clamp at the end. *)
BucketUnclamped(elapsed, width) == Max({elapsed \div width, 0})
(* The bucket of an event that long after the start.  Go truncates and TLA+  *)
(* rounds down, which differs for negative times, all put into bucket 0.     *)
Bucket(elapsed, width) == Max({Min({elapsed \div width, 4}), 0})

analyzeTimeline(evs, start, duration) ==
  [b \in Buckets |-> Count(evs, LAMBDA e : Bucket(e.timestamp - start, duration \div 5) = b)]

(* A rate per second of more than twice the average. *)
IsBurst(count, all, duration) == count * duration > 2 * all * Second

(* The seconds that are bursts. *)
detectBursts(evs, start, duration) ==
  LET windows == 0 .. duration \div Second - 1
  IN IF Number(evs) < BurstMin \/ Cardinality(windows) < 2 THEN {}
     ELSE {i \in windows :
             IsBurst(Within(evs, start + i * Second, Second), Number(evs), duration)}

(* Mutant of Pattern: the difference the wrong way round. *)
PatternSwapped(m, s, q) ==
  LET variance == s * s - m * q
  IN IF 2 * variance > s * m THEN "bursty"
     ELSE IF 10 * variance < s * m THEN "steady" ELSE "sporadic"
(* Variance against mean: m windows with sum s and sum of squares q. *)
Pattern(m, s, q) ==
  LET variance == m * q - s * s  \* times m * m; the mean is s / m
  IN IF 2 * variance > s * m THEN "bursty"
     ELSE IF 10 * variance < s * m THEN "steady" ELSE "sporadic"

(* Windows of a tenth of the duration, at least 100 ms, up to the end. *)
analyzeConnectionPattern(evs, start, duration) ==
  LET window == Max({duration \div 10, Second \div 10})
      indexes == {i \in 0 .. duration : i * window < duration}
      counts == [i \in indexes |-> Within(evs, start + i * window, window)]
  IN [pattern |-> Pattern(Cardinality(indexes), SumFunction(counts),
                          SumFunction([i \in indexes |-> counts[i] * counts[i]])),
      window |-> window, peak |-> Max(Range(counts)),
      uniqueTargets |-> Cardinality({e.target : e \in Range(evs)} \ {"", "?", "unknown", "file"})]

(* Mutant of analyzeIOPattern: one window too few. *)
analyzeIOPatternShort(tcp, start, duration) ==
  LET windows == 0 .. Max({duration \div Second - 1, 1}) - 1
  IN [ratio |-> <<1, 1>>,
      peak |-> Max({Within(tcp, start + i * Second, Second) : i \in windows})]
(* Windows of a second, without the last part of one; no receive, no ratio. *)
analyzeIOPattern(tcp, start, duration) ==
  LET sent == Number(filterEvents(tcp, "TCP_SEND"))
      received == Number(filterEvents(tcp, "TCP_RECV"))
      windows == 0 .. Max({duration \div Second, 1}) - 1
  IN [ratio |-> IF received = 0 THEN <<1, 1>> ELSE <<sent, received>>,
      peak |-> Max({Within(tcp, start + i * Second, Second) : i \in windows})]
=============================================================================
