----------------------------- MODULE Allocator -----------------------------
(***************************************************************************)
(* Champion and challengers (src/allocator): the score of a strategy from  *)
(* its last closed trades, and the share of the full risk it may take.     *)
(*                                                                         *)
(* A trade is a record of side, entry, stop and exit, with the stop as the *)
(* journal has it in the end.  An average is a sum over a count and is     *)
(* compared by multiplying out.                                            *)
(***************************************************************************)
EXTENDS Integers, Sequences, FiniteSets, StopManager

CONSTANTS
  MinSamples, ScoreWindow,
  ChallengerTolerance, FloorAvg,   \* in units of R / ScaleR
  ScaleR,                          \* a common multiple of the stop distances
  FullWeight, ChallengerWeight, ProbeWeight

ASSUME AllocatorAssumption ==
  /\ MinSamples \in Nat /\ ScoreWindow \in Nat \ {0} /\ ScaleR \in Nat \ {0}
  /\ ChallengerTolerance \in Nat /\ FloorAvg \in Int
  /\ ProbeWeight \in Nat \ {0} /\ ChallengerWeight \in Nat /\ FullWeight \in Nat
  /\ ProbeWeight <= ChallengerWeight /\ ChallengerWeight <= FullWeight

\* ORDER BY closed_at DESC LIMIT window.
Recent(trades) ==
  IF Len(trades) <= ScoreWindow THEN trades
  ELSE SubSeq(trades, Len(trades) - ScoreWindow + 1, Len(trades))

\* Realised R.  A trade whose stop was moved to the entry has none.
Measured(tr) == StopRisk(tr.entry, tr.stop) > 0
RealisedR(tr) ==
  (Ahead(tr.side, tr.entry, tr.exit) * ScaleR) \div StopRisk(tr.entry, tr.stop)

\* _score_rows: all trades are samples, the average is over those with an R.
Score(trades) ==
  LET rows == Recent(trades)
      sum[n \in 0..Len(rows)] ==
        IF n = 0 THEN [r |-> 0, n |-> 0]
        ELSE IF Measured(rows[n]) THEN [r |-> sum[n - 1].r + RealisedR(rows[n]), n |-> sum[n - 1].n + 1]
        ELSE sum[n - 1]
      total == sum[Len(rows)]
  IN [samples |-> Len(rows), sum |-> total.r, of |-> IF total.n = 0 THEN 1 ELSE total.n]

\* a's average is at least b's minus a margin.
AtLeast(a, b, margin) == a.sum * b.of + margin * a.of * b.of >= b.sum * a.of

Eligible(scores) == {s \in DOMAIN scores : scores[s].samples >= MinSamples}

\* max() over the averages; ties go to the first in the list.
Champion(scores) ==
  CHOOSE s \in Eligible(scores) : \A u \in Eligible(scores) : AtLeast(scores[s], scores[u], 0)

\* _allocate_symbol: the weights of the strategies on one symbol.
AllocateSymbol(scores) ==
  LET champion == Champion(scores)
      floored == scores[champion].sum < FloorAvg * scores[champion].of
  IN [s \in DOMAIN scores |->
        CASE s \notin Eligible(scores) -> 0
          [] s \in Eligible(scores) /\ floored -> ProbeWeight
          [] s \in Eligible(scores) /\ ~floored /\ s = champion -> FullWeight
          [] s \in Eligible(scores) /\ ~floored /\ s # champion ->
               IF AtLeast(scores[s], scores[champion], ChallengerTolerance)
               THEN ChallengerWeight ELSE ProbeWeight]

=============================================================================
