-------------------------------- MODULE Fees --------------------------------
(***************************************************************************)
(* The fees of tx-pipeline/pipeline.ts: what estimateFee promises, what    *)
(* prepare makes of the fee, and the base fees of the automatic bumps of   *)
(* submit. Fees are stroops, of type bigint; a multiplier is given in      *)
(* hundred thousandths, and rounded to ten thousandths. Which answers lead *)
(* to a bump is TxPipeline's matter.                                       *)
(***************************************************************************)
EXTENDS Integers, Sequences

CONSTANTS Fee,       \* bound: the fees the node and the application name
          Multiplier, \* bound: the multipliers
          MaxBumps   \* maxFeeBump

ASSUME FeesAssumption == Fee \subseteq Nat /\ Multiplier \subseteq Nat /\ MaxBumps \in Nat

VARIABLES
  txFee,      \* the fee of the transaction that is estimated, prepared and sent
  resourceFee, \* minResourceFee of its simulation
  padding,    \* resourceFeeMultiplier, of the estimate and of prepare
  tolerance,  \* toleranceMultiplier
  multiplier, \* feeBumpMultiplier
  baseFee,    \* previousBaseFee
  rungs       \* history: the base fees of the bumps

feeVars == <<txFee, resourceFee, padding, tolerance, multiplier, baseFee, rungs>>

One == 100000

\* Math.round(multiplier * 10000)
Bps(m) == (m + 5) \div 10

\* A fee times a multiplier, rounded up.
Times(fee, m) == (fee * Bps(m) + 9999) \div 10000

padResourceFee == Times(resourceFee, padding)

\* An inclusion fee of nothing is read as BASE_FEE.
BASE_FEE == 100

MinInclusionFee == IF txFee = 0 THEN BASE_FEE ELSE txFee

\* estimateFee: an inclusion fee, and the total with the resource fee.
InclusionFee == [min         |-> Times(MinInclusionFee, tolerance),
                 recommended |-> Times(MinInclusionFee * 2, tolerance),
                 max         |-> Times(MinInclusionFee * 10, tolerance)]

TotalFee == [range \in {"min", "recommended", "max"} |-> padResourceFee + InclusionFee[range]]

\* prepare: the resource fee is padded and added to the fee.
PreparedFee == txFee + padResourceFee

-----------------------------------------------------------------------------
FeesTypeOK ==
  /\ txFee \in Nat /\ resourceFee \in Nat /\ padding \in Nat /\ tolerance \in Nat /\ multiplier \in Nat
  /\ baseFee \in Nat /\ rungs \in Seq(Nat) /\ Len(rungs) <= MaxBumps

\* submit refuses a multiplier that raises nothing, before it is rounded.
Raising == {m \in Multiplier : m > One}

FeesInit ==
  /\ txFee \in Fee /\ resourceFee \in Fee /\ padding \in Multiplier /\ tolerance \in Multiplier
  /\ multiplier \in Raising
  /\ baseFee \in Fee \cup {txFee} /\ rungs = <<>>

Greatest(S) == CHOOSE f \in S : \A g \in S : g <= f

\* A bump, with the fee the node reports by now.
Bump(p90) ==
  /\ Len(rungs) < MaxBumps
  /\ baseFee' = Times(Greatest({baseFee, txFee, p90}), multiplier)
  /\ rungs' = Append(rungs, baseFee')
  /\ UNCHANGED <<txFee, resourceFee, padding, tolerance, multiplier>>

FeesNext == \E p90 \in Fee : Bump(p90)

FeesSpec == FeesInit /\ [][FeesNext]_feeVars

-----------------------------------------------------------------------------
\* Each bump offers more than the transaction and than every bump before it, whatever
\* the node reports, if the multiplier is still more than one when it has been rounded;
\* otherwise it offers no less.
LadderClimbs ==
  \A j \in DOMAIN rungs :
    /\ txFee <= rungs[j] /\ (Bps(multiplier) > 10000 /\ txFee > 0 => txFee < rungs[j])
    /\ \A i \in 1 .. j - 1 :
         rungs[i] <= rungs[j] /\ (Bps(multiplier) > 10000 /\ txFee > 0 => rungs[i] < rungs[j])

\* The ranges of an estimate are in order, and unless the application asks for less than
\* it would pay, the least covers the fee of the transaction that is prepared.
EstimateCovers ==
  /\ TotalFee["min"] <= TotalFee["recommended"] /\ TotalFee["recommended"] <= TotalFee["max"]
  /\ padding >= One => padResourceFee >= resourceFee
  /\ tolerance >= One => PreparedFee <= TotalFee["min"]

FeesAreEnough == LadderClimbs /\ EstimateCovers

=============================================================================
