----------------------------- MODULE LatentStream ---------------------------
(***************************************************************************)
(* LatentStreamReceiver of latentmesh-stream: the admission gate, then the *)
(* SequenceTracker, then the AuthorityEscalator, for frames that a peer    *)
(* may number and fill in as it likes.  Confidences and thresholds are in  *)
(* hundredths; the moving average is rounded down where the code rounds an *)
(* f32.  Risks are in fortieths, which is exact for the weights used.      *)
(***************************************************************************)
EXTENDS Integers

CONSTANTS
    MaxSequence,    \* u64::MAX
    ModelEdges,     \* (sender_model, receiver_space) pairs
    CeilingOf,      \* Policy.authority_ceiling_by_edge, a function on verified edges
    Transforms,     \* transform hashes peers use
    KnownTransforms,\* Policy.known_transforms
    RiskThreshold,  \* Policy.risk_threshold, in fortieths
    Confidences,    \* confidences peers declare, in hundredths
    Depths,         \* numbers of provenance parents peers declare
    Alpha,          \* EscalationConfig.ema_alpha, in hundredths
    ThresholdOf,    \* the three EMA thresholds, a function on 1 .. 3
    MinFrames       \* EscalationConfig.min_frames_per_rung

\* Authority, by rank: ObserveOnly, ContextInject, LatentPrefix, ActionInfluencing.
Authorities == 0 .. 3
ObserveOnly == 0

ASSUME StreamAssumption ==
    /\ MaxSequence \in Nat \ {0}
    /\ \A edge \in DOMAIN CeilingOf : edge \in ModelEdges /\ CeilingOf[edge] \in Authorities
    /\ KnownTransforms \subseteq Transforms
    /\ RiskThreshold \in Nat
    /\ Confidences \subseteq 0 .. 100
    /\ Depths \subseteq Nat
    /\ Alpha \in 1 .. 100
    /\ ThresholdOf \in [1 .. 3 -> 0 .. 100]
    /\ MinFrames \in Nat \ {0}

VARIABLES
    nextExpected,   \* SequenceTracker.next_expected: {} or {n}
    level,          \* AuthorityEscalator.current
    ema,            \* AuthorityEscalator.ema
    framesAtRung,   \* AuthorityEscalator.frames_at_rung
    seenAny,        \* AuthorityEscalator.seen_any
    effective,      \* effective authority of the last frame, {} before the first
    baseline,       \* sequence number of the first frame ingested
    ingested,       \* frames ingested
    missing,        \* sequence numbers reported missing
    unbroken        \* frames ingested since the last gap

escalator  == <<level, ema, framesAtRung, seenAny>>
ghosts     == <<baseline, ingested, missing, unbroken>>
streamVars == <<nextExpected, escalator, effective, ghosts>>

Sequences == 0 .. MaxSequence

Frames == [sequence : Sequences, edge : ModelEdges, transform : Transforms, bound : BOOLEAN,
           authority : Authorities, confidence : Confidences, depth : Depths]

SmallerOf(a, b) == IF a <= b THEN a ELSE b
Clamped(n, top) == IF n < 0 THEN 0 ELSE SmallerOf(n, top)

-----------------------------------------------------------------------------
(* Gate::admit() *)

AuthorityWeight == [authority \in Authorities |->
    CASE authority = 0 -> 2 [] authority = 1 -> 8 [] authority = 2 -> 18 [] OTHER -> 30]

\* estimate_risk()
Risk(f) ==
    Clamped(AuthorityWeight[f.authority] + ((100 - f.confidence) * 20) \div 100
                - SmallerOf(5 * f.depth, 8), 40)

\* An edge without a verdict is capped at ObserveOnly.
Ceiling(edge) == IF edge \in DOMAIN CeilingOf THEN CeilingOf[edge] ELSE ObserveOnly

Admitted(f) ==
    /\ f.transform \in KnownTransforms
    /\ f.authority <= Ceiling(f.edge)
    /\ f.bound
    /\ Risk(f) < RiskThreshold

-----------------------------------------------------------------------------
(* SequenceTracker::observe() *)

Baseline(f) == nextExpected = {} /\ f.sequence # MaxSequence

Forward(f) ==
    /\ f.sequence # MaxSequence
    /\ \E expected \in nextExpected : f.sequence >= expected

\* The tracker takes the frame; duplicates, regressions and the number without
\* a successor are refused.
Trackable(f) == Baseline(f) \/ Forward(f)

\* Mutant: the distance to the last frame, which is part of it.
SkippedInclusive(f) == IF nextExpected = {} THEN 0
                       ELSE f.sequence + 1 - (CHOOSE expected \in nextExpected : TRUE)

\* How many sequence numbers the frame skips.
Skipped(f) == IF nextExpected = {} THEN 0
              ELSE f.sequence - (CHOOSE expected \in nextExpected : TRUE)

Gap(f) == Skipped(f) # 0

-----------------------------------------------------------------------------
(* AuthorityEscalator *)

Threshold(authority) == IF authority = ObserveOnly THEN 0 ELSE ThresholdOf[authority]

\* Mutant: a gap leaves the evidence alone.
KeptAfter(f) == seenAny

\* What the escalator still knows when it sees the frame: reset() after a gap.
EvidenceKept(f) == seenAny /\ ~Gap(f)

Average(f) == IF EvidenceKept(f)
              THEN (Alpha * f.confidence + (100 - Alpha) * ema) \div 100
              ELSE f.confidence

RungBefore(f)   == IF EvidenceKept(f) THEN level ELSE ObserveOnly
FramesBefore(f) == IF EvidenceKept(f) THEN framesAtRung ELSE 0

\* Drop rungs until the average supports the rung.
Supported(f) ==
    CHOOSE rung \in 0 .. RungBefore(f) :
        /\ Average(f) >= Threshold(rung)
        /\ \A higher \in rung + 1 .. RungBefore(f) : Average(f) < Threshold(higher)

FramesAt(f) == IF Supported(f) = RungBefore(f) THEN FramesBefore(f) + 1 ELSE 0

\* Escalate at most one rung, and only after MinFrames frames at this one.
Climbs(f) ==
    /\ FramesAt(f) >= MinFrames
    /\ Supported(f) < 3
    /\ Average(f) >= Threshold(Supported(f) + 1)

Rung(f) == IF Climbs(f) THEN Supported(f) + 1 ELSE Supported(f)

-----------------------------------------------------------------------------
\* ingest() of a frame that passes all three.
Ingest(f) ==
    /\ Admitted(f)
    /\ Trackable(f)
    /\ nextExpected' = {f.sequence + 1}
    /\ level' = Rung(f)
    /\ ema' = Average(f)
    /\ framesAtRung' = SmallerOf(IF Climbs(f) THEN 0 ELSE FramesAt(f), MinFrames)
    /\ seenAny' = TRUE
    /\ effective' = {SmallerOf(Rung(f), f.authority)}
    /\ baseline' = IF ingested = 0 THEN f.sequence ELSE baseline
    /\ ingested' = ingested + 1
    /\ missing' = missing + Skipped(f)
    /\ unbroken' = IF Gap(f) THEN 1 ELSE unbroken + 1

\* The gate or the tracker refuses: no stream state advances.
Refuse(f) ==
    /\ ~Admitted(f) \/ ~Trackable(f)
    /\ UNCHANGED streamVars

StreamInit ==
    /\ nextExpected = {}
    /\ level = ObserveOnly
    /\ ema = 0
    /\ framesAtRung = 0
    /\ seenAny = FALSE
    /\ effective = {}
    /\ baseline = 0
    /\ ingested = 0
    /\ missing = 0
    /\ unbroken = 0

StreamNext == \E f \in Frames : Ingest(f) \/ Refuse(f)

StreamSpec == StreamInit /\ [][StreamNext]_streamVars

-----------------------------------------------------------------------------
\* Type correctness.  framesAtRung is only compared with MinFrames and is kept
\* up to there.
StreamTypeOK ==
    /\ \A expected \in nextExpected : expected \in 1 .. MaxSequence
    /\ level \in Authorities
    /\ ema \in 0 .. 100
    /\ framesAtRung \in 0 .. MinFrames
    /\ seenAny \in BOOLEAN
    /\ effective \subseteq Authorities
    /\ ingested \in 0 .. MaxSequence
    /\ unbroken \in 0 .. ingested

\* ADR-015: the frames ingested and the numbers reported missing add up to all
\* the sequence numbers from the first frame up to the one expected next.
NothingUnaccounted ==
    \A expected \in nextExpected : ingested + missing = expected - baseline

\* ADR-015: authority rests on the evidence since the last gap.  Each rung
\* stands for MinFrames frames in a row without a gap, so no burst of confident
\* frames and no stale evidence buys a rung.
RungsAreEarned == level * MinFrames <= unbroken

\* escalation.rs:14: authority falls back when confidence drops, at once and
\* through as many rungs as the average demands.
ConfidenceSupportsRung == seenAny => ema >= Threshold(level)

\* A rung that is held was earned and is supported, after every frame.
RungsStand == RungsAreEarned /\ ConfidenceSupportsRung
=============================================================================
