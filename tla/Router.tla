------------------------------- MODULE Router -------------------------------
(***************************************************************************)
(* The model router (scheduler/router.rs): which model tier an attempt of  *)
(* a phase runs at, and whether a phase that failed may be tried again.    *)
(*                                                                         *)
(* Tiers are their ranks (Composer 0, Grok Low 1, Grok Medium 2, Grok      *)
(* High 3).  A model is identified with its tier: Available is the set of  *)
(* tiers for which the discovered model list has an allowed model.         *)
(***************************************************************************)
EXTENDS Integers

GrokHigh == 3
Tiers == 0..GrokHigh

(* What a phase row or an attempt remembers of a failure.  The retry       *)
(* decision only tells policy, auth and build failures ("deterministic")   *)
(* from the rest, and parses any other text (a denial or a block reason    *)
(* stored in last_failure_kind) as the kind "other".                       *)
FailureKinds == {"none", "transient", "deterministic"}

(* Tiers at or above a tier for which a model is available: the preferred  *)
(* model, then the walk up the ladder.                                     *)
Candidates(tier, available) == {t \in available : t >= tier}

Lowest(S) == CHOOSE t \in S : \A u \in S : t <= u

(* The selected tier, or -1 when routing is refused.  Final reviews ignore *)
(* the requested tier.                                                     *)
RouteModel(requested, available, isFinalReview) ==
  LET effective == IF isFinalReview THEN GrokHigh ELSE requested
  IN  IF Candidates(effective, available) = {} THEN -1
      ELSE Lowest(Candidates(effective, available))

\* Fault: the cap is off by one.
DecideRetryOneMore(lastTier, attemptCount, maxAttempts, failure, progress, resumed) ==
  IF \/ attemptCount > maxAttempts
     \/ failure = "deterministic"
     \/ lastTier >= GrokHigh /\ (resumed \/ ~progress)
  THEN [allow |-> FALSE, tier |-> lastTier, sameTier |-> FALSE]
  ELSE [allow |-> TRUE, tier |-> IF lastTier >= GrokHigh THEN GrokHigh ELSE lastTier + 1,
        sameTier |-> lastTier >= GrokHigh]

(* Whether another attempt is allowed, at which tier, and whether it is    *)
(* the one same-tier resume Grok High may have.                            *)
DecideRetry(lastTier, attemptCount, maxAttempts, failure, progress, resumed) ==
  IF \/ attemptCount >= maxAttempts
     \/ failure = "deterministic"
     \/ lastTier >= GrokHigh /\ (resumed \/ ~progress)
  THEN [allow |-> FALSE, tier |-> lastTier, sameTier |-> FALSE]
  ELSE [allow |-> TRUE, tier |-> IF lastTier >= GrokHigh THEN GrokHigh ELSE lastTier + 1,
        sameTier |-> lastTier >= GrokHigh]
=============================================================================
