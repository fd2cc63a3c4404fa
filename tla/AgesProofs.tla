----------------------------- MODULE AgesProofs -----------------------------
(* What the proofs about tables with timestamps need of Ages.              *)
EXTENDS Ages, TLAPS

(* Time keeps an age within its horizon, and NULL remains NULL.            *)
LEMMA AgedType ==
  ASSUME NEW horizon \in Nat, NEW age \in AgesTo(horizon)
  PROVE  /\ Aged(age, horizon) \in AgesTo(horizon)
         /\ Aged(age, horizon) = Never <=> age = Never
         /\ age \in 0 .. horizon => Aged(age, horizon) \in 0 .. horizon
  BY DEF Aged, AgesTo, Never

(* A timestamp that is written has the age 0.                              *)
LEMMA FreshType ==
  ASSUME NEW horizon \in Nat
  PROVE  0 \in 0 .. horizon /\ 0 \in AgesTo(horizon) /\ Never \in AgesTo(horizon) /\ 0 # Never
  BY DEF AgesTo, Never
=============================================================================
