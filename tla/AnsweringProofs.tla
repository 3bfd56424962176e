--------------------------- MODULE AnsweringProofs ---------------------------
(***************************************************************************)
(* Theorems of CircuitBreaker, AnswerGuard and AgentLoop.                  *)
(***************************************************************************)
EXTENDS CircuitBreaker, AgentLoop, AnswerGuard, FiniteSetTheorems, SequenceTheorems,
        WellFoundedInduction, TLAPS

-----------------------------------------------------------------------------
(***************************************************************************)
(* CircuitBreaker, for any number of callers and any thresholds.           *)
(* BreakerInv is inductive: the admitted calls still in flight number at   *)
(* most the slots taken, and the successes counted are at most the streak, *)
(* because every state change clears both together.                        *)
(***************************************************************************)
(* Any set of callers is finite, so that its size is a number.             *)
LEMMA CallersCounted ==
    ASSUME NEW S, S \subseteq Callers
    PROVE  IsFiniteSet(S) /\ Cardinality(S) \in Nat
<1>1. IsFiniteSet(Callers)
    BY BreakerAssumption DEF BreakerAssumption
<1>2. IsFiniteSet(S)
    BY <1>1, FS_Subset
<1>3. Cardinality(S) \in Nat
    BY <1>2, FS_CardinalityType
<1> QED BY <1>2, <1>3

(* Once a call is over the number of the window's calls in flight has not  *)
(* grown, whether the call belonged to the window or to an earlier one.    *)
LEMMA FewerProbes ==
    ASSUME NEW c, NEW S, S \subseteq Callers
    PROVE  Cardinality(S \ {c}) \in Nat /\ Cardinality(S \ {c}) <= Cardinality(S)
<1>1. IsFiniteSet(S)
    BY CallersCounted
<1>2. S \ {c} \subseteq S /\ S \ {c} \subseteq Callers
    OBVIOUS
<1>3. Cardinality(S \ {c}) <= Cardinality(S)
    BY <1>1, <1>2, FS_Subset
<1>4. Cardinality(S \ {c}) \in Nat
    BY <1>2, CallersCounted
<1> QED BY <1>3, <1>4

(* An admission adds one call in flight at most.                           *)
LEMMA MoreProbes ==
    ASSUME NEW c, NEW S, S \subseteq Callers
    PROVE  /\ Cardinality(S \union {c}) \in Nat
           /\ Cardinality(S \union {c}) <= Cardinality(S) + 1
<1>1. IsFiniteSet(S) /\ Cardinality(S) \in Nat
    BY CallersCounted
<1>2. Cardinality(S \union {c}) =
         IF c \in S THEN Cardinality(S) ELSE Cardinality(S) + 1
    BY <1>1, FS_AddElement
<1> QED BY <1>1, <1>2

(* The Boolean variables keep their type, proved apart from the numbers.   *)
LEMMA FlagsStep ==
    ASSUME Flags, [BreakerNext]_breakerVars
    PROVE  Flags'
<1>1. ASSUME NEW c \in Callers, Admit(c) \/ Finish(c) \/ Cancel(c)
      PROVE  Flags'
    BY Zenon, <1>1 DEF Flags, Admit, AdmitClosed, AdmitProbe, Finish, Succeed, Fail,
        Cancel, TransitionTo, breaker, history
<1>2. CASE ReadState \/ RecoveryTimeout \/ ServiceReturns
    BY Zenon, <1>2 DEF Flags, ReadState, RecoveryTimeout, ServiceReturns, TransitionTo,
        breaker, history
<1>3. CASE Reset \/ ForceOpen \/ ForceClose
    BY Zenon, <1>3 DEF Flags, Reset, ForceOpen, ForceClose, TransitionTo
<1>4. CASE UNCHANGED breakerVars
    BY Zenon, <1>4 DEF Flags, breakerVars, breaker, history
<1> QED BY <1>1, <1>2, <1>3, <1>4 DEF BreakerNext

(* Whatever a breaker was doing, the state it changes to starts with no    *)
(* slot taken, no success counted and none of its calls in flight.         *)
LEMMA FreshWindow ==
    ASSUME NEW new \in States, TransitionTo(new),
           Flags', running' \subseteq Callers, admin' \in Nat,
           closedBy' \in {"breaker", "operator"},
           consecutive_failures' \in 0..FailureThreshold,
           ClosedIsHealthy'
    PROVE  BreakerInv'
<1>1. Cardinality({}) = 0  BY FS_EmptySet
<1>2. probes' \subseteq running'
    BY DEF TransitionTo
<1>3. state' \in States
    BY DEF TransitionTo
<1>4. /\ half_open_calls' \in Nat /\ half_open_successes' \in Nat
      /\ streak' \in 0..SuccessThreshold
      /\ half_open_calls' <= HalfOpenMaxCalls
      /\ half_open_successes' <= streak'
      /\ half_open_successes' < SuccessThreshold
    BY BreakerAssumption DEF TransitionTo, BreakerAssumption
<1>5. Cardinality(probes') <= half_open_calls'
    BY <1>1 DEF TransitionTo
<1>6. state' # "half_open" => half_open_calls' = 0 /\ half_open_successes' = 0
    BY DEF TransitionTo
<1> QED BY <1>2, <1>3, <1>4, <1>5, <1>6 DEF BreakerInv, BreakerTypeOK

LEMMA InitiallyHealthy == BreakerInit => BreakerInv
<1> SUFFICES ASSUME BreakerInit
             PROVE  BreakerInv
    OBVIOUS
<1>1. Flags
    BY Zenon DEF BreakerInit, Flags
<1>2. Cardinality(probes) = 0
    BY FS_EmptySet DEF BreakerInit
<1> QED BY <1>1, <1>2, BreakerAssumption
        DEF BreakerInit, BreakerInv, BreakerTypeOK, States, ClosedIsHealthy, BreakerAssumption

(* The slots taken cover the window's calls in flight, one fewer included. *)
LEMMA SlotsSuffice ==
    ASSUME BreakerInv, NEW c, probes \subseteq Callers
    PROVE  Cardinality(probes \ {c}) <= half_open_calls
<1>1. Cardinality(probes) \in Nat /\ Cardinality(probes \ {c}) \in Nat
    BY CallersCounted, FewerProbes
<1>2. Cardinality(probes \ {c}) <= Cardinality(probes)
    BY FewerProbes
<1>3. half_open_calls \in Nat /\ Cardinality(probes) <= half_open_calls
    BY DEF BreakerInv, BreakerTypeOK
<1> QED BY <1>1, <1>2, <1>3

(* Starting a call, in either state that lets one through.                 *)
LEMMA AdmitStep ==
    ASSUME BreakerInv, Flags', NEW c \in Callers, Admit(c)
    PROVE  BreakerInv'
<1>1. CASE AdmitClosed(c)
    BY <1>1 DEF AdmitClosed, BreakerInv, BreakerTypeOK, ClosedIsHealthy, breaker, history
<1>2. CASE AdmitProbe(c)
    <2>1. probes \subseteq Callers
        BY DEF BreakerInv, BreakerTypeOK
    <2>2. Cardinality(probes') <= half_open_calls'
        <3>1. Cardinality(probes) \in Nat /\ Cardinality(probes \union {c}) \in Nat
            BY <2>1, CallersCounted, MoreProbes
        <3>2. Cardinality(probes \union {c}) <= Cardinality(probes) + 1
            BY <2>1, MoreProbes
        <3>3. half_open_calls \in Nat /\ Cardinality(probes) <= half_open_calls
            BY DEF BreakerInv, BreakerTypeOK
        <3>4. probes' = probes \union {c} /\ half_open_calls' = half_open_calls + 1
            BY <1>2 DEF AdmitProbe
        <3> QED BY <3>1, <3>2, <3>3, <3>4
    <2> QED BY <1>2, <2>2, BreakerAssumption
            DEF AdmitProbe, BreakerInv, BreakerTypeOK, ClosedIsHealthy, BreakerAssumption
<1> QED BY <1>1, <1>2 DEF Admit

(* The end of a call, admitted in this state or in an earlier one.         *)
LEMMA FinishStep ==
    ASSUME BreakerInv, Flags', NEW c \in Callers, Finish(c)
    PROVE  BreakerInv'
<1>1. probes \subseteq Callers
    BY DEF BreakerInv, BreakerTypeOK
<1>2. Cardinality(probes \ {c}) <= half_open_calls
    BY <1>1, SlotsSuffice
<1>3. CASE Succeed(c)
    <2>1. consecutive_failures' < FailureThreshold
        BY <1>3, BreakerAssumption DEF Succeed, BreakerAssumption
    <2>2. CASE TransitionTo("closed")
        BY <1>3, <2>1, <2>2, FreshWindow, BreakerAssumption
        DEF Succeed, BreakerInv, BreakerTypeOK, ClosedIsHealthy, States, BreakerAssumption
    <2>3. CASE /\ state = "half_open"
               /\ half_open_successes + 1 < SuccessThreshold
               /\ half_open_successes' = half_open_successes + 1
               /\ probes' = probes \ {c}
               /\ streak' = Saturated(streak + 1, SuccessThreshold)
               /\ UNCHANGED <<state, half_open_calls, due, lost>>
        BY <1>2, <1>3, <2>1, <2>3, BreakerAssumption
        DEF Succeed, BreakerInv, BreakerTypeOK, ClosedIsHealthy, Saturated, BreakerAssumption
    <2>4. CASE /\ state # "half_open"
               /\ probes' = probes \ {c}
               /\ streak' = Saturated(streak + 1, SuccessThreshold)
               /\ UNCHANGED <<breaker, lost>>
        BY <1>2, <1>3, <2>1, <2>4, BreakerAssumption
        DEF Succeed, BreakerInv, BreakerTypeOK, ClosedIsHealthy, Saturated, breaker,
            BreakerAssumption
    <2> QED BY <1>3, <2>2, <2>3, <2>4 DEF Succeed
<1>4. CASE Fail(c)
    <2>1. consecutive_failures' \in 0..FailureThreshold
        BY <1>4, BreakerAssumption
        DEF Fail, Saturated, BreakerInv, BreakerTypeOK, BreakerAssumption
    <2>2. CASE TransitionTo("open") /\ closedBy' = "breaker"
        <3>1. ClosedIsHealthy'
            BY <2>2 DEF TransitionTo, ClosedIsHealthy
        <3> QED BY <1>4, <2>1, <2>2, <3>1, FreshWindow
                DEF Fail, BreakerInv, BreakerTypeOK, States
    <2>3. CASE /\ ~Trips(consecutive_failures + 1)
               /\ probes' = probes \ {c}
               /\ streak' = 0
               /\ UNCHANGED <<breaker, closedBy, lost>>
        <3>1. state # "half_open"
            BY <2>3 DEF Trips
        <3>2. ClosedIsHealthy'
            BY <1>4, <2>3, BreakerAssumption
            DEF Fail, Trips, ClosedIsHealthy, Saturated, breaker, BreakerInv, BreakerTypeOK,
                BreakerAssumption
        <3> QED BY <1>2, <1>4, <2>1, <2>3, <3>1, <3>2, BreakerAssumption
                DEF Fail, breaker, BreakerInv, BreakerTypeOK, BreakerAssumption
    <2> QED BY <1>4, <2>2, <2>3 DEF Fail
<1> QED BY <1>3, <1>4 DEF Finish

LEMMA BreakerStep == BreakerInv /\ [BreakerNext]_breakerVars => BreakerInv'
<1> SUFFICES ASSUME BreakerInv, [BreakerNext]_breakerVars
             PROVE  BreakerInv'
    OBVIOUS
<1>0. Flags'
    BY FlagsStep DEF BreakerInv, BreakerTypeOK
<1>1. ASSUME NEW c \in Callers, Cancel(c)
      PROVE  BreakerInv'
    <2>1. probes \subseteq Callers
        BY DEF BreakerInv, BreakerTypeOK
    <2>2. Cardinality(probes \ {c}) <= half_open_calls
        BY <2>1, SlotsSuffice
    <2> QED BY <1>0, <1>1, <2>2 DEF Cancel, breaker, BreakerInv, BreakerTypeOK, ClosedIsHealthy
<1>2. CASE ReadState
    <2>1. ClosedIsHealthy'
        BY <1>0, <1>2 DEF ReadState, TransitionTo, ClosedIsHealthy
    <2> QED BY <1>0, <1>2, <2>1, FreshWindow DEF ReadState, States, BreakerInv, BreakerTypeOK
<1>3. CASE RecoveryTimeout
    BY <1>0, <1>3 DEF RecoveryTimeout, history, BreakerInv, BreakerTypeOK, ClosedIsHealthy
<1>4. CASE ServiceReturns
    BY <1>0, <1>4 DEF ServiceReturns, breaker, history, BreakerInv, BreakerTypeOK, ClosedIsHealthy
<1>5. CASE Reset
    <2>1. ClosedIsHealthy'
        BY <1>0, <1>5, BreakerAssumption DEF Reset, ClosedIsHealthy, BreakerAssumption
    <2> QED BY <1>0, <1>5, <2>1, FreshWindow, BreakerAssumption
            DEF Reset, States, BreakerInv, BreakerTypeOK, BreakerAssumption
<1>6. CASE ForceOpen
    <2>1. ClosedIsHealthy'
        BY <1>0, <1>6 DEF ForceOpen, TransitionTo, ClosedIsHealthy
    <2> QED BY <1>0, <1>6, <2>1, FreshWindow DEF ForceOpen, States, BreakerInv, BreakerTypeOK
<1>7. CASE ForceClose
    <2>1. ClosedIsHealthy'
        BY <1>0, <1>7 DEF ForceClose, ClosedIsHealthy
    <2> QED BY <1>0, <1>7, <2>1, FreshWindow DEF ForceClose, States, BreakerInv, BreakerTypeOK
<1>8. CASE UNCHANGED breakerVars
    BY <1>0, <1>8 DEF breakerVars, breaker, history, BreakerInv, BreakerTypeOK, ClosedIsHealthy
<1> QED BY <1>0, <1>1, <1>2, <1>3, <1>4, <1>5, <1>6, <1>7, <1>8, AdmitStep, FinishStep
        DEF BreakerNext

-----------------------------------------------------------------------------
(* BreakerInv holds of every behaviour: its initial states satisfy it and  *)
(* no step leaves it.                                                      *)
THEOREM BreakerInvariance == BreakerSpec => []BreakerInv
<1> QED BY InitiallyHealthy, BreakerStep, PTL DEF BreakerSpec

(* However the periods overlap, a half-open window never has more than     *)
(* half_open_max_calls of its own calls in flight.                         *)
THEOREM ProbesAreBounded == BreakerSpec => []ProbesBounded
<1>1. BreakerInv => ProbesBounded
    <2> SUFFICES ASSUME BreakerInv
                 PROVE  ProbesBounded
        OBVIOUS
    <2>1. probes \subseteq Callers
        BY DEF BreakerInv, BreakerTypeOK
    <2>2. IsFiniteSet(probes) /\ Cardinality(probes) \in Nat
        BY <2>1, CallersCounted
    <2>3. Cardinality(probes) <= HalfOpenMaxCalls
        BY <2>2, BreakerAssumption DEF BreakerInv, BreakerTypeOK, BreakerAssumption
    <2>4. ASSUME state # "half_open"
          PROVE  probes = {}
        <3>1. Cardinality(probes) = 0
            BY <2>2, <2>4 DEF BreakerInv
        <3> QED BY <2>2, <3>1, FS_EmptySet
    <2> QED BY <2>3, <2>4 DEF ProbesBounded
<1> QED BY <1>1, BreakerInvariance, PTL

(* A circuit that no operator forced closed has fewer consecutive failures *)
(* than failure_threshold for as long as it is closed.                     *)
THEOREM ClosedMeansHealthy == BreakerSpec => []ClosedIsHealthy
<1>1. BreakerInv => ClosedIsHealthy
    BY DEF BreakerInv
<1> QED BY <1>1, BreakerInvariance, PTL

(* Without an operator a half-open circuit closes only on the last of      *)
(* success_threshold successes in a row under that very window.            *)
THEOREM ClosesAreEarned == BreakerSpec => EarnedClose
<1> DEFINE Earned == streak + 1 >= SuccessThreshold /\ consecutive_failures' = 0
<1>1. ASSUME BreakerInv, [BreakerNext]_breakerVars,
             state = "half_open", state' = "closed", admin' = admin
      PROVE  Earned
    <2>1. PICK c \in Callers : Succeed(c)
        <3>1. ASSUME NEW c \in Callers, Fail(c)
              PROVE  FALSE
            BY <1>1, <3>1 DEF Fail, TransitionTo, breaker
        <3>2. ASSUME NEW c \in Callers, Admit(c) \/ Cancel(c)
              PROVE  FALSE
            BY <1>1, <3>2 DEF Admit, AdmitProbe, AdmitClosed, Cancel, breaker
        <3>3. ~ (ReadState \/ RecoveryTimeout \/ ServiceReturns \/ UNCHANGED breakerVars)
            BY <1>1 DEF ReadState, RecoveryTimeout, ServiceReturns, breakerVars, breaker
        <3>4. ~ (Reset \/ ForceOpen \/ ForceClose)
            BY <1>1 DEF Reset, ForceOpen, ForceClose, BreakerInv, BreakerTypeOK
        <3> QED BY <1>1, <3>1, <3>2, <3>3, <3>4 DEF BreakerNext, Finish
    <2>2. half_open_successes + 1 >= SuccessThreshold /\ consecutive_failures' = 0
        BY <1>1, <2>1 DEF Succeed, breaker
    <2> QED BY <1>1, <2>2, BreakerAssumption DEF BreakerInv, BreakerTypeOK, BreakerAssumption
<1>2. BreakerInv /\ [BreakerNext]_breakerVars
      => [state = "half_open" /\ state' = "closed" /\ admin' = admin => Earned]_breakerVars
    BY <1>1
<1> QED BY <1>2, BreakerInvariance, PTL DEF BreakerSpec, EarnedClose

-----------------------------------------------------------------------------
(***************************************************************************)
(* AnswerGuard, for any requests, evidence, budget, drafts, texts the      *)
(* guardrail appends and threshold of the judge.                           *)
(* GuardInv is inductive: every "no" that is held somewhere, in a cache,   *)
(* among the texts of a request or of the loop, or behind a miss, was said *)
(* of the claim it stands for; the two properties follow from it.          *)
(***************************************************************************)
(* Sifting a sequence gives a sequence of its members: induction over the   *)
(* positions, as the absence of a least one without the property.          *)
LEMMA LeastPosition ==
    ASSUME NEW P, P \subseteq Nat, P # {}
    PROVE  \E n \in P : \A m \in P : n <= m
<1>1. \E n \in P : \A m \in P : ~(<<m, n>> \in OpToRel(<, Nat))
    BY NatLessThanWellFounded, WFMin, Zenon
<1>2. PICK n \in P : \A m \in P : ~(<<m, n>> \in OpToRel(<, Nat)) BY <1>1, Zenon
<1>3. \A m \in P : ~(m < n) BY <1>2, Zenon DEF OpToRel
<1>4. \A m \in P : n <= m BY <1>3
<1> QED BY <1>4

LEMMA SiftedType ==
    ASSUME NEW C, NEW s \in Seq(C), NEW picked, NEW kept, kept[0] = <<>>,
           \A n \in 1 .. Len(s) :
              kept[n] = IF n \in picked THEN Append(kept[n - 1], s[n]) ELSE kept[n - 1]
    PROVE  kept[Len(s)] \in Seq(C)
<1> DEFINE P == {n \in 0 .. Len(s) : kept[n] \notin Seq(C)}
<1>1. P = {}
  <2> SUFFICES ASSUME P # {} PROVE FALSE OBVIOUS
  <2>1. PICK n \in P : \A m \in P : n <= m
    <3>1. P \subseteq Nat OBVIOUS
    <3> HIDE DEF P
    <3> QED BY <3>1, LeastPosition
  <2>2. n \in 1 .. Len(s)
    <3>1. n \in 0 .. Len(s) /\ kept[n] \notin Seq(C) OBVIOUS
    <3>2. <<>> \in Seq(C) OBVIOUS
    <3>3. n # 0 BY <3>1, <3>2
    <3> QED BY <3>1, <3>3
  <2>3. n - 1 \in 0 .. Len(s) /\ n - 1 \notin P BY <2>1, <2>2
  <2>4. kept[n - 1] \in Seq(C) BY <2>3
  <2>5. s[n] \in C BY <2>2
  <2>6. Append(kept[n - 1], s[n]) \in Seq(C) BY <2>4, <2>5
  <2>7. kept[n] \in Seq(C) BY <2>2, <2>4, <2>6
  <2> QED BY <2>7
<1>2. Len(s) \in 0 .. Len(s) OBVIOUS
<1> QED BY <1>1, <1>2

CanSift(C, s, May) ==
    \E kept \in [0 .. Len(s) -> Seq(C)] :
       /\ kept[0] = <<>>
       /\ \A n \in 1 .. Len(s) :
            kept[n] = IF <<kept[n - 1], s[n]>> \in May THEN Append(kept[n - 1], s[n])
                      ELSE kept[n - 1]

LEMMA SiftedExists ==
    ASSUME NEW C, NEW s \in Seq(C), NEW May
    PROVE  CanSift(C, s, May)
<1> DEFINE Upto(kept, l) ==
             /\ kept \in [0 .. l -> Seq(C)] /\ kept[0] = <<>>
             /\ \A n \in 1 .. l : kept[n] = IF <<kept[n - 1], s[n]>> \in May
                                            THEN Append(kept[n - 1], s[n]) ELSE kept[n - 1]
           P == {l \in 0 .. Len(s) : ~ \E kept : Upto(kept, l)}
<1>1. P = {}
  <2> SUFFICES ASSUME P # {} PROVE FALSE OBVIOUS
  <2>1. PICK l \in P : \A m \in P : l <= m
    <3>1. P \subseteq Nat OBVIOUS
    <3> HIDE DEF P
    <3> QED BY <3>1, LeastPosition
  <2>l. l \in 0 .. Len(s) /\ ~ \E kept : Upto(kept, l) OBVIOUS
  <2>2. l # 0
    <3>1. Upto([n \in 0 .. 0 |-> <<>>], 0) OBVIOUS
    <3> QED BY <2>l, <3>1
  <2>3. l - 1 \in 0 .. Len(s) /\ ~(l - 1 \in P)
    <3> HIDE DEF P
    <3> QED BY <2>1, <2>2, <2>l
  <2>3a. \E kept : Upto(kept, l - 1)
    <3> HIDE DEF Upto
    <3> QED BY <2>3
  <2>4. PICK kept : Upto(kept, l - 1) BY <2>3a
  <2>5. s[l] \in C BY <2>2
  <2> DEFINE last == IF <<kept[l - 1], s[l]>> \in May THEN Append(kept[l - 1], s[l])
                     ELSE kept[l - 1]
             more == [n \in 0 .. l |-> IF n = l THEN last ELSE kept[n]]
  <2>6. kept[l - 1] \in Seq(C) BY <2>2, <2>4
  <2>7. last \in Seq(C) BY <2>5, <2>6
  <2>8. \A n \in 0 .. l - 1 : more[n] = kept[n] /\ kept[n] \in Seq(C) BY <2>4
  <2>9. more[l] = last OBVIOUS
  <2>10. more \in [0 .. l -> Seq(C)]
    <3> HIDE DEF last
    <3> QED BY <2>4, <2>7
  <2>11. more[0] = <<>> BY <2>2, <2>4, <2>8
  <2>12. \A n \in 1 .. l : more[n] = IF <<more[n - 1], s[n]>> \in May
                                     THEN Append(more[n - 1], s[n]) ELSE more[n - 1]
    <3> SUFFICES ASSUME NEW n \in 1 .. l
                 PROVE  more[n] = IF <<more[n - 1], s[n]>> \in May
                                  THEN Append(more[n - 1], s[n]) ELSE more[n - 1]
        OBVIOUS
    <3>1. more[n - 1] = kept[n - 1] BY <2>8
    <3>2. CASE n = l BY <2>9, <3>1, <3>2
    <3>3. CASE n # l
      <4>1. n \in 1 .. l - 1 /\ more[n] = kept[n] BY <2>8, <3>3
      <4> QED BY <2>4, <3>1, <4>1
    <3> QED BY <3>2, <3>3
  <2>13. Upto(more, l)
    <3> HIDE DEF more
    <3> QED BY <2>10, <2>11, <2>12
  <2> QED BY <2>13
<1>2. PICK kept : Upto(kept, Len(s))
  <2>1. Len(s) \in 0 .. Len(s) OBVIOUS
  <2> QED BY <1>1, <2>1
<1> QED BY <1>2 DEF CanSift

LEMMA HardType ==
    ASSUME NEW claims \in Seq(Claims)
    PROVE  HardOf(claims) \in Seq(Claims)
<1> DEFINE Rhs(kept, n) ==
             IF n = 0 THEN <<>>
             ELSE IF claims[n] \in Hard THEN Append(kept[n - 1], claims[n]) ELSE kept[n - 1]
           Body(kept) == kept = [n \in 0 .. Len(claims) |-> Rhs(kept, n)]
           hard == CHOOSE kept : Body(kept)
<1>1. HardOf(claims) = hard[Len(claims)] BY DEF HardOf, Sift
<1>2. \E kept : Body(kept)
  <2> DEFINE May == {x \in Seq(Claims) \X Claims : x[2] \in Hard}
  <2>1. PICK kept \in [0 .. Len(claims) -> Seq(Claims)] :
             /\ kept[0] = <<>>
             /\ \A n \in 1 .. Len(claims) :
                  kept[n] = IF <<kept[n - 1], claims[n]>> \in May
                            THEN Append(kept[n - 1], claims[n]) ELSE kept[n - 1]
    <3> HIDE DEF May
    <3>1. CanSift(Claims, claims, May) BY SiftedExists
    <3> QED BY <3>1 DEF CanSift
  <2>2. ASSUME NEW n \in 1 .. Len(claims)
        PROVE  <<kept[n - 1], claims[n]>> \in May <=> claims[n] \in Hard
    <3>1. kept[n - 1] \in Seq(Claims) /\ claims[n] \in Claims OBVIOUS
    <3> QED BY <3>1
  <2>3. \A n \in 0 .. Len(claims) : kept[n] = Rhs(kept, n)
    <3> HIDE DEF May
    <3>1. kept[0] = Rhs(kept, 0) BY <2>1
    <3>2. ASSUME NEW n \in 1 .. Len(claims) PROVE kept[n] = Rhs(kept, n)
      <4>1. n # 0 OBVIOUS
      <4> QED BY <2>1, <2>2, <4>1
    <3>3. \A n \in 0 .. Len(claims) : n = 0 \/ n \in 1 .. Len(claims) OBVIOUS
    <3> HIDE DEF Rhs
    <3> QED BY <3>1, <3>2, <3>3
  <2>4. kept = [n \in 0 .. Len(claims) |-> kept[n]] OBVIOUS
  <2>5. Body(kept)
    <3> HIDE DEF Rhs
    <3> QED BY <2>3, <2>4
  <2> QED BY <2>5
<1>3. Body(hard)
  <2> HIDE DEF Body
  <2> QED BY <1>2
<1>4. \A n \in 0 .. Len(claims) : hard[n] = Rhs(hard, n)
  <2> HIDE DEF hard, Rhs
  <2> QED BY <1>3
<1>5. hard[Len(claims)] \in Seq(Claims)
  <2> DEFINE picked == {n \in 1 .. Len(claims) : claims[n] \in Hard}
  <2> HIDE DEF hard
  <2>1. hard[0] = <<>> BY <1>4
  <2>2. \A n \in 1 .. Len(claims) :
           hard[n] = IF n \in picked THEN Append(hard[n - 1], claims[n]) ELSE hard[n - 1]
        BY <1>4
  <2> HIDE DEF picked
  <2> QED BY <2>1, <2>2, SiftedType
<1> QED BY <1>1, <1>5

LEMMA EvidenceType ==
    ASSUME NEW e \in Evidences
    PROVE  PrepareEvidence(e, Budget) \in Evidences
<1> DEFINE D == DOMAIN SizeOf
           Fits(kept, n) == Tokens(Append(kept[n - 1], e[n])) <= Budget
           Rhs(kept, n) ==
             IF n = 0 THEN <<>>
             ELSE IF Fits(kept, n) THEN Append(kept[n - 1], e[n]) ELSE kept[n - 1]
           Body(kept) == kept = [n \in 0 .. Len(e) |-> Rhs(kept, n)]
           fit == CHOOSE kept : Body(kept)
<1>0. e \in Seq(D) BY DEF Evidences
<1>1. PrepareEvidence(e, Budget) = fit[Len(e)] BY DEF PrepareEvidence, Sift
<1>2. \E kept : Body(kept)
  <2> DEFINE May == {x \in Seq(D) \X D : Tokens(Append(x[1], x[2])) <= Budget}
  <2>1. PICK kept \in [0 .. Len(e) -> Seq(D)] :
             /\ kept[0] = <<>>
             /\ \A n \in 1 .. Len(e) :
                  kept[n] = IF <<kept[n - 1], e[n]>> \in May
                            THEN Append(kept[n - 1], e[n]) ELSE kept[n - 1]
    <3> HIDE DEF May, D
    <3>1. CanSift(D, e, May) BY <1>0, SiftedExists
    <3> QED BY <3>1 DEF CanSift
  <2>2. ASSUME NEW n \in 1 .. Len(e)
        PROVE  <<kept[n - 1], e[n]>> \in May <=> Fits(kept, n)
    <3> HIDE DEF D
    <3>1. kept[n - 1] \in Seq(D) /\ e[n] \in D BY <1>0
    <3> QED BY <3>1
  <2>3. \A n \in 0 .. Len(e) : kept[n] = Rhs(kept, n)
    <3> HIDE DEF May, D, Fits
    <3>1. kept[0] = Rhs(kept, 0) BY <2>1
    <3>2. ASSUME NEW n \in 1 .. Len(e) PROVE kept[n] = Rhs(kept, n)
      <4>1. n # 0 OBVIOUS
      <4> QED BY <2>1, <2>2, <4>1
    <3>3. \A n \in 0 .. Len(e) : n = 0 \/ n \in 1 .. Len(e) BY <1>0
    <3> HIDE DEF Rhs
    <3> QED BY <3>1, <3>2, <3>3
  <2>4. kept = [n \in 0 .. Len(e) |-> kept[n]] OBVIOUS
  <2>5. Body(kept)
    <3> HIDE DEF Rhs, D
    <3> QED BY <2>3, <2>4
  <2> QED BY <2>5
<1>3. Body(fit)
  <2> HIDE DEF Body
  <2> QED BY <1>2
<1>4. \A n \in 0 .. Len(e) : fit[n] = Rhs(fit, n)
  <2> HIDE DEF fit, Rhs, D
  <2> QED BY <1>3
<1>5. fit[Len(e)] \in Seq(D)
  <2> DEFINE picked == {n \in 1 .. Len(e) : Fits(fit, n)}
  <2> HIDE DEF fit, D, Fits
  <2>1. fit[0] = <<>> BY <1>0, <1>4
  <2>2. \A n \in 1 .. Len(e) :
           fit[n] = IF n \in picked THEN Append(fit[n - 1], e[n]) ELSE fit[n - 1]
        BY <1>0, <1>4
  <2> HIDE DEF picked
  <2> QED BY <1>0, <2>1, <2>2, SiftedType
<1> QED BY <1>1, <1>5 DEF Evidences

-----------------------------------------------------------------------------
(* What the guardrail makes of the texts of a draft's hard claims.         *)

LEMMA CountsOfTexts ==
    ASSUME NEW texts \in Seq(AnyText)
    PROVE  /\ Judged(texts) \in Nat /\ Supported(texts) \in Nat
           /\ Supported(texts) <= Judged(texts)
           /\ (\A i \in DOMAIN texts : texts[i] # "no") => Supported(texts) = Judged(texts)
<1> DEFINE judged == {i \in DOMAIN texts : Verdict(texts[i]) # Unjudged}
           supported == {i \in DOMAIN texts : Verdict(texts[i]) = "yes"}
<1>1. IsFiniteSet(judged)
  <2>1. judged \subseteq 1 .. Len(texts) /\ Len(texts) \in Nat OBVIOUS
  <2> HIDE DEF judged
  <2>2. IsFiniteSet(1 .. Len(texts)) BY <2>1, FS_Interval
  <2> QED BY <2>1, <2>2, FS_Subset
<1>2. supported \subseteq judged BY GuardAssumption DEF GuardAssumption
<1>3. (\A i \in DOMAIN texts : texts[i] # "no") => supported = judged
    BY GuardAssumption DEF Verdict
<1>4. Judged(texts) = Cardinality(judged) /\ Supported(texts) = Cardinality(supported)
    BY DEF Judged, Supported
<1> HIDE DEF judged, supported
<1>5. Cardinality(judged) \in Nat BY <1>1, FS_CardinalityType
<1>6. IsFiniteSet(supported) BY <1>1, <1>2, FS_Subset
<1>7. Cardinality(supported) \in Nat BY <1>6, FS_CardinalityType
<1>8. Cardinality(supported) <= Cardinality(judged) BY <1>1, <1>2, FS_Subset
<1> QED BY <1>3, <1>4, <1>5, <1>7, <1>8

LEMMA BelowMeansNo ==
    ASSUME NEW texts \in Seq(AnyText), Below(texts)
    PROVE  \E i \in DOMAIN texts : texts[i] = "no"
BY CountsOfTexts DEF Below

LEMMA NothingIsBelow ==
    ASSUME NEW texts \in Seq(AnyText), Nothing(texts)
    PROVE  Below(texts)
BY CountsOfTexts DEF Below, Nothing

LEMMA ValidatedFacts ==
    ASSUME NEW r, NEW texts \in Seq(AnyText)
    PROVE  LET v == Validated(r, texts) IN
           /\ v.action \in {"allow", "sanitize", "escalate"}
           /\ v.marks \subseteq {"caveat", "disclaimer", "hint", "redacted"}
           /\ (v.action = "escalate" \/ "caveat" \in v.marks) =>
                 Below(texts) \/ (Judged(texts) = 0 /\ Miscites(r))
           /\ Nothing(texts) => v.action = "escalate"
           /\ Below(texts) => (v.action = "escalate" \/ v.marks \cap {"caveat", "redacted"} # {})
<1>0. Nothing(texts) => Judged(texts) # 0 BY CountsOfTexts DEF Nothing
<1>b. Below(texts) => Judged(texts) # 0 BY CountsOfTexts DEF Below
<1>1. /\ Hallucination(r, texts) \in {"allow", "sanitize", "escalate"}
      /\ Hallucination(r, texts) = "escalate" =>
            Nothing(texts) \/ (Judged(texts) = 0 /\ Miscites(r))
      /\ Hallucination(r, texts) = "sanitize" => Below(texts)
      /\ Nothing(texts) => Hallucination(r, texts) = "escalate"
      /\ Below(texts) /\ ~Nothing(texts) => Hallucination(r, texts) = "sanitize"
  <2>1. CASE Nothing(texts)
    <3>1. Hallucination(r, texts) = "escalate" BY <1>0, <2>1 DEF Hallucination
    <3> QED BY <2>1, <3>1
  <2>2. CASE Below(texts) /\ ~Nothing(texts)
    <3>1. Hallucination(r, texts) = "sanitize" BY <1>b, <2>2 DEF Hallucination
    <3> QED BY <2>2, <3>1
  <2>3. CASE ~Below(texts) /\ ~Nothing(texts) /\ Judged(texts) = 0 /\ Miscites(r)
    <3>1. Hallucination(r, texts) = "escalate" BY <2>3 DEF Hallucination
    <3> QED BY <2>3, <3>1
  <2>4. CASE /\ ~Below(texts) /\ ~Nothing(texts)
             /\ ~(Judged(texts) = 0 /\ Miscites(r))
    <3>1. Hallucination(r, texts) = "allow" BY <2>4 DEF Hallucination
    <3> QED BY <2>4, <3>1
  <2> QED BY <2>1, <2>2, <2>3, <2>4
<1>2. Nothing(texts) => Below(texts) BY NothingIsBelow
<1> DEFINE found == Hallucination(r, texts)
           extra == CASE found # "allow" -> IF found = "sanitize" THEN {"caveat"} ELSE {}
                      [] found = "allow" /\ "noted" \notin r.draft.flags -> {"disclaimer"}
                      [] found = "allow" /\ {"noted", "cut"} \subseteq r.draft.flags -> {"hint"}
                      [] OTHER -> {}
<1>3. /\ extra \in {{}, {"caveat"}, {"disclaimer"}, {"hint"}}
      /\ extra = {"caveat"} <=> found = "sanitize"
      /\ found = "escalate" => extra = {}
    BY <1>1
<1>4. Validated(r, texts) =
         IF "pii" \notin r.draft.flags
         THEN [action |-> IF found = "allow" /\ extra # {} THEN "sanitize" ELSE found,
               marks |-> extra]
         ELSE [action |-> IF found = "escalate" THEN found ELSE "sanitize",
               marks |-> {"redacted"} \union (extra \ {"caveat", "hint"})]
    BY DEF Validated
<1> HIDE DEF found, extra
<1>5. CASE "pii" \notin r.draft.flags
  <2>1. Validated(r, texts).action = (IF found = "allow" /\ extra # {} THEN "sanitize" ELSE found)
        /\ Validated(r, texts).marks = extra
        BY <1>4, <1>5
  <2>2. found \in {"allow", "sanitize", "escalate"} BY <1>1 DEF found
  <2>3. "caveat" \in extra <=> found = "sanitize" BY <1>3
  <2>4. extra \subseteq {"caveat", "disclaimer", "hint", "redacted"} BY <1>3
  <2> DEFINE v == Validated(r, texts)
  <2>5. /\ v.action \in {"allow", "sanitize", "escalate"}
        /\ v.action = "escalate" <=> found = "escalate"
        /\ v.marks = extra
        BY <2>1, <2>2
  <2> HIDE DEF v
  <2>6. (v.action = "escalate" \/ "caveat" \in v.marks) =>
           Below(texts) \/ (Judged(texts) = 0 /\ Miscites(r))
        BY <1>1, <1>2, <2>3, <2>5 DEF found
  <2>7. Nothing(texts) => v.action = "escalate" BY <1>1, <2>5 DEF found
  <2>8. Below(texts) => (v.action = "escalate" \/ v.marks \cap {"caveat", "redacted"} # {})
        BY <1>1, <2>3, <2>5 DEF found
  <2> QED BY <2>4, <2>5, <2>6, <2>7, <2>8 DEF v
<1>6. CASE "pii" \in r.draft.flags
  <2>1. Validated(r, texts).action = (IF found = "escalate" THEN found ELSE "sanitize")
        /\ Validated(r, texts).marks = {"redacted"} \union (extra \ {"caveat", "hint"})
        BY <1>4, <1>6
  <2> QED BY <1>1, <1>2, <1>3, <2>1 DEF found
<1> QED BY <1>5, <1>6

-----------------------------------------------------------------------------
(* The invariant.  Every "no" among the texts of claims was said of the    *)
(* claim at its place, and of the contexts it stands for.                  *)
Backed(claims, contexts, texts, heard) ==
    \A i \in DOMAIN texts :
       texts[i] = "no" => i \in DOMAIN claims /\ <<Entail(claims[i], contexts), "no">> \in heard

DraftClaims(r) == HardOf(r.draft.claims)

RequestOK(r, heard) ==
    /\ r \in RequestStates
    /\ r.at \in {"new", "draft", "guard", "lost"} => r.texts = <<>>
    /\ r.pending \subseteq DOMAIN DraftClaims(r) \cap DOMAIN r.texts
    /\ Backed(DraftClaims(r), r.contexts, r.texts, heard)
    /\ IF r.at = "served"
       THEN r.action = Validated(r, r.texts).action
            /\ r.marks = Validated(r, r.texts).marks
       ELSE r.action = Unjudged /\ r.marks = {}

(* The loop asks for the claims in their order, after the texts it has.    *)
Asks(l, claims, contexts, heard) ==
    /\ \A i \in DOMAIN l.texts \cap DOMAIN claims :
          l.texts[i] = "no" => <<Entail(claims[i], contexts), "no">> \in heard
    /\ \A j \in 1 .. Len(l.todo) :
          Len(l.texts) + j <= Len(claims) =>
             l.todo[j] = Entail(claims[Len(l.texts) + j], contexts)
    /\ Len(claims) <= Len(l.texts) + Len(l.todo)

LoopOK ==
    /\ loop.use = Unjudged => loop = Free
    /\ loop.use = "guard" =>
          /\ loop.for \in Requests /\ At(loop.for, {"ground"})
          /\ request[loop.for].pending = {}
          /\ LET hard == DraftClaims(request[loop.for]) IN
             /\ Asks(loop, hard, request[loop.for].contexts, said)
             /\ IF hard = <<>> THEN loop.todo = <<>> /\ loop.texts \in {<<>>, <<"yes">>}
                ELSE Len(loop.texts) + Len(loop.todo) = Len(hard)
    /\ loop.use = "rate" =>
          /\ loop.for \in Requests /\ At(loop.for, {"served"})
          /\ request[loop.for].contexts # <<>> =>
                Asks(loop, ServedClaims(request[loop.for]), request[loop.for].contexts, said)

JudgeOK ==
    /\ judge \in [cache : {judge.cache}, failures : Nat, tripped : BOOLEAN]
    /\ \A p \in DOMAIN judge.cache :
          /\ judge.cache[p] \in AnyText
          /\ judge.cache[p] = "no" => <<p, "no">> \in said

MissesOK ==
    \A q \in misses : /\ At(q, {"served"})
                      /\ SaidNo(ServedClaims(request[q]), request[q].contexts)

GuardInv ==
    /\ GuardTypeOK
    /\ \A q \in Requests : RequestOK(request[q], said)
    /\ LoopOK
    /\ JudgeOK
    /\ MissesOK

LEMMA NewIsBlank ==
    /\ NewRequest \in RequestStates /\ NewRequest.texts = <<>> /\ NewRequest.pending = {}
    /\ NewRequest.action = Unjudged /\ NewRequest.marks = {}
<1>1. <<>> \in Evidences /\ <<>> \in Seq(AnyText) BY DEF Evidences
<1>2. Fixed \in Drafts BY DEF Fixed, Drafts
<1> QED BY <1>1, <1>2 DEF NewRequest, RequestStates

LEMMA GuardBegins == GuardInit => GuardInv
<1> SUFFICES ASSUME GuardInit PROVE GuardInv OBVIOUS
<1> USE GuardAssumption DEF GuardAssumption
<1>1. NewRequest \in RequestStates BY NewIsBlank
<1>2. \A heard : RequestOK(NewRequest, heard)
  <2>1. NewRequest.texts = <<>> /\ NewRequest.pending = {} /\ NewRequest.at = "new"
        /\ NewRequest.action = Unjudged /\ NewRequest.marks = {}
        BY DEF NewRequest
  <2>2. DOMAIN NewRequest.texts = {} BY <2>1
  <2> QED BY <1>1, <2>1, <2>2 DEF RequestOK, Backed
<1>3. \A q \in Requests : request[q] = NewRequest BY DEF GuardInit
<1>4. /\ judge.cache = <<>> /\ judge \in [cache : {judge.cache}, failures : Nat, tripped : BOOLEAN]
      /\ DOMAIN judge.cache = {}
  <2>1. judge = NewJudge BY DEF GuardInit
  <2>2. judge.cache = <<>> BY <2>1 DEF NewJudge
  <2>3. DOMAIN <<>> = {} OBVIOUS
  <2> QED BY <2>1, <2>2, <2>3 DEF NewJudge
<1>5. loop \in [for : Requests \union {Unjudged}, use : {Unjudged, "guard", "rate"},
                todo : Seq(AnyPrompt), texts : Seq(AnyText)]
      /\ loop.use = Unjudged
  <2>1. loop = Free /\ <<>> \in Seq(AnyPrompt) /\ <<>> \in Seq(AnyText) BY DEF GuardInit
  <2> QED BY <2>1 DEF Free
<1>6. GuardTypeOK
  <2>1. request \in [Requests -> RequestStates] BY <1>1 DEF GuardInit
  <2> QED BY <1>4, <1>5, <2>1 DEF GuardTypeOK, GuardInit
<1>7. LoopOK BY <1>5 DEF LoopOK, GuardInit
<1>8. JudgeOK /\ MissesOK BY <1>4 DEF JudgeOK, MissesOK, GuardInit
<1> QED BY <1>2, <1>3, <1>6, <1>7, <1>8 DEF GuardInv

(* The heart of both properties: what is served goes back to the texts.    *)
LEMMA RequestOKMeans ==
    ASSUME GuardInv, NEW q \in Requests
    PROVE  /\ (request[q].action = "escalate" \/ "caveat" \in request[q].marks) =>
                \/ SaidNo(HardOf(request[q].draft.claims), request[q].contexts)
                \/ Judged(request[q].texts) = 0 /\ Miscites(request[q])
           /\ At(q, {"served"}) =>
                /\ Nothing(request[q].texts) => request[q].action = "escalate"
                /\ Below(request[q].texts) =>
                      \/ request[q].action = "escalate"
                      \/ request[q].marks \cap {"caveat", "redacted"} # {}
<1> DEFINE r == request[q]
<1>1. RequestOK(r, said) BY DEF GuardInv
<1>2. r.draft \in Drafts /\ r.texts \in Seq(AnyText) BY <1>1 DEF RequestOK, RequestStates
<1>3. CASE r.at = "served"
  <2> DEFINE v == Validated(r, r.texts)
  <2>1. r.action = v.action /\ r.marks = v.marks BY <1>1, <1>3 DEF RequestOK
  <2>2. /\ (v.action = "escalate" \/ "caveat" \in v.marks) =>
              Below(r.texts) \/ (Judged(r.texts) = 0 /\ Miscites(r))
        /\ Nothing(r.texts) => v.action = "escalate"
        /\ Below(r.texts) => (v.action = "escalate" \/ v.marks \cap {"caveat", "redacted"} # {})
        BY <1>2, ValidatedFacts, Zenon
  <2>3. Below(r.texts) => SaidNo(HardOf(r.draft.claims), r.contexts)
    <3> SUFFICES ASSUME Below(r.texts) PROVE SaidNo(HardOf(r.draft.claims), r.contexts) OBVIOUS
    <3>1. PICK i \in DOMAIN r.texts : r.texts[i] = "no" BY <1>2, BelowMeansNo
    <3>2. i \in DOMAIN HardOf(r.draft.claims)
          /\ <<Entail(HardOf(r.draft.claims)[i], r.contexts), "no">> \in said
          BY <1>1, <3>1 DEF RequestOK, Backed, DraftClaims
    <3> QED BY <3>2 DEF SaidNo
  <2> HIDE DEF v
  <2> QED BY <2>1, <2>2, <2>3 DEF At
<1>4. CASE r.at # "served"
  <2>1. r.action = Unjudged /\ r.marks = {} BY <1>1, <1>4 DEF RequestOK
  <2> QED BY <1>4, <2>1, GuardAssumption DEF GuardAssumption, At
<1> QED BY <1>3, <1>4

-----------------------------------------------------------------------------
(* The judge: what it keeps was said, and a text it has without a call too. *)
LEMMA JudgeHears ==
    ASSUME JudgeOK, NEW p, NEW text \in AnyText, judge' = Heard(judge, p, text),
           said' = said \union {<<p, text>>}
    PROVE  JudgeOK'
<1> DEFINE cache == [x \in DOMAIN judge.cache \union {p} |->
                       IF x = p THEN text ELSE judge.cache[x]]
<1>1. judge' = [[judge EXCEPT !.cache = cache] EXCEPT !.failures = 0, !.tripped = FALSE]
    BY DEF Heard, RecordSuccess
<1>2. \A x \in DOMAIN cache : /\ cache[x] \in AnyText
                              /\ cache[x] = "no" => <<x, "no">> \in said'
    BY DEF JudgeOK
<1> HIDE DEF cache
<1>3. DOMAIN judge = {"cache", "failures", "tripped"} BY DEF JudgeOK
<1>4. judge' = [cache |-> cache, failures |-> 0, tripped |-> FALSE] BY <1>1, <1>3
<1>5. /\ judge'.cache = cache
      /\ judge' \in [cache : {cache}, failures : Nat, tripped : BOOLEAN]
    BY <1>4
<1> QED BY <1>2, <1>5 DEF JudgeOK

LEMMA JudgeMisses ==
    ASSUME JudgeOK, judge' = RecordFailure(judge), said' = said
    PROVE  JudgeOK'
<1>1. judge'.cache = judge.cache
      /\ judge' \in [cache : {judge.cache}, failures : Nat, tripped : BOOLEAN]
  <2> DEFINE tripped == judge.tripped \/ judge.failures + 1 >= Threshold
  <2>1. DOMAIN judge = {"cache", "failures", "tripped"} /\ judge.failures \in Nat
        BY DEF JudgeOK
  <2>2. judge' = [judge EXCEPT !.failures = judge.failures + 1, !.tripped = tripped]
        BY DEF RecordFailure
  <2>3. tripped \in BOOLEAN BY Zenon
  <2> HIDE DEF tripped
  <2>4. judge' = [cache |-> judge.cache, failures |-> judge.failures + 1, tripped |-> tripped]
        BY <2>1, <2>2
  <2> QED BY <2>1, <2>3, <2>4
<1> QED BY <1>1 DEF JudgeOK

LEMMA JudgeStays ==
    ASSUME JudgeOK, judge' = judge, said' = said
    PROVE  JudgeOK'
BY DEF JudgeOK

LEMMA AtOnceFacts ==
    ASSUME JudgeOK, NEW p, ~NeedsCall(judge, p)
    PROVE  /\ AtOnce(judge, p) \in AnyText
           /\ AtOnce(judge, p) = "no" => <<p, "no">> \in said
<1>1. CASE Available(judge)
  <2>1. p \in DOMAIN judge.cache BY <1>1 DEF NeedsCall, Cached
  <2> QED BY <1>1, <2>1 DEF JudgeOK, AtOnce
<1>2. CASE ~Available(judge)
  <2>1. AtOnce(judge, p) = Unjudged BY <1>2 DEF AtOnce
  <2> QED BY <2>1, GuardAssumption DEF GuardAssumption, AnyText
<1> QED BY <1>1, <1>2

LEMMA RepliesAreTexts ==
    ASSUME NEW p
    PROVE  Replies(p) \subseteq AnyText
BY DEF Replies, AnyText

(* More that was said backs no less.                                       *)
LEMMA MoreHeard ==
    ASSUME NEW r, NEW heard, NEW more, heard \subseteq more, RequestOK(r, heard)
    PROVE  RequestOK(r, more)
BY DEF RequestOK, Backed

(* A request that moves on its own, with the loop free before and after.    *)
LEMMA OneRequest ==
    ASSUME GuardInv, LoopIsFree, NEW q \in Requests, request[q].at # "served",
           NEW r, RequestOK(r, said'), request' = [request EXCEPT ![q] = r],
           said \subseteq said', JudgeOK', UNCHANGED <<loop, rated, misses, restarts>>
    PROVE  GuardInv'
<1> USE DEF GuardInv
<1>1. request'[q] = r /\ \A o \in Requests \ {q} : request'[o] = request[o]
    BY DEF GuardTypeOK
<1>2. \A o \in Requests : RequestOK(request'[o], said') BY <1>1, MoreHeard
<1>3. r \in RequestStates BY DEF RequestOK
<1>4. GuardTypeOK'
  <2>1. request' \in [Requests -> RequestStates] BY <1>3 DEF GuardTypeOK
  <2> QED BY <2>1 DEF GuardTypeOK, JudgeOK
<1>5. LoopOK'
  <2>1. loop' = Free /\ loop'.use = Unjudged BY DEF LoopIsFree, Free
  <2> QED BY <2>1, GuardAssumption DEF LoopOK, GuardAssumption, Free
<1>6. MissesOK'
  <2>1. \A o \in misses : o # q /\ request'[o] = request[o]
        BY <1>1 DEF MissesOK, At, GuardTypeOK
  <2> QED BY <2>1 DEF MissesOK, At, SaidNo
<1> QED BY <1>2, <1>4, <1>5, <1>6

-----------------------------------------------------------------------------
(* The actions.                                                            *)

LEMMA Unasked ==
    ASSUME GuardInv, NEW q \in Requests, request[q].at \in {"new", "draft", "guard", "lost"}
    PROVE  /\ request[q] \in RequestStates /\ request[q].texts = <<>>
           /\ request[q].pending = {}
           /\ request[q].action = Unjudged /\ request[q].marks = {}
<1>1. RequestOK(request[q], said) BY DEF GuardInv
<1>2. request[q].texts = <<>> /\ request[q].action = Unjudged /\ request[q].marks = {}
    BY <1>1 DEF RequestOK
<1>3. DOMAIN <<>> = {} OBVIOUS
<1> QED BY <1>1, <1>2, <1>3 DEF RequestOK

(* A request without texts that is not served is as it should be.          *)
LEMMA BlankOK ==
    ASSUME NEW r \in RequestStates, NEW heard, r.texts = <<>>, r.pending = {}, r.at # "served",
           r.action = Unjudged, r.marks = {}
    PROVE  RequestOK(r, heard)
<1>1. DOMAIN r.texts = {} OBVIOUS
<1> QED BY <1>1 DEF RequestOK, Backed

LEMMA BeginKeeps ==
    ASSUME GuardInv, NEW q \in Requests, Begin(q)
    PROVE  GuardInv'
<1>1. PICK e \in EvidencesFor[q], place \in {"draft", "guard"} :
         request' = [request EXCEPT
              ![q].contexts = PrepareEvidence(e, Budget), ![q].at = place]
    BY DEF Begin
<1> DEFINE kept == PrepareEvidence(e, Budget)
           r == [request[q] EXCEPT !.contexts = kept, !.at = place]
<1>2. kept \in Evidences
  <2>1. e \in Evidences BY GuardAssumption DEF GuardAssumption, Evidences
  <2> QED BY <2>1, EvidenceType
<1>3. place \in {"guard", "draft"} BY <1>1
<1>4. request' = [request EXCEPT ![q] = r] BY <1>1
<1> HIDE DEF kept
<1>5. request[q].at = "new" BY DEF Begin, At
<1>6. /\ request[q] \in RequestStates /\ request[q].texts = <<>> /\ request[q].pending = {}
      /\ request[q].action = Unjudged /\ request[q].marks = {}
    BY <1>5, Unasked
<1>7. /\ r \in RequestStates /\ r.texts = <<>> /\ r.pending = {} /\ r.at # "served"
      /\ r.action = Unjudged /\ r.marks = {}
    BY <1>2, <1>3, <1>6 DEF RequestStates
<1> HIDE DEF r
<1>8. RequestOK(r, said') BY <1>7, BlankOK
<1>9. JudgeOK' BY JudgeStays DEF GuardInv, Begin
<1> QED BY <1>4, <1>5, <1>8, <1>9, OneRequest DEF Begin

LEMMA AttemptFailsKeeps ==
    ASSUME GuardInv, NEW q \in Requests, AttemptFails(q)
    PROVE  GuardInv'
<1> DEFINE r == IF request[q].attempt < MaxAttempts
                THEN [request[q] EXCEPT !.attempt = request[q].attempt + 1]
                ELSE [request[q] EXCEPT !.at = "guard", !.contexts = <<>>, !.attempt = 1]
<1>1. request' = [request EXCEPT ![q] = r]
  <2>1. CASE request[q].attempt < MaxAttempts BY <2>1 DEF AttemptFails
  <2>2. CASE ~(request[q].attempt < MaxAttempts) BY <2>2 DEF AttemptFails
  <2> QED BY <2>1, <2>2
<1>2. request[q].at = "draft" BY DEF AttemptFails, At
<1>3. /\ request[q] \in RequestStates /\ request[q].texts = <<>> /\ request[q].pending = {}
      /\ request[q].action = Unjudged /\ request[q].marks = {}
    BY <1>2, Unasked
<1>4. <<>> \in Evidences BY DEF Evidences
<1>5. /\ r \in RequestStates /\ r.texts = <<>> /\ r.pending = {} /\ r.at # "served"
      /\ r.action = Unjudged /\ r.marks = {}
  <2>1. CASE request[q].attempt < MaxAttempts
    <3>1. r = [request[q] EXCEPT !.attempt = request[q].attempt + 1] BY <2>1
    <3> HIDE DEF r
    <3> QED BY <1>2, <1>3, <3>1 DEF RequestStates
  <2>2. CASE ~(request[q].attempt < MaxAttempts)
    <3>1. r = [request[q] EXCEPT !.at = "guard", !.contexts = <<>>, !.attempt = 1] BY <2>2
    <3> HIDE DEF r
    <3> QED BY <1>2, <1>3, <1>4, <3>1 DEF RequestStates
  <2> QED BY <2>1, <2>2
<1> HIDE DEF r
<1>6. RequestOK(r, said') BY <1>5, BlankOK
<1>7. JudgeOK' BY JudgeStays DEF GuardInv, AttemptFails
<1> QED BY <1>1, <1>2, <1>6, <1>7, OneRequest DEF AttemptFails

LEMMA DraftJudged ==
    ASSUME GuardInv, NEW q \in Requests, Draft(q), request[q].contexts # <<>>
    PROVE  GuardInv'
<1>1. PICK d \in DraftsFor[q] :
         request' = [request EXCEPT ![q] =
            [Gathered(request[q], Prompts(HardOf(d.claims), request[q].contexts)) EXCEPT
                !.at = "ground", !.draft = d, !.attempt = 1]]
    BY DEF Draft
<1>2. d \in Drafts BY GuardAssumption DEF GuardAssumption
<1> DEFINE hard == HardOf(d.claims)
           prompts == Prompts(hard, request[q].contexts)
           texts == IF prompts = <<>> THEN NothingToVerify
                    ELSE [i \in DOMAIN prompts |->
                            IF NeedsCall(judge, prompts[i]) THEN Unjudged
                            ELSE AtOnce(judge, prompts[i])]
           pending == {i \in DOMAIN prompts : NeedsCall(judge, prompts[i])}
           r == [request[q] EXCEPT !.texts = texts, !.pending = pending, !.at = "ground",
                                   !.draft = d, !.attempt = 1]
<1>3. request[q].at = "draft" BY DEF Draft, At
<1>4. /\ request[q] \in RequestStates /\ request[q].action = Unjudged /\ request[q].marks = {}
    BY <1>3, Unasked
<1>5. request' = [request EXCEPT ![q] = r] BY <1>1, <1>4 DEF Gathered, RequestStates
<1>6. hard \in Seq(Claims) BY <1>2, HardType DEF Drafts
<1>7. /\ DOMAIN prompts = 1 .. Len(hard) /\ Len(hard) \in Nat
      /\ \A i \in 1 .. Len(hard) : prompts[i] = Entail(hard[i], request[q].contexts)
  <2> HIDE DEF hard
  <2> QED BY <1>6 DEF Prompts
<1>8. /\ texts \in Seq(AnyText) /\ pending \subseteq DOMAIN texts /\ pending \subseteq 1 .. Len(hard)
      /\ \A i \in DOMAIN texts : texts[i] = "no" =>
            /\ i \in 1 .. Len(hard)
            /\ <<Entail(hard[i], request[q].contexts), "no">> \in said
  <2>1. CASE prompts = <<>>
    <3>1. DOMAIN prompts = {} BY <2>1
    <3>2. texts \in {<<>>, <<"yes">>} BY <2>1 DEF NothingToVerify
    <3>3. "yes" \in AnyText BY DEF AnyText
    <3>4. texts \in Seq(AnyText)
      <4>1. <<>> \in Seq(AnyText) /\ <<"yes">> \in Seq(AnyText) BY <3>3
      <4> HIDE DEF texts
      <4> QED BY <3>2, <4>1
    <3>5. pending = {} BY <3>1
    <3>6. \A i \in DOMAIN texts : texts[i] # "no" BY <3>2
    <3> HIDE DEF texts, pending
    <3> QED BY <3>4, <3>5, <3>6
  <2>2. CASE prompts # <<>>
    <3> HIDE DEF hard, prompts
    <3>1. texts = [i \in 1 .. Len(hard) |-> IF NeedsCall(judge, prompts[i]) THEN Unjudged
                                            ELSE AtOnce(judge, prompts[i])]
          BY <1>7, <2>2
    <3>2. Unjudged \in AnyText /\ Unjudged # "no" BY GuardAssumption DEF GuardAssumption, AnyText
    <3>3. \A i \in 1 .. Len(hard) :
             /\ texts[i] \in AnyText
             /\ texts[i] = "no" => <<prompts[i], "no">> \in said
      <4> SUFFICES ASSUME NEW i \in 1 .. Len(hard)
                   PROVE  /\ texts[i] \in AnyText
                          /\ texts[i] = "no" => <<prompts[i], "no">> \in said
          OBVIOUS
      <4>1. CASE NeedsCall(judge, prompts[i]) BY <3>1, <3>2, <4>1
      <4>2. CASE ~NeedsCall(judge, prompts[i])
        <5>1. texts[i] = AtOnce(judge, prompts[i]) BY <3>1, <4>2
        <5>2. /\ AtOnce(judge, prompts[i]) \in AnyText
              /\ AtOnce(judge, prompts[i]) = "no" => <<prompts[i], "no">> \in said
              BY <4>2, AtOnceFacts DEF GuardInv
        <5> HIDE DEF texts
        <5> QED BY <5>1, <5>2
      <4> QED BY <4>1, <4>2
    <3>4. DOMAIN texts = 1 .. Len(hard) BY <3>1
    <3>5. texts \in Seq(AnyText)
      <4>1. texts = [i \in 1 .. Len(hard) |-> texts[i]] BY <3>1
      <4> HIDE DEF texts
      <4>2. texts \in [1 .. Len(hard) -> AnyText] BY <3>3, <4>1
      <4> QED BY <1>7, <4>2, SeqDef
    <3>6. pending \subseteq 1 .. Len(hard) BY <1>7
    <3> HIDE DEF texts, pending
    <3> QED BY <1>7, <3>3, <3>4, <3>5, <3>6
  <2> QED BY <2>1, <2>2
<1>9. /\ r \in RequestStates /\ r.at = "ground" /\ r.texts = texts /\ r.pending = pending
      /\ r.draft = d /\ r.contexts = request[q].contexts
      /\ r.action = Unjudged /\ r.marks = {}
  <2>1. pending \subseteq Nat BY <1>8
  <2> HIDE DEF texts, pending
  <2> QED BY <1>2, <1>4, <1>8, <2>1 DEF RequestStates
<1>10. DOMAIN hard = 1 .. Len(hard) BY <1>6
<1> HIDE DEF r, texts, pending, hard, prompts
<1>11. RequestOK(r, said)
  <2>1. DraftClaims(r) = hard BY <1>9 DEF DraftClaims, hard
  <2> QED BY <1>8, <1>9, <1>10, <2>1 DEF RequestOK, Backed
<1>12. JudgeOK' BY JudgeStays DEF GuardInv, Draft
<1> QED BY <1>3, <1>5, <1>11, <1>12, OneRequest DEF Draft

\* Without contexts nobody is asked, and the draft goes to the guardrail.
LEMMA DraftUnjudged ==
    ASSUME GuardInv, NEW q \in Requests, Draft(q), request[q].contexts = <<>>
    PROVE  GuardInv'
<1>1. PICK d \in DraftsFor[q] :
         request' = [request EXCEPT ![q].at = "guard", ![q].draft = d, ![q].attempt = 1]
    BY DEF Draft
<1>2. d \in Drafts BY GuardAssumption DEF GuardAssumption
<1> DEFINE r == [request[q] EXCEPT !.at = "guard", !.draft = d, !.attempt = 1]
<1>3. request' = [request EXCEPT ![q] = r] BY <1>1
<1>4. request[q].at = "draft" BY DEF Draft, At
<1>5. /\ request[q] \in RequestStates /\ request[q].texts = <<>> /\ request[q].pending = {}
      /\ request[q].action = Unjudged /\ request[q].marks = {}
    BY <1>4, Unasked
<1>6. /\ r \in RequestStates /\ r.texts = <<>> /\ r.pending = {} /\ r.at # "served"
      /\ r.action = Unjudged /\ r.marks = {}
    BY <1>2, <1>5 DEF RequestStates
<1> HIDE DEF r
<1>7. RequestOK(r, said') BY <1>6, BlankOK
<1>8. JudgeOK' BY JudgeStays DEF GuardInv, Draft
<1> QED BY <1>3, <1>4, <1>7, <1>8, OneRequest DEF Draft

LEMMA DraftKeeps ==
    ASSUME GuardInv, NEW q \in Requests, Draft(q)
    PROVE  GuardInv'
BY DraftJudged, DraftUnjudged

(* The claims of a request at "ground" are a sequence that its texts and    *)
(* its open questions are about.                                           *)
LEMMA Grounded ==
    ASSUME GuardInv, NEW q \in Requests
    PROVE  /\ RequestOK(request[q], said)
           /\ request[q] \in RequestStates
           /\ DraftClaims(request[q]) \in Seq(Claims)
           /\ request[q].pending \subseteq DOMAIN DraftClaims(request[q]) \cap DOMAIN request[q].texts
<1>1. RequestOK(request[q], said) BY DEF GuardInv
<1>2. request[q] \in RequestStates BY <1>1 DEF RequestOK
<1>3. request[q].draft.claims \in Seq(Claims) BY <1>2 DEF RequestStates, Drafts
<1>4. DraftClaims(request[q]) \in Seq(Claims) BY <1>3, HardType DEF DraftClaims
<1> QED BY <1>1, <1>2, <1>4 DEF RequestOK

LEMMA CallFailsKeeps ==
    ASSUME GuardInv, NEW q \in Requests, NEW i, CallFails(q, i)
    PROVE  GuardInv'
<1> DEFINE left == request[q].pending \ {i}
           r == [request[q] EXCEPT !.pending = left]
<1>1. request' = [request EXCEPT ![q] = r] BY DEF CallFails
<1>2. request[q].at = "ground" BY DEF CallFails, At
<1>3. /\ RequestOK(request[q], said) /\ request[q] \in RequestStates
      /\ left \subseteq request[q].pending
    BY Grounded
<1> HIDE DEF left
<1>4. /\ r \in RequestStates /\ r.at = "ground" /\ r.texts = request[q].texts
      /\ r.pending = left /\ r.draft = request[q].draft /\ r.contexts = request[q].contexts
      /\ r.action = request[q].action /\ r.marks = request[q].marks
    BY <1>2, <1>3 DEF RequestStates
<1> HIDE DEF r
<1>5. RequestOK(r, said) BY <1>2, <1>3, <1>4 DEF RequestOK, DraftClaims
<1>6. JudgeOK' BY JudgeMisses DEF GuardInv, CallFails
<1> QED BY <1>1, <1>2, <1>5, <1>6, OneRequest DEF CallFails

LEMMA RepliedKeeps ==
    ASSUME GuardInv, NEW q \in Requests, NEW i, Replied(q, i)
    PROVE  GuardInv'
<1> DEFINE hard == DraftClaims(request[q])
           p == PromptOf(q, i)
<1>1. PICK text \in Replies(p) :
         /\ judge' = Heard(judge, p, text)
         /\ request' = [request EXCEPT ![q].pending = request[q].pending \ {i},
                                       ![q].texts[i] = text]
         /\ said' = said \union {<<p, text>>}
    BY DEF Replied
<1> DEFINE left == request[q].pending \ {i}
           texts == [request[q].texts EXCEPT ![i] = text]
           r == [request[q] EXCEPT !.pending = left, !.texts = texts]
<1>2. /\ RequestOK(request[q], said) /\ request[q] \in RequestStates /\ hard \in Seq(Claims)
      /\ request[q].pending \subseteq DOMAIN hard \cap DOMAIN request[q].texts
    BY Grounded
<1>3. request[q].at = "ground" /\ i \in request[q].pending BY DEF Replied, At
<1>4. i \in DOMAIN hard /\ i \in DOMAIN request[q].texts BY <1>2, <1>3
<1>5. p = Entail(hard[i], request[q].contexts) BY DEF PromptOf, DraftClaims
<1>6. text \in AnyText BY RepliesAreTexts
<1>7. request' = [request EXCEPT ![q] = r] BY <1>1
<1>8. /\ texts \in Seq(AnyText) /\ DOMAIN texts = DOMAIN request[q].texts
      /\ \A j \in DOMAIN texts : texts[j] = IF j = i THEN text ELSE request[q].texts[j]
  <2>1. request[q].texts \in Seq(AnyText) BY <1>2 DEF RequestStates
  <2>2. DOMAIN texts = DOMAIN request[q].texts OBVIOUS
  <2>3. \A j \in DOMAIN texts : texts[j] = IF j = i THEN text ELSE request[q].texts[j] OBVIOUS
  <2>4. texts \in Seq(AnyText) BY <1>4, <1>6, <2>1, ExceptSeq
  <2> QED BY <2>2, <2>3, <2>4
<1>9. left \subseteq request[q].pending /\ left \subseteq Nat BY <1>2 DEF RequestStates
<1> HIDE DEF p, left, texts, hard
<1>10. /\ r \in RequestStates /\ r.at = "ground" /\ r.texts = texts
       /\ r.pending = left /\ r.draft = request[q].draft /\ r.contexts = request[q].contexts
       /\ r.action = request[q].action /\ r.marks = request[q].marks
    BY <1>2, <1>3, <1>8, <1>9 DEF RequestStates
<1>11. DraftClaims(r) = hard
  <2> HIDE DEF r
  <2> QED BY <1>10 DEF DraftClaims, hard
<1> HIDE DEF r
<1>12. Backed(hard, r.contexts, texts, said')
  <2> SUFFICES ASSUME NEW j \in DOMAIN texts, texts[j] = "no"
               PROVE  /\ j \in DOMAIN hard
                      /\ <<Entail(hard[j], r.contexts), "no">> \in said'
      BY DEF Backed
  <2>1. CASE j = i BY <1>1, <1>4, <1>5, <1>8, <1>10, <2>1
  <2>2. CASE j # i
    <3>1. j \in DOMAIN request[q].texts /\ request[q].texts[j] = "no" BY <1>8, <2>2
    <3>2. Backed(hard, request[q].contexts, request[q].texts, said)
          BY <1>2 DEF RequestOK, hard
    <3> QED BY <1>1, <1>10, <3>1, <3>2 DEF Backed
  <2> QED BY <2>1, <2>2
<1>13. RequestOK(r, said')
  <2>1. r.action = Unjudged /\ r.marks = {} BY <1>2, <1>3, <1>10 DEF RequestOK
  <2> QED BY <1>2, <1>8, <1>9, <1>10, <1>11, <1>12, <2>1 DEF RequestOK
<1>14. JudgeOK' BY <1>1, <1>6, JudgeHears DEF GuardInv
<1>15. said \subseteq said' BY <1>1
<1> QED BY <1>3, <1>7, <1>13, <1>14, <1>15, OneRequest DEF Replied

(* A request is served with texts of its claims.                           *)
LEMMA ServedOK ==
    ASSUME GuardInv, NEW q \in Requests, NEW texts \in Seq(AnyText),
           request[q].pending = {}, Backed(DraftClaims(request[q]), request[q].contexts, texts, said)
    PROVE  /\ RequestOK(Served(request[q], texts), said)
           /\ Served(request[q], texts).at = "served"
           /\ Served(request[q], texts).draft = request[q].draft
           /\ Served(request[q], texts).contexts = request[q].contexts
<1> DEFINE v == Validated(request[q], texts)
           r == Served(request[q], texts)
<1>1. request[q] \in RequestStates BY Grounded
<1>2. request[q].draft \in Drafts BY <1>1 DEF RequestStates
<1>3. v.action \in {"allow", "sanitize", "escalate"}
      /\ v.marks \subseteq {"caveat", "disclaimer", "hint", "redacted"}
    BY <1>2, ValidatedFacts, Zenon
<1>4. r = [request[q] EXCEPT !.at = "served", !.texts = texts, !.action = v.action,
                             !.marks = v.marks]
    BY DEF Served
<1> HIDE DEF v, r
<1>5. /\ r \in RequestStates /\ r.at = "served" /\ r.texts = texts
      /\ r.pending = {} /\ r.draft = request[q].draft /\ r.contexts = request[q].contexts
      /\ r.action = v.action /\ r.marks = v.marks
    BY <1>1, <1>3, <1>4 DEF RequestStates
<1>6. DraftClaims(r) = DraftClaims(request[q]) BY <1>5 DEF DraftClaims
<1>7. v = Validated(r, texts) BY <1>5 DEF v, Validated, Hallucination, Miscites
<1>8. RequestOK(r, said) BY <1>5, <1>6, <1>7 DEF RequestOK
<1> QED BY <1>5, <1>8 DEF r

LEMMA GuardKeeps ==
    ASSUME GuardInv, NEW q \in Requests, Guard(q)
    PROVE  GuardInv'
<1> DEFINE r == Served(request[q], request[q].texts)
<1>1. request' = [request EXCEPT ![q] = r] BY DEF Guard
<1>2. RequestOK(request[q], said) /\ request[q] \in RequestStates BY Grounded
<1>3. request[q].pending = {}
  <2>1. CASE At(q, {"guard"}) BY <2>1, Unasked DEF At
  <2>2. CASE ~At(q, {"guard"}) BY <2>2 DEF Guard
  <2> QED BY <2>1, <2>2
<1>4. request[q].at # "served" BY DEF Guard, At
<1>5. /\ Backed(DraftClaims(request[q]), request[q].contexts, request[q].texts, said)
      /\ request[q].texts \in Seq(AnyText)
    BY <1>2 DEF RequestOK, RequestStates
<1>6. RequestOK(r, said) BY <1>3, <1>5, ServedOK
<1> HIDE DEF r
<1>7. JudgeOK' BY JudgeStays DEF GuardInv, Guard
<1> QED BY <1>1, <1>4, <1>6, <1>7, OneRequest DEF Guard

-----------------------------------------------------------------------------
(* What the event loop asks for without letting anybody else run.          *)

LEMMA PromptsType ==
    ASSUME NEW claims \in Seq(Claims), NEW contexts \in Evidences
    PROVE  /\ Prompts(claims, contexts) \in Seq(AnyPrompt)
           /\ Len(Prompts(claims, contexts)) = Len(claims)
           /\ \A i \in 1 .. Len(claims) :
                 Prompts(claims, contexts)[i] = Entail(claims[i], contexts)
<1>1. Prompts(claims, contexts) = [i \in 1 .. Len(claims) |-> Entail(claims[i], contexts)]
    BY DEF Prompts
<1>2. \A i \in 1 .. Len(claims) : Entail(claims[i], contexts) \in AnyPrompt
  <2> SUFFICES ASSUME NEW i \in 1 .. Len(claims)
               PROVE  Entail(claims[i], contexts) \in AnyPrompt
      OBVIOUS
  <2>1. claims[i] \in Claims OBVIOUS
  <2>2. Entail(claims[i], contexts) \in {Entail(c, e) : c \in Claims, e \in Evidences}
        BY <2>1
  <2> QED BY <2>2 DEF AnyPrompt
<1>3. Prompts(claims, contexts) \in [1 .. Len(claims) -> AnyPrompt] BY <1>1, <1>2
<1>4. Len(claims) \in Nat OBVIOUS
<1>5. Prompts(claims, contexts) \in Seq(AnyPrompt) BY <1>3, <1>4, SeqDef
<1>6. DOMAIN Prompts(claims, contexts) = 1 .. Len(claims) BY <1>1
<1>7. Len(Prompts(claims, contexts)) = Len(claims)
  <2> HIDE DEF AnyPrompt
  <2> DEFINE prompts == Prompts(claims, contexts)
  <2> HIDE DEF prompts
  <2>1. prompts \in Seq(AnyPrompt) /\ DOMAIN prompts = 1 .. Len(claims) BY <1>5, <1>6 DEF prompts
  <2>2. Len(prompts) = Len(claims) BY <1>4, <2>1
  <2> QED BY <2>2 DEF prompts
<1> QED BY <1>1, <1>5, <1>7

LEMMA ServedClaimsType ==
    ASSUME NEW r \in RequestStates
    PROVE  ServedClaims(r) \in Seq(Claims)
<1>1. r.draft.claims \in Seq(Claims) BY DEF RequestStates, Drafts
<1>2. \A mark \in {"caveat", "disclaimer", "hint"} : Appended(r, mark) \in Seq(Claims)
    BY GuardAssumption DEF GuardAssumption, Appended
<1> QED BY <1>1, <1>2, ConcatProperties DEF ServedClaims

LEMMA SameSum ==
    \A a \in Nat, b \in Nat \ {0}, c \in Nat : c <= a + b => c <= (a + 1) + (b - 1)
OBVIOUS

(* The loop's next text, with what was said before it was given.           *)
LEMMA AsksGoesOn ==
    ASSUME NEW claims \in Seq(Claims), NEW contexts, NEW text,
           loop.texts \in Seq(AnyText), loop.todo \in Seq(AnyPrompt), loop.todo # <<>>,
           Asks(loop, claims, contexts, said), said \subseteq said',
           text = "no" => <<Head(loop.todo), "no">> \in said',
           loop'.texts = Append(loop.texts, text), loop'.todo = Tail(loop.todo)
    PROVE  /\ Asks(loop', claims, contexts, said')
           /\ Len(loop'.texts) = Len(loop.texts) + 1 /\ Len(loop'.todo) = Len(loop.todo) - 1
<1> HIDE DEF AnyPrompt, AnyText
<1>1. Len(loop.texts) \in Nat /\ Len(loop.todo) \in Nat \ {0} /\ Len(claims) \in Nat OBVIOUS
<1>2. /\ Len(loop'.texts) = Len(loop.texts) + 1 /\ DOMAIN loop'.texts = 1 .. Len(loop.texts) + 1
      /\ \A i \in 1 .. Len(loop.texts) : loop'.texts[i] = loop.texts[i]
      /\ loop'.texts[Len(loop.texts) + 1] = text
    OBVIOUS
<1>3. /\ Len(loop'.todo) = Len(loop.todo) - 1
      /\ \A j \in 1 .. Len(loop'.todo) : loop'.todo[j] = loop.todo[j + 1]
      /\ Head(loop.todo) = loop.todo[1]
    OBVIOUS
<1>4. ASSUME NEW i \in DOMAIN loop'.texts \cap DOMAIN claims, loop'.texts[i] = "no"
      PROVE  <<Entail(claims[i], contexts), "no">> \in said'
  <2>1. CASE i = Len(loop.texts) + 1
    <3>1. text = "no" BY <1>2, <1>4, <2>1
    <3>2. <<loop.todo[1], "no">> \in said' BY <1>3, <3>1
    <3>3. Len(loop.texts) + 1 <= Len(claims) BY <2>1
    <3>4. loop.todo[1] = Entail(claims[Len(loop.texts) + 1], contexts)
          BY <1>1, <3>3 DEF Asks
    <3> QED BY <2>1, <3>2, <3>4
  <2>2. CASE i # Len(loop.texts) + 1
    <3>1. i \in 1 .. Len(loop.texts) BY <1>1, <1>2, <2>2
    <3>2. loop.texts[i] = "no" /\ i \in DOMAIN loop.texts \cap DOMAIN claims BY <1>2, <1>4, <3>1
    <3> QED BY <3>2 DEF Asks
  <2> QED BY <2>1, <2>2
<1>5. ASSUME NEW j \in 1 .. Len(loop'.todo), Len(loop'.texts) + j <= Len(claims)
      PROVE  loop'.todo[j] = Entail(claims[Len(loop'.texts) + j], contexts)
  <2>1. j + 1 \in 1 .. Len(loop.todo) BY <1>1, <1>3
  <2> DEFINE a == Len(loop.texts)
             b == Len(loop'.texts)
             c == Len(claims)
  <2>a. a \in Nat /\ c \in Nat /\ j \in Nat /\ b = a + 1 /\ b + j <= c
        BY <1>1, <1>2, <1>5
  <2>b. a + (j + 1) <= c /\ a + (j + 1) = b + j
    <3> HIDE DEF a, b, c
    <3> QED BY <2>a
  <2>2. Len(loop.texts) + (j + 1) <= Len(claims) /\ Len(loop.texts) + (j + 1) = Len(loop'.texts) + j
        BY <2>b
  <2> HIDE DEF a, b, c
  <2>3. loop.todo[j + 1] = Entail(claims[Len(loop.texts) + (j + 1)], contexts) BY <2>1, <2>2 DEF Asks
  <2>4. loop'.todo[j] = loop.todo[j + 1] BY <1>3
  <2>5. claims[Len(loop.texts) + (j + 1)] = claims[Len(loop'.texts) + j] BY <2>2
  <2> QED BY <2>3, <2>4, <2>5
<1>6. Len(claims) <= Len(loop'.texts) + Len(loop'.todo)
  <2>1. Len(claims) <= Len(loop.texts) + Len(loop.todo) BY DEF Asks
  <2>2. Len(loop'.texts) = Len(loop.texts) + 1 /\ Len(loop'.todo) = Len(loop.todo) - 1 BY <1>2, <1>3
  <2>3. Len(claims) <= (Len(loop.texts) + 1) + (Len(loop.todo) - 1) BY <1>1, <2>1, SameSum, Zenon
  <2> QED BY <2>2, <2>3, Zenon
<1> QED BY <1>2, <1>3, <1>4, <1>5, <1>6 DEF Asks

(* The loop goes on while every request stays where it is.                 *)
LEMMA LoopMoves ==
    ASSUME GuardInv, UNCHANGED <<request, restarts>>, rated' \subseteq Requests,
           misses' \subseteq Requests, said \subseteq said', JudgeOK', MissesOK',
           loop' \in [for : Requests \union {Unjudged}, use : {Unjudged, "guard", "rate"},
                      todo : Seq(AnyPrompt), texts : Seq(AnyText)],
           LoopOK'
    PROVE  GuardInv'
<1>1. GuardTypeOK' BY DEF GuardInv, GuardTypeOK, JudgeOK
<1>2. \A o \in Requests : RequestOK(request'[o], said') BY MoreHeard DEF GuardInv
<1> QED BY <1>1, <1>2 DEF GuardInv

LEMMA MissesStay ==
    ASSUME MissesOK, UNCHANGED <<request, misses>>, said \subseteq said'
    PROVE  MissesOK'
BY DEF MissesOK, SaidNo, At

LEMMA FreeIsOK ==
    ASSUME loop' = Free
    PROVE  /\ loop' \in [for : Requests \union {Unjudged}, use : {Unjudged, "guard", "rate"},
                         todo : Seq(AnyPrompt), texts : Seq(AnyText)]
           /\ LoopOK'
<1>1. loop'.use = Unjudged BY DEF Free
<1>2. <<>> \in Seq(AnyPrompt) /\ <<>> \in Seq(AnyText) OBVIOUS
<1> QED BY <1>1, <1>2, GuardAssumption DEF GuardAssumption, LoopOK, Free

LEMMA GuardAgainKeeps ==
    ASSUME GuardInv, NEW q \in Requests, GuardAgain(q)
    PROVE  GuardInv'
<1> DEFINE hard == DraftClaims(request[q])
           texts == IF hard = <<>> THEN NothingToVerify ELSE <<>>
           todo == Prompts(hard, request[q].contexts)
<1>1. loop' = [for |-> q, use |-> "guard", todo |-> todo, texts |-> texts]
    BY DEF GuardAgain, Free, DraftClaims
<1>2. At(q, {"ground"}) /\ request[q].pending = {} BY DEF GuardAgain
<1>3. /\ request[q] \in RequestStates /\ hard \in Seq(Claims) BY Grounded
<1>4. request[q].contexts \in Evidences BY <1>3 DEF RequestStates
<1> HIDE DEF hard
<1>5. /\ todo \in Seq(AnyPrompt) /\ Len(todo) = Len(hard)
      /\ \A i \in 1 .. Len(hard) : todo[i] = Entail(hard[i], request[q].contexts)
    BY <1>3, <1>4, PromptsType
<1>6. /\ texts \in Seq(AnyText)
      /\ IF hard = <<>> THEN texts \in {<<>>, <<"yes">>} ELSE texts = <<>>
  <2>1. <<>> \in Seq(AnyText) /\ <<"yes">> \in Seq(AnyText)
    <3>1. "yes" \in AnyText BY DEF AnyText
    <3> QED BY <3>1
  <2>2. NothingToVerify \in {<<>>, <<"yes">>} BY DEF NothingToVerify
  <2> QED BY <2>1, <2>2
<1> HIDE DEF todo, texts
<1>7. /\ loop'.for = q /\ loop'.use = "guard" /\ loop'.todo = todo /\ loop'.texts = texts BY <1>1
<1>8. Asks(loop', hard, request[q].contexts, said)
  <2>1. CASE hard = <<>>
    <3>1. DOMAIN hard = {} /\ Len(hard) = 0 /\ Len(todo) = 0 BY <1>5, <2>1
    <3>2. Len(texts) \in Nat BY <1>6
    <3> QED BY <1>7, <3>1, <3>2 DEF Asks
  <2>2. CASE hard # <<>>
    <3>1. texts = <<>> /\ Len(texts) = 0 /\ DOMAIN texts = {} BY <1>6, <2>2
    <3>2. Len(hard) \in Nat BY <1>3
    <3> QED BY <1>5, <1>7, <3>1, <3>2 DEF Asks
  <2> QED BY <2>1, <2>2
<1>9. IF hard = <<>> THEN todo = <<>> /\ texts \in {<<>>, <<"yes">>}
      ELSE Len(texts) + Len(todo) = Len(hard)
  <2>1. CASE hard = <<>>
    <3> HIDE DEF AnyPrompt
    <3>1. Len(todo) = 0 BY <1>5, <2>1
    <3>2. todo = <<>> BY <1>5, <3>1, EmptySeq
    <3> QED BY <1>6, <2>1, <3>2
  <2>2. CASE hard # <<>>
    <3>1. Len(texts) = 0 /\ Len(hard) \in Nat BY <1>3, <1>6, <2>2
    <3> QED BY <1>5, <2>2, <3>1
  <2> QED BY <2>1, <2>2
<1>10. UNCHANGED <<judge, request, rated, misses, said, restarts>> BY DEF GuardAgain
<1>11. LoopOK'
  <2>1. loop'.use # Unjudged /\ loop'.use # "rate"
        BY <1>7, GuardAssumption DEF GuardAssumption
  <2>2. DraftClaims(request[q])' = hard BY <1>10 DEF hard, DraftClaims
  <2> QED BY <1>2, <1>7, <1>8, <1>9, <1>10, <2>1, <2>2 DEF LoopOK, At
<1>12. loop' \in [for : Requests \union {Unjudged}, use : {Unjudged, "guard", "rate"},
                  todo : Seq(AnyPrompt), texts : Seq(AnyText)]
    BY <1>1, <1>5, <1>6
<1>13. JudgeOK' BY <1>10, JudgeStays DEF GuardInv
<1>14. MissesOK' BY <1>10, MissesStay DEF GuardInv
<1> QED BY <1>10, <1>11, <1>12, <1>13, <1>14, LoopMoves DEF GuardInv, GuardTypeOK

LEMMA GuardEndsKeeps ==
    ASSUME GuardInv, GuardEnds
    PROVE  GuardInv'
<1> DEFINE q == loop.for
           hard == DraftClaims(request[q])
           r == Served(request[q], loop.texts)
<1>1. /\ q \in Requests /\ request[q].at = "ground" /\ request[q].pending = {}
      /\ Asks(loop, hard, request[q].contexts, said)
      /\ IF hard = <<>> THEN loop.todo = <<>> /\ loop.texts \in {<<>>, <<"yes">>}
         ELSE Len(loop.texts) + Len(loop.todo) = Len(hard)
    BY DEF GuardEnds, GuardInv, LoopOK, At
<1>2. loop.todo = <<>> /\ loop.texts \in Seq(AnyText)
    BY DEF GuardEnds, GuardInv, GuardTypeOK
<1>3. /\ RequestOK(request[q], said) /\ request[q] \in RequestStates /\ hard \in Seq(Claims)
    BY <1>1, Grounded
<1>4. Backed(hard, request[q].contexts, loop.texts, said)
  <2>1. CASE hard = <<>>
    <3>1. \A i \in DOMAIN loop.texts : loop.texts[i] # "no"
      <4>1. CASE loop.texts = <<>> BY <4>1
      <4>2. CASE loop.texts = <<"yes">> BY <4>2
      <4> QED BY <1>1, <2>1, <4>1, <4>2
    <3> QED BY <3>1 DEF Backed
  <2>2. CASE hard # <<>>
    <3> HIDE DEF hard, q, AnyText
    <3>1. Len(loop.texts) = Len(hard) BY <1>1, <1>2, <2>2
    <3>2. DOMAIN loop.texts = DOMAIN hard BY <1>2, <1>3, <3>1
    <3> QED BY <1>1, <3>2 DEF Asks, Backed
  <2> QED BY <2>1, <2>2
<1>5. request' = [request EXCEPT ![q] = r] /\ UNCHANGED <<judge, rated, misses, said, restarts>>
    BY DEF GuardEnds
<1>6. loop' = Free BY DEF GuardEnds
<1> HIDE DEF q
<1>7. RequestOK(r, said) /\ r.at = "served"
    BY <1>1, <1>2, <1>4, ServedOK
<1> HIDE DEF r, hard
<1>8. request'[q] = r /\ \A o \in Requests \ {q} : request'[o] = request[o]
    BY <1>1, <1>5 DEF GuardInv, GuardTypeOK
<1>9. \A o \in Requests : RequestOK(request'[o], said') BY <1>5, <1>7, <1>8 DEF GuardInv
<1>10. JudgeOK' BY <1>5, JudgeStays DEF GuardInv
<1>11. LoopOK' /\ loop' \in [for : Requests \union {Unjudged}, use : {Unjudged, "guard", "rate"},
                             todo : Seq(AnyPrompt), texts : Seq(AnyText)]
    BY <1>6, FreeIsOK
<1>12. GuardTypeOK'
  <2>1. r \in RequestStates BY <1>7 DEF RequestOK
  <2>2. request' \in [Requests -> RequestStates] BY <1>5, <2>1 DEF GuardInv, GuardTypeOK
  <2> QED BY <1>5, <1>10, <1>11, <2>2 DEF GuardInv, GuardTypeOK, JudgeOK
<1>13. MissesOK'
  <2>1. \A o \in misses : o # q /\ request'[o] = request[o]
        BY <1>1, <1>8 DEF GuardInv, GuardTypeOK, MissesOK, At
  <2> QED BY <1>5, <2>1 DEF GuardInv, MissesOK, SaidNo, At
<1> QED BY <1>9, <1>10, <1>11, <1>12, <1>13 DEF GuardInv

LEMMA AskKeeps ==
    ASSUME GuardInv, Ask
    PROVE  GuardInv'
<1> DEFINE p == Head(loop.todo)
           Next1(text) == [loop EXCEPT !.todo = Tail(loop.todo), !.texts = Append(loop.texts, text)]
<1>1. \E text \in AnyText :
         /\ loop' = Next1(text) /\ JudgeOK' /\ said \subseteq said'
         /\ text = "no" => <<p, "no">> \in said'
  <2>1. CASE /\ ~NeedsCall(judge, p) /\ loop' = Next1(AtOnce(judge, p))
             /\ UNCHANGED <<judge, said>>
    <3>1. /\ AtOnce(judge, p) \in AnyText
          /\ AtOnce(judge, p) = "no" => <<p, "no">> \in said
          BY <2>1, AtOnceFacts DEF GuardInv
    <3>2. JudgeOK' BY <2>1, JudgeStays DEF GuardInv
    <3> HIDE DEF Next1, p
    <3> QED BY <2>1, <3>1, <3>2
  <2>2. CASE \E text \in Replies(p) : /\ judge' = Heard(judge, p, text)
                                      /\ said' = said \union {<<p, text>>}
                                      /\ loop' = Next1(text)
    <3>1. PICK text \in Replies(p) : /\ judge' = Heard(judge, p, text)
                                     /\ said' = said \union {<<p, text>>}
                                     /\ loop' = Next1(text)
          BY <2>2
    <3> HIDE DEF Next1, p
    <3>2. text \in AnyText BY RepliesAreTexts
    <3>3. JudgeOK' BY <3>1, <3>2, JudgeHears DEF GuardInv
    <3> QED BY <3>1, <3>2, <3>3
  <2>3. CASE judge' = RecordFailure(judge) /\ loop' = Next1(Unjudged) /\ UNCHANGED said
    <3>1. Unjudged \in AnyText /\ Unjudged # "no"
          BY GuardAssumption DEF GuardAssumption, AnyText
    <3>2. JudgeOK' BY <2>3, JudgeMisses DEF GuardInv
    <3> HIDE DEF Next1, p
    <3> QED BY <2>3, <3>1, <3>2
  <2> QED BY <2>1, <2>2, <2>3 DEF Ask
<1>2. PICK text \in AnyText :
         /\ loop' = Next1(text) /\ JudgeOK' /\ said \subseteq said'
         /\ text = "no" => <<p, "no">> \in said'
    BY <1>1
<1>3. /\ loop \in [for : Requests \union {Unjudged}, use : {Unjudged, "guard", "rate"},
                   todo : Seq(AnyPrompt), texts : Seq(AnyText)]
      /\ loop.todo # <<>>
    BY DEF Ask, GuardInv, GuardTypeOK
<1> HIDE DEF AnyPrompt, AnyText
<1>4. /\ loop'.todo = Tail(loop.todo) /\ loop'.texts = Append(loop.texts, text)
      /\ loop'.for = loop.for /\ loop'.use = loop.use
    BY <1>2, <1>3
<1>5. /\ Tail(loop.todo) \in Seq(AnyPrompt) /\ Append(loop.texts, text) \in Seq(AnyText)
    BY <1>3
<1>6. loop' \in [for : Requests \union {Unjudged}, use : {Unjudged, "guard", "rate"},
                 todo : Seq(AnyPrompt), texts : Seq(AnyText)]
    BY <1>2, <1>3, <1>5
<1>7. UNCHANGED <<request, rated, misses, restarts>> BY DEF Ask
<1>8. ASSUME NEW claims \in Seq(Claims), NEW contexts, Asks(loop, claims, contexts, said)
      PROVE  /\ Asks(loop', claims, contexts, said')
             /\ Len(loop'.texts) = Len(loop.texts) + 1 /\ Len(loop'.todo) = Len(loop.todo) - 1
  <2> HIDE DEF p, Next1
  <2>1. text = "no" => <<Head(loop.todo), "no">> \in said' BY <1>2 DEF p
  <2>2. loop.texts \in Seq(AnyText) /\ loop.todo \in Seq(AnyPrompt) BY <1>3
  <2>3. said \subseteq said' /\ loop.todo # <<>> BY <1>2, <1>3
  <2>4. loop'.texts = Append(loop.texts, text) /\ loop'.todo = Tail(loop.todo) BY <1>4
  <2> QED BY <1>8, <2>1, <2>2, <2>3, <2>4, AsksGoesOn
<1>9. LoopOK'
  <2>1. CASE loop.use = "guard"
    <3> DEFINE q == loop.for
               hard == DraftClaims(request[q])
    <3>1. /\ q \in Requests /\ At(q, {"ground"}) /\ request[q].pending = {}
          /\ Asks(loop, hard, request[q].contexts, said)
          /\ IF hard = <<>> THEN loop.todo = <<>> /\ loop.texts \in {<<>>, <<"yes">>}
             ELSE Len(loop.texts) + Len(loop.todo) = Len(hard)
          BY <2>1 DEF GuardInv, LoopOK
    <3>2. hard \in Seq(Claims) BY <3>1, Grounded
    <3>3. hard # <<>> /\ Len(loop.texts) + Len(loop.todo) = Len(hard) BY <1>3, <3>1
    <3> HIDE DEF hard, q
    <3>4. /\ Asks(loop', hard, request[q].contexts, said')
          /\ Len(loop'.texts) = Len(loop.texts) + 1 /\ Len(loop'.todo) = Len(loop.todo) - 1
          BY <1>8, <3>1, <3>2
    <3>5. Len(loop'.texts) + Len(loop'.todo) = Len(hard)
          BY <1>3, <3>3, <3>4
    <3>6. DraftClaims(request[loop.for])' = hard /\ loop'.for = q
          BY <1>4, <1>7 DEF hard, q, DraftClaims
    <3>7. loop'.use # Unjudged /\ loop'.use # "rate" /\ loop'.use = "guard"
          BY <1>4, <2>1, GuardAssumption DEF GuardAssumption
    <3> QED BY <1>7, <3>1, <3>3, <3>4, <3>5, <3>6, <3>7 DEF LoopOK, At
  <2>2. CASE loop.use = "rate"
    <3> DEFINE q == loop.for
               claims == ServedClaims(request[q])
    <3>1. /\ q \in Requests /\ At(q, {"served"})
          /\ request[q].contexts # <<>> => Asks(loop, claims, request[q].contexts, said)
          BY <2>2 DEF GuardInv, LoopOK
    <3>2. claims \in Seq(Claims) BY <3>1, Grounded, ServedClaimsType
    <3> HIDE DEF claims, q
    <3>3. request[q].contexts # <<>> => Asks(loop', claims, request[q].contexts, said')
          BY <1>8, <3>1, <3>2
    <3>4. ServedClaims(request[loop.for])' = claims /\ loop'.for = q
          BY <1>4, <1>7 DEF claims, q, ServedClaims, Appended
    <3>5. loop'.use # Unjudged /\ loop'.use # "guard" /\ loop'.use = "rate"
          BY <1>4, <2>2, GuardAssumption DEF GuardAssumption
    <3> QED BY <1>7, <3>1, <3>3, <3>4, <3>5 DEF LoopOK, At
  <2>3. CASE loop.use = Unjudged
    <3>1. loop = Free BY <2>3 DEF GuardInv, LoopOK
    <3> QED BY <1>3, <3>1 DEF Free
  <2> QED BY <1>3, <2>1, <2>2, <2>3
<1>10. MissesOK' BY <1>2, <1>7, MissesStay DEF GuardInv
<1>11. JudgeOK' /\ said \subseteq said' BY <1>2
<1>12. rated' \subseteq Requests /\ misses' \subseteq Requests BY <1>7 DEF GuardInv, GuardTypeOK
<1> QED BY <1>6, <1>7, <1>9, <1>10, <1>11, <1>12, LoopMoves

(* What the judge is asked about a rated answer: first for each claim of it. *)
LEMMA EvaluationStarts ==
    ASSUME NEW q \in Requests, NEW correction \in BOOLEAN, request[q] \in RequestStates
    PROVE  /\ EvaluationOf(q, correction) \in Seq(AnyPrompt)
           /\ request[q].contexts # <<>> =>
                /\ Len(ServedClaims(request[q])) <= Len(EvaluationOf(q, correction))
                /\ \A j \in 1 .. Len(ServedClaims(request[q])) :
                      EvaluationOf(q, correction)[j] =
                         Entail(ServedClaims(request[q])[j], request[q].contexts)
<1> DEFINE contexts == request[q].contexts
           claims == ServedClaims(request[q])
           hard == HardOf(claims)
           all == claims \o hard
           faithful == Prompts(all, contexts)
           first == IF contexts = <<>> THEN <<>> ELSE faithful
           second == <<ReverseQuestion(q)>>
           third == [i \in DOMAIN contexts |-> Relevant(q, contexts[i])]
           fourth == IF correction /\ contexts # <<>>
                     THEN Prompts(CorrectionClaims, contexts) ELSE <<>>
<1>1. contexts \in Evidences BY DEF RequestStates
<1>2. claims \in Seq(Claims) BY ServedClaimsType
<1>3. hard \in Seq(Claims) BY <1>2, HardType
<1>4. EvaluationOf(q, correction) = ((first \o second) \o third) \o fourth BY DEF EvaluationOf
<1> HIDE DEF claims, hard
<1>5. all \in Seq(Claims) /\ Len(all) = Len(claims) + Len(hard)
      /\ \A j \in 1 .. Len(claims) : all[j] = claims[j]
    BY <1>2, <1>3
<1> HIDE DEF all
<1>6. /\ faithful \in Seq(AnyPrompt) /\ Len(faithful) = Len(all)
      /\ \A j \in 1 .. Len(all) : faithful[j] = Entail(all[j], contexts)
    BY <1>1, <1>5, PromptsType
<1>7. second \in Seq(AnyPrompt)
  <2>1. ReverseQuestion(q) \in {ReverseQuestion(o) : o \in Requests} OBVIOUS
  <2>2. ReverseQuestion(q) \in AnyPrompt BY <2>1 DEF AnyPrompt
  <2> HIDE DEF AnyPrompt
  <2> QED BY <2>2
<1>8. third \in Seq(AnyPrompt)
  <2>1. contexts \in Seq(DOMAIN SizeOf) BY <1>1 DEF Evidences
  <2> DEFINE D == DOMAIN SizeOf
  <2>2. ASSUME NEW i \in 1 .. Len(contexts) PROVE Relevant(q, contexts[i]) \in AnyPrompt
    <3> HIDE DEF D
    <3>1. contexts[i] \in D BY <2>1 DEF D
    <3>2. Relevant(q, contexts[i]) \in {Relevant(o, d) : o \in Requests, d \in D} BY <3>1
    <3> QED BY <3>2 DEF AnyPrompt, D
  <2> HIDE DEF AnyPrompt
  <2>3. third = [i \in 1 .. Len(contexts) |-> Relevant(q, contexts[i])] BY <2>1
  <2>4. third \in [1 .. Len(contexts) -> AnyPrompt] BY <2>2, <2>3
  <2>5. Len(contexts) \in Nat BY <2>1
  <2> QED BY <2>4, <2>5, SeqDef
<1>9. fourth \in Seq(AnyPrompt)
  <2>1. Prompts(CorrectionClaims, contexts) \in Seq(AnyPrompt)
        BY <1>1, GuardAssumption, PromptsType DEF GuardAssumption
  <2> HIDE DEF AnyPrompt
  <2> QED BY <2>1
<1>10. first \in Seq(AnyPrompt) BY <1>6
<1> HIDE DEF AnyPrompt, first, second, third, fourth, faithful
<1>11. first \o second \in Seq(AnyPrompt) BY <1>7, <1>10
<1>12. (first \o second) \o third \in Seq(AnyPrompt) BY <1>8, <1>11
<1>13. EvaluationOf(q, correction) \in Seq(AnyPrompt) BY <1>4, <1>9, <1>12
<1>14. /\ Len(first) <= Len(EvaluationOf(q, correction))
       /\ \A j \in 1 .. Len(first) : EvaluationOf(q, correction)[j] = first[j]
  <2>1. /\ Len(first) <= Len(first \o second)
        /\ \A j \in 1 .. Len(first) : (first \o second)[j] = first[j]
        BY <1>7, <1>10
  <2>2. /\ Len(first \o second) <= Len((first \o second) \o third)
        /\ \A j \in 1 .. Len(first \o second) :
              ((first \o second) \o third)[j] = (first \o second)[j]
        BY <1>8, <1>11
  <2>3. /\ Len((first \o second) \o third) <= Len(((first \o second) \o third) \o fourth)
        /\ \A j \in 1 .. Len((first \o second) \o third) :
              (((first \o second) \o third) \o fourth)[j] = ((first \o second) \o third)[j]
        BY <1>9, <1>12
  <2>4. /\ Len(first) \in Nat /\ Len(first \o second) \in Nat
        /\ Len((first \o second) \o third) \in Nat
        /\ Len(EvaluationOf(q, correction)) \in Nat
        BY <1>10, <1>11, <1>12, <1>13
  <2> DEFINE f == first
             fs == first \o second
             fst == (first \o second) \o third
             e == EvaluationOf(q, correction)
  <2>5. e = fst \o fourth BY <1>4
  <2>6. /\ Len(f) <= Len(fs) /\ \A j \in 1 .. Len(f) : fs[j] = f[j]
        /\ Len(fs) <= Len(fst) /\ \A j \in 1 .. Len(fs) : fst[j] = fs[j]
        /\ Len(fst) <= Len(e) /\ \A j \in 1 .. Len(fst) : e[j] = fst[j]
        /\ Len(f) \in Nat /\ Len(fs) \in Nat /\ Len(fst) \in Nat /\ Len(e) \in Nat
        BY <2>1, <2>2, <2>3, <2>4, <2>5, Zenon
  <2> HIDE DEF f, fs, fst, e
  <2>7. Len(f) <= Len(e) /\ \A j \in 1 .. Len(f) : e[j] = f[j]
    <3>1. ASSUME NEW j \in 1 .. Len(f) PROVE e[j] = f[j]
      <4>1. j \in 1 .. Len(fs) /\ j \in 1 .. Len(fst) BY <2>6
      <4> QED BY <2>6, <4>1
    <3> QED BY <2>6, <3>1
  <2> QED BY <2>7 DEF f, e
<1>15. ASSUME contexts # <<>>
       PROVE  /\ Len(claims) <= Len(EvaluationOf(q, correction))
              /\ \A j \in 1 .. Len(claims) :
                    EvaluationOf(q, correction)[j] = Entail(claims[j], contexts)
  <2> DEFINE e == EvaluationOf(q, correction)
  <2>1. first = faithful BY <1>15 DEF first
  <2>2. Len(claims) \in Nat /\ Len(hard) \in Nat BY <1>2, <1>3
  <2>3. /\ Len(first) <= Len(e) /\ \A j \in 1 .. Len(first) : e[j] = first[j]
        /\ Len(e) \in Nat
        BY <1>13, <1>14
  <2> HIDE DEF e
  <2>4. Len(first) = Len(claims) + Len(hard) BY <1>5, <1>6, <2>1
  <2>5. Len(claims) <= Len(e) BY <2>2, <2>3, <2>4
  <2>6. ASSUME NEW j \in 1 .. Len(claims) PROVE e[j] = Entail(claims[j], contexts)
    <3>1. j \in 1 .. Len(first) BY <2>2, <2>4
    <3>2. e[j] = first[j] BY <2>3, <3>1
    <3>3. first[j] = Entail(all[j], contexts) BY <1>5, <1>6, <2>1, <2>4, <3>1
    <3>4. all[j] = claims[j] BY <1>5
    <3> QED BY <3>2, <3>3, <3>4
  <2> QED BY <2>5, <2>6 DEF e
<1> QED BY <1>13, <1>15 DEF claims

LEMMA RateKeeps ==
    ASSUME GuardInv, NEW q \in Requests, Rate(q)
    PROVE  GuardInv'
<1>1. UNCHANGED <<judge, request, misses, said, restarts>> /\ rated' \subseteq Requests
      /\ At(q, {"served"})
    BY DEF Rate, GuardInv, GuardTypeOK
<1>2. JudgeOK' /\ MissesOK' BY <1>1, JudgeStays, MissesStay DEF GuardInv
<1>3. misses' \subseteq Requests BY <1>1 DEF GuardInv, GuardTypeOK
<1>4. /\ loop' \in [for : Requests \union {Unjudged}, use : {Unjudged, "guard", "rate"},
                    todo : Seq(AnyPrompt), texts : Seq(AnyText)]
      /\ LoopOK'
  <2>1. CASE loop' = loop
    <3>1. loop' = Free BY <2>1 DEF Rate, LoopIsFree
    <3> QED BY <3>1, FreeIsOK
  <2>2. CASE \E correction \in BOOLEAN :
                loop' = [Free EXCEPT !.for = q, !.use = "rate",
                                     !.todo = EvaluationOf(q, correction)]
    <3>1. PICK correction \in BOOLEAN :
                loop' = [Free EXCEPT !.for = q, !.use = "rate",
                                     !.todo = EvaluationOf(q, correction)]
          BY <2>2
    <3> DEFINE todo == EvaluationOf(q, correction)
               claims == ServedClaims(request[q])
               contexts == request[q].contexts
    <3>2. loop' = [for |-> q, use |-> "rate", todo |-> todo, texts |-> <<>>] BY <3>1 DEF Free
    <3>3. request[q] \in RequestStates BY Grounded
    <3>4. /\ todo \in Seq(AnyPrompt)
          /\ contexts # <<>> =>
                /\ Len(claims) <= Len(todo)
                /\ \A j \in 1 .. Len(claims) : todo[j] = Entail(claims[j], contexts)
          BY <3>3, EvaluationStarts
    <3>5. claims \in Seq(Claims) BY <3>3, ServedClaimsType
    <3> HIDE DEF todo, claims, AnyPrompt
    <3>6. loop' \in [for : Requests \union {Unjudged}, use : {Unjudged, "guard", "rate"},
                     todo : Seq(AnyPrompt), texts : Seq(AnyText)]
          BY <3>2, <3>4
    <3>7. loop'.for = q /\ loop'.use = "rate" /\ loop'.todo = todo /\ loop'.texts = <<>>
          BY <3>2
    <3>8. contexts # <<>> => Asks(loop', claims, contexts, said)
      <4> SUFFICES ASSUME contexts # <<>> PROVE Asks(loop', claims, contexts, said) OBVIOUS
      <4>1. Len(loop'.texts) = 0 /\ DOMAIN loop'.texts = {} BY <3>7
      <4>2. Len(claims) \in Nat /\ Len(todo) \in Nat BY <3>4, <3>5
      <4>3. ASSUME NEW j \in 1 .. Len(loop'.todo), Len(loop'.texts) + j <= Len(claims)
            PROVE  loop'.todo[j] = Entail(claims[Len(loop'.texts) + j], contexts)
        <5>1. Len(loop'.texts) + j = j BY <4>1
        <5>2. j \in 1 .. Len(claims) BY <4>2, <4>3, <5>1
        <5>3. todo[j] = Entail(claims[j], contexts) BY <3>4, <5>2
        <5> QED BY <3>7, <5>1, <5>3
      <4>4. Len(claims) <= Len(loop'.texts) + Len(loop'.todo) BY <3>4, <3>7, <4>1, <4>2
      <4> QED BY <4>1, <4>3, <4>4 DEF Asks
    <3>9. ServedClaims(request[q])' = claims /\ request'[q].contexts = contexts
          BY <1>1 DEF claims, ServedClaims, Appended
    <3>10. loop'.use # Unjudged /\ loop'.use # "guard"
          BY <3>7, GuardAssumption DEF GuardAssumption
    <3>11. LoopOK' BY <1>1, <3>7, <3>8, <3>9, <3>10 DEF LoopOK, At
    <3> QED BY <3>6, <3>11
  <2> QED BY <2>1, <2>2 DEF Rate
<1> QED BY <1>1, <1>2, <1>3, <1>4, LoopMoves

LEMMA RateEndsKeeps ==
    ASSUME GuardInv, RateEnds
    PROVE  GuardInv'
<1> DEFINE q == loop.for
           claims == ServedClaims(request[q])
           contexts == request[q].contexts
<1>1. /\ q \in Requests /\ At(q, {"served"})
      /\ contexts # <<>> => Asks(loop, claims, contexts, said)
    BY DEF RateEnds, GuardInv, LoopOK
<1>2. loop.todo = <<>> /\ loop.texts \in Seq(AnyText) BY DEF RateEnds, GuardInv, GuardTypeOK
<1>3. UNCHANGED <<judge, request, rated, said, restarts>> /\ loop' = Free BY DEF RateEnds
<1>4. claims \in Seq(Claims) BY <1>1, Grounded, ServedClaimsType
<1>5. contexts # <<>> /\ Below(FaithTexts) => SaidNo(claims, contexts)
  <2> SUFFICES ASSUME contexts # <<>>, Below(FaithTexts) PROVE SaidNo(claims, contexts) OBVIOUS
  <2> DEFINE faith == SubSeq(loop.texts, 1, Len(claims))
  <2>1. FaithTexts = faith BY DEF FaithTexts
  <2> HIDE DEF claims, AnyText, q
  <2>2. Len(claims) \in Nat /\ Len(loop.texts) \in Nat /\ Len(claims) <= Len(loop.texts)
        BY <1>1, <1>2, <1>4 DEF Asks
  <2>3. /\ faith \in Seq(AnyText) /\ Len(faith) = Len(claims)
        /\ \A i \in 1 .. Len(claims) : faith[i] = loop.texts[i]
        BY <1>2, <2>2
  <2> HIDE DEF faith
  <2>4. PICK i \in DOMAIN faith : faith[i] = "no" BY <2>1, <2>3, BelowMeansNo
  <2>5. i \in 1 .. Len(claims) BY <2>3, <2>4
  <2>6. loop.texts[i] = "no" BY <2>3, <2>4, <2>5
  <2>7. i \in DOMAIN loop.texts /\ i \in DOMAIN claims BY <1>2, <1>4, <2>2, <2>5
  <2>8. <<Entail(claims[i], contexts), "no">> \in said BY <1>1, <2>6, <2>7 DEF Asks
  <2> QED BY <2>7, <2>8 DEF SaidNo
<1>6. misses' \subseteq Requests
    BY <1>1 DEF RateEnds, GuardInv, GuardTypeOK
<1>7. MissesOK'
  <2>1. \A o \in misses : At(o, {"served"}) /\ SaidNo(ServedClaims(request[o]), request[o].contexts)
        BY DEF GuardInv, MissesOK
  <2>2. \A o \in misses' : At(o, {"served"}) /\ SaidNo(ServedClaims(request[o]), request[o].contexts)
    <3>1. CASE contexts # <<>> /\ Below(FaithTexts)
      <4>1. misses' = misses \union {q} BY <3>1 DEF RateEnds
      <4>2. At(q, {"served"}) /\ SaidNo(ServedClaims(request[q]), request[q].contexts)
            BY <1>1, <1>5, <3>1
      <4> HIDE DEF q
      <4> QED BY <2>1, <4>1, <4>2
    <3>2. CASE ~(contexts # <<>> /\ Below(FaithTexts))
      <4>1. misses' = misses BY <3>2 DEF RateEnds
      <4> QED BY <2>1, <4>1
    <3> QED BY <3>1, <3>2
  <2> QED BY <1>3, <2>2 DEF MissesOK, At, SaidNo, ServedClaims, Appended
<1>8. JudgeOK' BY <1>3, JudgeStays DEF GuardInv
<1>9. /\ loop' \in [for : Requests \union {Unjudged}, use : {Unjudged, "guard", "rate"},
                    todo : Seq(AnyPrompt), texts : Seq(AnyText)]
      /\ LoopOK'
    BY <1>3, FreeIsOK
<1>10. rated' \subseteq Requests /\ said \subseteq said' BY <1>3 DEF GuardInv, GuardTypeOK
<1> QED BY <1>3, <1>6, <1>7, <1>8, <1>9, <1>10, LoopMoves

LEMMA RestartKeeps ==
    ASSUME GuardInv, GuardRestart
    PROVE  GuardInv'
<1> DEFINE stopped == [NewRequest EXCEPT !.at = "lost"]
<1>1. /\ judge' = Reopened(judge) /\ loop' = Free
      /\ UNCHANGED <<rated, misses, said>> /\ restarts' \in Nat
    BY DEF GuardRestart, GuardInv, GuardTypeOK
<1>2. request' = [q \in Requests |->
          IF At(q, {"new", "served"}) THEN request[q] ELSE stopped]
    BY DEF GuardRestart
<1>3. RequestOK(stopped, said)
  <2>1. /\ NewRequest \in RequestStates /\ NewRequest.texts = <<>> /\ NewRequest.pending = {}
        /\ NewRequest.action = Unjudged /\ NewRequest.marks = {}
        BY NewIsBlank
  <2>4. stopped \in RequestStates BY <2>1 DEF RequestStates
  <2>5. stopped.texts = <<>> /\ stopped.pending = {} /\ stopped.at # "served"
        /\ stopped.action = Unjudged /\ stopped.marks = {}
        BY <2>1 DEF RequestStates
  <2> HIDE DEF stopped
  <2> QED BY <2>4, <2>5, BlankOK
<1> HIDE DEF stopped
<1>4. \A q \in Requests : RequestOK(request'[q], said')
  <2> SUFFICES ASSUME NEW q \in Requests PROVE RequestOK(request'[q], said') OBVIOUS
  <2>1. request'[q] = request[q] \/ request'[q] = stopped BY <1>2
  <2>2. said' = said BY <1>1
  <2>3. RequestOK(request[q], said) BY DEF GuardInv
  <2>4. RequestOK(request'[q], said) BY <1>3, <2>1, <2>3
  <2> QED BY <2>2, <2>4
<1>5. request' \in [Requests -> RequestStates]
  <2>1. \A q \in Requests : request'[q] \in RequestStates BY <1>4 DEF RequestOK
  <2> QED BY <1>2, <2>1
<1>6. JudgeOK'
  <2>1. judge' = [cache |-> judge.cache, failures |-> 0, tripped |-> FALSE]
        BY <1>1 DEF Reopened, NewJudge
  <2>2. judge'.cache = judge.cache
        /\ judge' \in [cache : {judge.cache}, failures : Nat, tripped : BOOLEAN]
        BY <2>1
  <2> QED BY <1>1, <2>2 DEF JudgeOK, GuardInv
<1>7. /\ loop' \in [for : Requests \union {Unjudged}, use : {Unjudged, "guard", "rate"},
                    todo : Seq(AnyPrompt), texts : Seq(AnyText)]
      /\ LoopOK'
    BY <1>1, FreeIsOK
<1>8. MissesOK'
  <2>1. \A q \in misses : q \in Requests /\ At(q, {"served"}) BY DEF GuardInv, GuardTypeOK, MissesOK
  <2>2. \A q \in misses : request'[q] = request[q] BY <1>2, <2>1 DEF At
  <2> QED BY <1>1, <2>2 DEF GuardInv, MissesOK, SaidNo, At
<1>9. GuardTypeOK'
  <2>1. rated' \subseteq Requests /\ misses' \subseteq Requests
        BY <1>1 DEF GuardInv, GuardTypeOK
  <2> QED BY <1>1, <1>5, <1>6, <1>7, <2>1 DEF GuardTypeOK, JudgeOK
<1> QED BY <1>4, <1>6, <1>7, <1>8, <1>9 DEF GuardInv

LEMMA GuardStep == GuardInv /\ [GuardNext]_guardVars => GuardInv'
<1> SUFFICES ASSUME GuardInv, [GuardNext]_guardVars PROVE GuardInv' OBVIOUS
<1>1. CASE \E q \in Requests : Begin(q) \/ Answer(q) \/ Judge(q) \/ Rate(q)
  <2>1. PICK q \in Requests : Begin(q) \/ Answer(q) \/ Judge(q) \/ Rate(q) BY <1>1
  <2>2. CASE Begin(q) BY <2>2, BeginKeeps
  <2>3. CASE Draft(q) BY <2>3, DraftKeeps
  <2>4. CASE AttemptFails(q) BY <2>4, AttemptFailsKeeps
  <2>5. CASE Guard(q) BY <2>5, GuardKeeps
  <2>6. CASE GuardAgain(q) BY <2>6, GuardAgainKeeps
  <2>7. ASSUME NEW i, Replied(q, i) PROVE GuardInv' BY <2>7, RepliedKeeps
  <2>8. ASSUME NEW i, CallFails(q, i) PROVE GuardInv' BY <2>8, CallFailsKeeps
  <2>9. CASE Rate(q) BY <2>9, RateKeeps
  <2> QED BY <2>1, <2>2, <2>3, <2>4, <2>5, <2>6, <2>7, <2>8, <2>9 DEF Answer, Judge
<1>2. CASE Ask BY <1>2, AskKeeps
<1>3. CASE GuardEnds BY <1>3, GuardEndsKeeps
<1>4. CASE RateEnds BY <1>4, RateEndsKeeps
<1>5. CASE GuardRestart BY <1>5, RestartKeeps
<1>6. CASE UNCHANGED guardVars
  <2>1. UNCHANGED <<judge, request, loop, rated, misses, said, restarts>>
        BY <1>6 DEF guardVars
  <2>2. GuardTypeOK' BY <2>1 DEF GuardInv, GuardTypeOK
  <2>3. \A q \in Requests : RequestOK(request'[q], said') BY <2>1 DEF GuardInv
  <2>4. LoopOK'
    <3>1. LoopOK BY DEF GuardInv
    <3> QED BY <2>1, <3>1 DEF LoopOK, At
  <2>5. JudgeOK' BY <2>1, JudgeStays DEF GuardInv
  <2>6. MissesOK' BY <2>1, MissesStay DEF GuardInv
  <2> QED BY <2>2, <2>3, <2>4, <2>5, <2>6 DEF GuardInv
<1> QED BY <1>1, <1>2, <1>3, <1>4, <1>5, <1>6 DEF GuardNext, Blocking

(* In every reachable state the texts of a request are about its claims,   *)
(* the loop's answers are in the order of what it asks, and every "no" in  *)
(* the texts, in the cache and behind a miss was said by the model of that *)
(* claim on those contexts (judge.py, output_guardrails.py, flywheel.py).  *)
THEOREM GuardInvariant == GuardSpec => []GuardInv
BY GuardBegins, GuardStep, PTL DEF GuardSpec

(* An escalation, a caveat or a recorded miss goes back to a claim of that *)
(* very answer the model denied, or to a source that nobody handed over,   *)
(* for any requests, evidence, drafts and threshold of the judge.          *)
THEOREM NoFalseAlarmHolds == GuardSpec => []NoFalseAlarm
<1>1. ASSUME GuardInv PROVE NoFalseAlarm
  <2> SUFFICES ASSUME NEW q \in Requests
               PROVE  /\ (request[q].action = "escalate" \/ "caveat" \in request[q].marks) =>
                            \/ SaidNo(HardOf(request[q].draft.claims), request[q].contexts)
                            \/ /\ Judged(request[q].texts) = 0
                               /\ Miscites(request[q])
                      /\ q \in misses => SaidNo(ServedClaims(request[q]), request[q].contexts)
      BY Zenon DEF NoFalseAlarm
  <2>1. q \in misses => SaidNo(ServedClaims(request[q]), request[q].contexts)
        BY <1>1 DEF GuardInv, MissesOK
  <2> QED BY <1>1, <2>1, RequestOKMeans, Zenon
<1> QED BY <1>1, GuardInvariant, PTL

(* What an escalation says is not taken back by what is found after it, and *)
(* an answer whose claims mostly fail never goes out unmarked, for any     *)
(* requests, evidence, drafts and threshold of the judge.                  *)
THEOREM EscalationSurvivesAlways == GuardSpec => []EscalationSurvives
<1>1. ASSUME GuardInv PROVE EscalationSurvives
  <2> SUFFICES ASSUME NEW q \in Requests, At(q, {"served"})
               PROVE  /\ Nothing(request[q].texts) => request[q].action = "escalate"
                      /\ Below(request[q].texts) =>
                            \/ request[q].action = "escalate"
                            \/ request[q].marks \cap {"caveat", "redacted"} # {}
      BY Zenon DEF EscalationSurvives
  <2> QED BY <1>1, RequestOKMeans, Zenon
<1> QED BY <1>1, GuardInvariant, PTL

-----------------------------------------------------------------------------
(***************************************************************************)
(* AgentLoop, for every number of documents, facets, overlapping runs,     *)
(* rewrites, requests and restarts: LoopInv is inductive, and each of the  *)
(* four properties the runs check follows.                                 *)
(***************************************************************************)
USE DEF Facets

-----------------------------------------------------------------------------
(* What one retrieval may leave in the channels.                           *)
Outcome == [covers : SUBSET Facets, prob : Scores \union {None},
            verdict : Verdicts \union {None}]

LEMMA LeastFacet ==
    ASSUME NEW F, F \subseteq Facets, F # {}
    PROVE  (CHOOSE f \in F : \A g \in F : f <= g) \in Facets
<1>1. \E f \in F : \A g \in F : ~(<<g, f>> \in OpToRel(<, Nat))
  <2>1. F \subseteq Nat BY WorkflowAssumption
  <2>2. QED BY <2>1, NatLessThanWellFounded, WFMin, Zenon
<1>2. \E f \in F : \A g \in F : f <= g
  <2>1. PICK f \in F : \A g \in F : ~(<<g, f>> \in OpToRel(<, Nat)) BY <1>1, Zenon
  <2>0. F \subseteq Nat BY WorkflowAssumption
  <2>2. \A g \in F : ~(g < f) BY <2>0, <2>1, Zenon DEF OpToRel
  <2>3. \A g \in F : f <= g BY <2>0, <2>2
  <2>4. QED BY <2>3
<1>3. QED BY <1>2

(* Every copy that select_evidence keeps is a copy for one of the facets.  *)
LEMMA RetrieveOnceCovers ==
    ASSUME NEW docs \in RetrieveOnce
    PROVE  Covered(docs) \subseteq Facets
<1>1. PICK answer \in [Facets -> Answers] : docs \in SelectEvidence(answer)
      BY DEF RetrieveOnce
<1>2. PICK slot \in SlotsOf(answer) :
        docs = {[doc |-> d, facet |-> KeptFor(answer, slot, d),
                 score |-> answer[KeptFor(answer, slot, d)][d]] :
                d \in UNION {DOMAIN answer[f] : f \in Facets}}
      BY <1>1 DEF SelectEvidence
<1>3. ASSUME NEW d \in UNION {DOMAIN answer[f] : f \in Facets}
      PROVE  KeptFor(answer, slot, d) \in Facets
  <2> DEFINE facets == IF \E f \in Facets : slot[f] = d
                       THEN {f \in Facets : slot[f] = d}
                       ELSE {f \in Facets : d \in DOMAIN answer[f]}
  <2>1. facets \subseteq Facets /\ facets # {} OBVIOUS
  <2>2. (CHOOSE f \in facets : \A g \in facets : f <= g) \in Facets
        BY <2>1, LeastFacet
  <2>3. QED BY <2>2 DEF KeptFor
<1>4. QED BY <1>2, <1>3 DEF Covered

LEMMA FilterKeeps ==
    ASSUME NEW docs, NEW kept \in FilterByRerankScore(docs)
    PROVE  kept \subseteq docs
BY DEF FilterByRerankScore

LEMMA PublishedType ==
    ASSUME NEW docs, Covered(docs) \subseteq Facets,
           NEW verdict \in Verdicts \union {None}
    PROVE  Published(docs, verdict) \subseteq {o \in Outcome : o.verdict = verdict}
<1>1. SUFFICES ASSUME NEW kept \in FilterByRerankScore(docs)
               PROVE  /\ Covered(kept) \in SUBSET Facets
                      /\ MaxRerankProb(kept) \in Scores \union {None}
      BY DEF Published, Outcome
<1>2. Covered(kept) \subseteq Covered(docs) BY FilterKeeps DEF Covered
<1>3. MaxRerankProb(kept) \in Scores \union {None} BY DEF MaxRerankProb, Scores
<1>4. QED BY <1>2, <1>3

LEMMA EvaluateType ==
    ASSUME NEW docs
    PROVE  EvaluateEvidence(docs) \in Verdicts
BY DEF EvaluateEvidence, Verdicts

LEMMA WorkflowOutcomesType == WorkflowOutcomes \subseteq {o \in Outcome : o.verdict # None}
<1>1. ASSUME NEW w \in WorkflowResults
      PROVE  Covered(w.docs) \subseteq Facets /\ w.verdict \in Verdicts
  <2>1. CASE \E first \in RetrieveOnce, second \in RetrieveOnce :
                w = [docs |-> Corrected(first, second),
                     verdict |-> EvaluateEvidence(Corrected(first, second))]
    <3>1. PICK first \in RetrieveOnce, second \in RetrieveOnce :
                w = [docs |-> Corrected(first, second),
                     verdict |-> EvaluateEvidence(Corrected(first, second))]
          BY <2>1
    <3>2. Corrected(first, second) \in RetrieveOnce BY DEF Corrected
    <3>3. QED BY <3>1, <3>2, RetrieveOnceCovers, EvaluateType
  <2>2. CASE \E docs \in RetrieveOnce : w = [docs |-> docs, verdict |-> "empty"]
        BY <2>2, RetrieveOnceCovers DEF Verdicts
  <2>3. QED BY <2>1, <2>2 DEF WorkflowResults
<1>2. \A w \in WorkflowResults : w.verdict # None
      BY <1>1, WorkflowAssumption DEF Verdicts
<1>3. \A w \in WorkflowResults :
        Published(w.docs, w.verdict) \subseteq {o \in Outcome : o.verdict = w.verdict}
      BY <1>1, PublishedType
<1>4. QED BY <1>2, <1>3 DEF WorkflowOutcomes

LEMMA PlainOutcomesType == PlainOutcomes \subseteq Outcome
BY RetrieveOnceCovers, PublishedType DEF PlainOutcomes

LEMMA OutcomesType ==
    ASSUME workflow \in BOOLEAN, NEW o \in Outcomes
    PROVE  o \in Outcome /\ (workflow => o.verdict # None)
BY WorkflowOutcomesType, PlainOutcomesType DEF Outcomes

-----------------------------------------------------------------------------
(* The part of LoopInv that speaks of one run alone.                       *)
RunInv(r) ==
    LET ch == run[r].ch IN
    /\ run[r].at = "done" =>
         /\ ch.fallback <=> run[r].outcome = "misrouted"
         /\ ch.cited # {} =>
              /\ run[r].outcome = "answer"
              /\ ch.cited \subseteq ch.covers /\ ch.evidenceOf = Attempt(r)
    /\ run[r].outcome \in {"answer", "recalled"} =>
         /\ ch.covers # {} /\ ch.evidenceOf = Attempt(r)
         /\ workflow => ch.verdict = "accept" /\ ch.verdictOf = Attempt(r)
         /\ ch.cited \subseteq ch.covers
         /\ ch.cited = {} <=> run[r].outcome = "recalled"
    /\ run[r].steps <= StepsAt(run[r].at, ch.rewrites)
    /\ run[r].at = "rewrite" => ch.rewrites < MaxRewrites
    /\ run[r].outcome # None => run[r].at = "done"
    /\ run[r].at # "done" => ~ch.fallback /\ ch.cited = {}
    /\ ch.covers # {} => ch.evidenceOf = Attempt(r)
    /\ ch.covers # {} /\ workflow => ch.verdict # None /\ ch.verdictOf = Attempt(r)

\* An answer cites some of what was found, and nothing else cites anything.
Cites(outcome, cited, covers) ==
    /\ cited \subseteq covers
    /\ cited # {} <=> outcome = "answer"

LEMMA LoopInvByRun == LoopInv <=> TypeOK /\ \A r \in Runs : RunInv(r)
BY DEF LoopInv, RunInv, ResponseIsOwn, AnswerIsGrounded

LEMMA LoopInvByRunNext == LoopInv' <=> TypeOK' /\ \A r \in Runs : RunInv(r)'
BY DEF LoopInv, RunInv, ResponseIsOwn, AnswerIsGrounded

USE DEF RunOutcomes, Places

LEMMA NoRunHolds ==
    ASSUME NEW r \in Runs, run[r] = NoRun
    PROVE  RunInv(r)
BY LoopAssumption, WorkflowAssumption
   DEF RunInv, NoRun, EmptyChannels, StepsAt, Attempt, NoAttempt

LEMMA ChannelsType ==
    /\ EmptyChannels \in Channels
    /\ NoRun \in [at : Places, request : Nat, attempts : Nat, steps : Nat,
                  outcome : RunOutcomes \union {None}, ch : Channels]
BY LoopAssumption DEF EmptyChannels, NoRun, NoAttempt, Channels

(* A run keeps its part when neither it nor the switch changes.            *)
LEMMA OtherRuns ==
    ASSUME NEW r \in Runs, RunInv(r), run'[r] = run[r], workflow' = workflow
    PROVE  RunInv(r)'
BY DEF RunInv, Attempt, StepsAt

LEMMA InitLoop == Init => LoopInv
<1>1. ASSUME Init PROVE TypeOK
      BY <1>1, ChannelsType DEF Init, TypeOK
<1>2. ASSUME Init, NEW r \in Runs PROVE RunInv(r)
      BY <1>2, NoRunHolds DEF Init
<1>3. QED BY <1>1, <1>2, LoopInvByRun

-----------------------------------------------------------------------------
(* Steps that change one run: it is enough to look at this run, its        *)
(* channels and the checkpoint.                                            *)
LEMMA OneRun ==
    ASSUME LoopInv, NEW r \in Runs, NEW next,
           next \in [at : Places, request : Nat, attempts : Nat, steps : Nat,
                     outcome : RunOutcomes \union {None}, ch : Channels],
           run' = [run EXCEPT ![r] = next],
           workflow' = workflow, saved' \in Channels,
           requests' \in Nat, crashes' = crashes,
           RunInv(r)'
    PROVE  LoopInv'
<1>1. TypeOK' BY LoopInvByRun DEF TypeOK
<1>2. ASSUME NEW s \in Runs PROVE RunInv(s)'
  <2>1. CASE s = r BY <2>1
  <2>2. CASE s # r
    <3>1. run'[s] = run[s] BY <2>2, LoopInvByRun DEF TypeOK
    <3>2. QED BY <3>1, OtherRuns, LoopInvByRun
  <2>3. QED BY <2>1, <2>2
<1>3. QED BY <1>1, <1>2, LoopInvByRunNext

RunType == [at : Places, request : Nat, attempts : Nat, steps : Nat,
            outcome : RunOutcomes \union {None}, ch : Channels]

LEMMA Counters ==
    ASSUME TypeOK, NEW r \in Runs
    PROVE  /\ NextStep(r) \in Nat /\ NextAttempt(r) \in Nat
           /\ NextStep(r) <= run[r].steps + 1
           /\ run[r] \in RunType
BY LoopAssumption DEF TypeOK, NextStep, NextAttempt, Saturate, RunType

LEMMA StartInv ==
    ASSUME LoopInv, NEW r \in Runs, Start(r)
    PROVE  LoopInv'
<1>1. TypeOK BY LoopInvByRun
<1>2. PICK sure \in BOOLEAN :
        /\ run' = [run EXCEPT ![r] = [NoRun EXCEPT !.at = "agent",
                       !.request = requests + 1, !.ch = RequestChannels(sure)]]
        /\ saved' = RequestChannels(sure)
      BY DEF Start
<1> DEFINE next == [NoRun EXCEPT !.at = "agent", !.request = requests + 1,
                                 !.ch = RequestChannels(sure)]
<1>3. RequestChannels(sure) \in Channels
      BY <1>1, ChannelsType DEF RequestChannels, TypeOK, Channels
<1>4. next \in RunType
  <2>1. NoRun \in RunType BY ChannelsType DEF RunType
  <2>2. requests + 1 \in Nat BY <1>1 DEF TypeOK
  <2>3. QED BY <1>3, <2>1, <2>2 DEF RunType
<1>5. run'[r] = next BY <1>1, <1>2 DEF TypeOK
<1>6. RunInv(r)'
  <2>1. /\ run'[r].at = "agent" /\ run'[r].outcome = None /\ run'[r].steps = 0
        /\ run'[r].ch = RequestChannels(sure)
        BY <1>5 DEF NoRun
  <2>2. /\ RequestChannels(sure).rewrites = 0 /\ RequestChannels(sure).covers = {}
        /\ RequestChannels(sure).fallback = FALSE /\ RequestChannels(sure).cited = {}
        BY DEF RequestChannels, EmptyChannels
  <2>3. QED BY <2>1, <2>2, LoopAssumption DEF RunInv, StepsAt
<1>7. workflow' = workflow /\ requests' \in Nat /\ crashes' = crashes
      BY <1>1 DEF Start, TypeOK
<1>8. QED BY <1>2, <1>3, <1>4, <1>6, <1>7, OneRun DEF RunType

(* A superstep that leaves the run going.                                  *)
LEMMA SuperstepInv ==
    ASSUME LoopInv, NEW r \in Runs, NEW place \in {"agent", "retrieve", "rewrite", "generate"},
           NEW ch \in Channels, Superstep(r, place, ch),
           run[r].at \in {"agent", "grade", "rewrite"},
           ch = [run[r].ch EXCEPT !.rewrites = ch.rewrites],
           run[r].steps + 1 <= StepsAt(place, ch.rewrites),
           place = "rewrite" => ch.rewrites < MaxRewrites
    PROVE  LoopInv'
<1>1. TypeOK /\ RunInv(r) BY LoopInvByRun
<1> DEFINE next == [run[r] EXCEPT !.at = place, !.ch = ch, !.steps = NextStep(r)]
<1>2. run' = [run EXCEPT ![r] = next] BY <1>1 DEF Superstep, TypeOK
<1>3. next \in RunType BY <1>1, Counters DEF RunType
<1>4. run'[r] = next BY <1>1, <1>2 DEF TypeOK
<1>5. run[r].outcome = None BY <1>1 DEF RunInv
<1>6. NextStep(r) <= StepsAt(place, ch.rewrites)
  <2>1. StepsAt(place, ch.rewrites) \in Nat BY DEF StepsAt, Channels
  <2>2. run[r].steps \in Nat BY <1>1 DEF TypeOK
  <2>3. QED BY <1>1, <2>1, <2>2, Counters
<1>7. next.at = place /\ next.ch = ch /\ next.steps = NextStep(r) /\ next.outcome = None
      /\ next.request = run[r].request /\ next.attempts = run[r].attempts
      BY <1>1, <1>5, Counters DEF RunType
<1>8. workflow' = workflow BY DEF Superstep
<1>9. /\ ch.covers = run[r].ch.covers /\ ch.evidenceOf = run[r].ch.evidenceOf
      /\ ch.verdict = run[r].ch.verdict /\ ch.verdictOf = run[r].ch.verdictOf
      /\ ch.fallback = run[r].ch.fallback /\ ch.cited = run[r].ch.cited
      BY <1>1 DEF TypeOK, Channels
<1>10. RunInv(r)'
      BY <1>1, <1>4, <1>5, <1>6, <1>7, <1>8, <1>9, LoopAssumption DEF RunInv, Attempt
<1>11. QED
      BY <1>1, <1>2, <1>3, <1>8, <1>10, OneRun DEF Superstep, RunType, TypeOK

(* A step that changes nothing but run r, its channels and the checkpoint. *)
LEMMA RunStep ==
    ASSUME LoopInv, NEW r \in Runs, NEW next \in RunType,
           run' = [run EXCEPT ![r] = next],
           UNCHANGED <<workflow, requests, crashes>>, saved' \in Channels,
           run'[r] = next => RunInv(r)'
    PROVE  LoopInv'
<1>1. TypeOK BY LoopInvByRun
<1>2. run'[r] = next BY <1>1 DEF TypeOK
<1>3. QED BY <1>1, <1>2, OneRun DEF RunType, TypeOK

(* A run that is over, for the reader or for good.                         *)
LEMMA RunOver ==
    ASSUME LoopInv, NEW r \in Runs, run' = [run EXCEPT ![r] = NoRun],
           UNCHANGED <<workflow, saved, requests, crashes>>
    PROVE  LoopInv'
<1>1. TypeOK BY LoopInvByRun
<1>2. run'[r] = NoRun => RunInv(r)'
      BY LoopAssumption, WorkflowAssumption DEF RunInv, NoRun, EmptyChannels, StepsAt
<1>3. QED BY <1>1, <1>2, ChannelsType, RunStep DEF RunType, TypeOK

(* A run that ends with outcome and the channels ch.                       *)
LEMMA RunEnds ==
    ASSUME LoopInv, NEW r \in Runs, NEW outcome \in RunOutcomes, NEW ch \in Channels,
           run[r].at \in {"agent", "generate"},
           run' = [run EXCEPT ![r].at = "done", ![r].steps = NextStep(r),
                              ![r].outcome = outcome, ![r].ch = ch],
           saved' = ch, UNCHANGED <<workflow, requests, crashes>>,
           ch = [run[r].ch EXCEPT !.fallback = (outcome = "misrouted"), !.cited = ch.cited],
           Cites(outcome, ch.cited, ch.covers),
           outcome \in {"answer", "recalled"} =>
               /\ ch.covers # {} /\ run[r].at = "generate"
               /\ workflow => ch.verdict = "accept"
    PROVE  LoopInv'
<1>1. TypeOK /\ RunInv(r) BY LoopInvByRun
<1> DEFINE next == [run[r] EXCEPT !.at = "done", !.steps = NextStep(r),
                                  !.outcome = outcome, !.ch = ch]
<1>2. run' = [run EXCEPT ![r] = next] BY <1>1 DEF TypeOK
<1>3. next \in RunType BY <1>1, Counters DEF RunType
<1>4. /\ next.at = "done" /\ next.ch = ch /\ next.steps = NextStep(r)
      /\ next.outcome = outcome /\ next.request = run[r].request
      /\ next.attempts = run[r].attempts
      BY <1>1, Counters DEF RunType
<1>5. /\ ch.covers = run[r].ch.covers /\ ch.evidenceOf = run[r].ch.evidenceOf
      /\ ch.verdict = run[r].ch.verdict /\ ch.verdictOf = run[r].ch.verdictOf
      /\ ch.rewrites = run[r].ch.rewrites /\ ch.fallback = (outcome = "misrouted")
      BY <1>1 DEF TypeOK, Channels
<1>6. NextStep(r) <= StepsAt("done", ch.rewrites)
  <2>1. run[r].steps \in Nat /\ ch.rewrites \in Nat BY <1>1 DEF TypeOK, Channels
  <2>2. NextStep(r) <= run[r].steps + 1 /\ NextStep(r) \in Nat BY <1>1, Counters
  <2>3. run[r].steps <= 3 * ch.rewrites + 2
        BY <1>1, <1>5, <2>1 DEF RunInv, StepsAt
  <2>4. QED BY <2>1, <2>2, <2>3 DEF StepsAt
<1>7. ASSUME run'[r] = next PROVE RunInv(r)'
  <2>1. /\ run'[r].at = "done" /\ run'[r].ch = ch /\ run'[r].steps = NextStep(r)
        /\ run'[r].outcome = outcome /\ run'[r].request = run[r].request
        /\ run'[r].attempts = run[r].attempts
        BY <1>4, <1>7
  <2>2. workflow' <=> workflow OBVIOUS
  <2>3. ch.fallback <=> outcome = "misrouted" BY <1>5
  <2>4. ch.covers # {} => ch.evidenceOf = Attempt(r)
        BY <1>1, <1>5 DEF RunInv
  <2>5. ch.covers # {} /\ workflow => ch.verdict # None /\ ch.verdictOf = Attempt(r)
        BY <1>1, <1>5 DEF RunInv
  <2>6. run'[r].steps <= StepsAt(run'[r].at, run'[r].ch.rewrites) BY <1>6, <2>1
  <2>7. Cites(run'[r].outcome, run'[r].ch.cited, run'[r].ch.covers) BY <2>1
  <2>8. run'[r].ch.covers # {} => run'[r].ch.evidenceOf = Attempt(r)'
        BY <2>1, <2>4, Zenon DEF Attempt
  <2>9. run'[r].ch.covers # {} /\ workflow' =>
          run'[r].ch.verdict # None /\ run'[r].ch.verdictOf = Attempt(r)'
        BY <2>1, <2>2, <2>5, Zenon DEF Attempt
  <2>10. run'[r].outcome \in {"answer", "recalled"} =>
           /\ run'[r].ch.covers # {}
           /\ workflow' => run'[r].ch.verdict = "accept"
         BY <2>1, <2>2, Zenon
  <2>11. run'[r].ch.fallback <=> run'[r].outcome = "misrouted" BY <2>1, <2>3
  <2>12. run'[r].at = "done" BY <2>1
  <2>13. /\ run'[r].ch.cited \subseteq run'[r].ch.covers
         /\ run'[r].ch.cited # {} <=> run'[r].outcome = "answer"
         BY <2>7 DEF Cites
  <2>14. run'[r].ch.cited # {} =>
           /\ run'[r].outcome = "answer"
           /\ run'[r].ch.cited \subseteq run'[r].ch.covers
           /\ run'[r].ch.evidenceOf = Attempt(r)'
         BY <2>8, <2>13
  <2>15. run'[r].outcome \in {"answer", "recalled"} =>
           (run'[r].ch.cited = {} <=> run'[r].outcome = "recalled")
         BY <2>13
  <2>16. QED BY <2>6, <2>8, <2>9, <2>10, <2>11, <2>12, <2>13, <2>14, <2>15 DEF RunInv
<1>8. QED BY <1>2, <1>3, <1>7, RunStep

LEMMA AgentInv ==
    ASSUME LoopInv, NEW r \in Runs, Agent(r)
    PROVE  LoopInv'
<1>1. TypeOK /\ RunInv(r) BY LoopInvByRun
<1>2. run[r].at = "agent" /\ run[r] \in RunType BY <1>1, Counters DEF Agent
<1>3. run[r].ch \in Channels /\ run[r].steps \in Nat BY <1>2 DEF RunType
<1>4. CASE Superstep(r, "retrieve", run[r].ch)
  <2>1. run[r].steps + 1 <= StepsAt("retrieve", run[r].ch.rewrites)
        BY <1>1, <1>2, <1>3 DEF RunInv, StepsAt, Channels
  <2>2. run[r].ch = [run[r].ch EXCEPT !.rewrites = run[r].ch.rewrites]
        BY <1>3 DEF Channels
  <2>3. QED BY <1>2, <1>3, <1>4, <2>1, <2>2, SuperstepInv
<1>5. CASE /\ run' = [run EXCEPT ![r].at = "done", ![r].steps = NextStep(r),
                                 ![r].outcome = "unretrieved"]
           /\ saved' = run[r].ch
           /\ UNCHANGED <<workflow, requests, crashes>>
  <2>1. run' = [run EXCEPT ![r].at = "done", ![r].steps = NextStep(r),
                           ![r].outcome = "unretrieved", ![r].ch = run[r].ch]
        BY <1>1, <1>2, <1>5 DEF RunType, TypeOK
  <2>2. run[r].ch.fallback = FALSE /\ run[r].ch.cited = {}
        BY <1>1, <1>2, <1>3 DEF RunInv, Channels
  <2>3. run[r].ch = [run[r].ch EXCEPT !.fallback = ("unretrieved" = "misrouted"),
                                      !.cited = run[r].ch.cited]
        BY <1>3, <2>2 DEF Channels
  <2>4. Cites("unretrieved", run[r].ch.cited, run[r].ch.covers) BY <2>2 DEF Cites
  <2>5. QED BY <1>2, <1>3, <1>5, <2>1, <2>3, <2>4, RunEnds
<1>6. QED BY <1>4, <1>5 DEF Agent

LEMMA GradeInv ==
    ASSUME LoopInv, NEW r \in Runs, Grade(r)
    PROVE  LoopInv'
<1>1. TypeOK /\ RunInv(r) BY LoopInvByRun
<1>2. run[r].at = "grade" /\ run[r] \in RunType BY <1>1, Counters DEF Grade, GradeChoices
<1>3. run[r].ch \in Channels /\ run[r].steps \in Nat BY <1>2 DEF RunType
<1>4. PICK next \in {"generate", "rewrite"} :
        /\ run[r].ch.rewrites >= MaxRewrites => next = "generate"
        /\ Superstep(r, next, run[r].ch)
      BY DEF Grade, GradeChoices
<1>5. run[r].steps + 1 <= StepsAt(next, run[r].ch.rewrites)
      BY <1>1, <1>2, <1>3 DEF RunInv, StepsAt, Channels
<1>6. next = "rewrite" => run[r].ch.rewrites < MaxRewrites
      BY <1>3, <1>4, LoopAssumption DEF Channels
<1>7. run[r].ch = [run[r].ch EXCEPT !.rewrites = run[r].ch.rewrites]
      BY <1>3 DEF Channels
<1>8. QED BY <1>2, <1>3, <1>4, <1>5, <1>6, <1>7, SuperstepInv

LEMMA RewriteInv ==
    ASSUME LoopInv, NEW r \in Runs, Rewrite(r)
    PROVE  LoopInv'
<1>1. TypeOK /\ RunInv(r) BY LoopInvByRun
<1>2. run[r].at = "rewrite" /\ run[r] \in RunType BY <1>1, Counters DEF Rewrite
<1>3. run[r].ch \in Channels /\ run[r].steps \in Nat BY <1>2 DEF RunType
<1>4. run[r].ch.rewrites < MaxRewrites BY <1>1, <1>2 DEF RunInv
<1> DEFINE ch == [run[r].ch EXCEPT !.rewrites = run[r].ch.rewrites + 1]
<1>5. ch \in Channels /\ ch.rewrites = run[r].ch.rewrites + 1
      BY <1>3, <1>4, LoopAssumption DEF Channels
<1>6. Superstep(r, "agent", ch)
      BY <1>3, <1>4, LoopAssumption DEF Rewrite, Channels
<1>7. run[r].steps + 1 <= StepsAt("agent", ch.rewrites)
      BY <1>1, <1>2, <1>3, <1>5 DEF RunInv, StepsAt, Channels
<1>8. ch = [run[r].ch EXCEPT !.rewrites = ch.rewrites] BY <1>5
<1>9. QED BY <1>2, <1>5, <1>6, <1>7, <1>8, SuperstepInv

(* The retrieval comes back, with or without evidence.                     *)
LEMMA RetrieveInv ==
    ASSUME LoopInv, NEW r \in Runs, run[r].at = "retrieve",
           NEW ch \in Channels,
           run' = [run EXCEPT ![r].at = "grade", ![r].attempts = NextAttempt(r), ![r].ch = ch],
           UNCHANGED <<workflow, saved, requests, crashes>>,
           ch.rewrites = run[r].ch.rewrites, ~ch.fallback, ch.cited = {},
           ch.covers # {} => /\ ch.evidenceOf = <<run[r].request, NextAttempt(r)>>
                             /\ workflow => /\ ch.verdict # None
                                            /\ ch.verdictOf = <<run[r].request, NextAttempt(r)>>
    PROVE  LoopInv'
<1>1. TypeOK /\ RunInv(r) BY LoopInvByRun
<1> DEFINE next == [run[r] EXCEPT !.at = "grade", !.attempts = NextAttempt(r), !.ch = ch]
<1>2. run' = [run EXCEPT ![r] = next] BY <1>1 DEF TypeOK
<1>3. next \in RunType BY <1>1, Counters DEF RunType
<1>4. /\ next.at = "grade" /\ next.ch = ch /\ next.steps = run[r].steps
      /\ next.outcome = run[r].outcome /\ next.request = run[r].request
      /\ next.attempts = NextAttempt(r)
      BY <1>1, Counters DEF RunType
<1>5. run[r].outcome = None BY <1>1 DEF RunInv
<1>6. run[r].steps <= StepsAt("grade", ch.rewrites) BY <1>1 DEF RunInv, StepsAt
<1>7. ASSUME run'[r] = next PROVE RunInv(r)'
  <2>1. /\ run'[r].at = "grade" /\ run'[r].ch = ch /\ run'[r].steps = run[r].steps
        /\ run'[r].outcome = None
        /\ run'[r].request = run[r].request /\ run'[r].attempts = NextAttempt(r)
        BY <1>4, <1>5, <1>7
  <2>2. workflow' <=> workflow OBVIOUS
  <2>3. run'[r].steps <= StepsAt(run'[r].at, run'[r].ch.rewrites) BY <1>6, <2>1
  <2>4. ~run'[r].ch.fallback /\ run'[r].ch.cited = {} BY <2>1
  <2>5. run'[r].ch.covers # {} => run'[r].ch.evidenceOf = Attempt(r)'
        BY <2>1 DEF Attempt
  <2>6. run'[r].ch.covers # {} /\ workflow' =>
          run'[r].ch.verdict # None /\ run'[r].ch.verdictOf = Attempt(r)'
        BY <2>1, <2>2, Zenon DEF Attempt
  <2>7. run'[r].outcome \notin {"answer", "recalled"} /\ run'[r].outcome = None
        BY <2>1, LoopAssumption
  <2>8. run'[r].at # "rewrite" /\ run'[r].at # "done" BY <2>1
  <2>9. QED BY <2>3, <2>4, <2>5, <2>6, <2>7, <2>8 DEF RunInv
<1>8. QED BY <1>1, <1>2, <1>3, <1>7, RunStep DEF TypeOK

LEMMA RetrieveFindsInv ==
    ASSUME LoopInv, NEW r \in Runs, RetrieveFinds(r)
    PROVE  LoopInv'
<1>1. TypeOK /\ RunInv(r) BY LoopInvByRun
<1>2. run[r].at = "retrieve" /\ run[r] \in RunType BY <1>1, Counters DEF RetrieveFinds
<1>3. run[r].ch \in Channels BY <1>2 DEF RunType
<1> DEFINE attempt == <<run[r].request, NextAttempt(r)>>
<1>4. PICK o \in Outcomes :
        run' = [run EXCEPT ![r].at = "grade", ![r].attempts = NextAttempt(r),
                  ![r].ch = IF o.verdict = None
                    THEN [run[r].ch EXCEPT !.covers = o.covers, !.evidenceOf = attempt,
                                           !.prob = o.prob]
                    ELSE [[run[r].ch EXCEPT !.covers = o.covers, !.evidenceOf = attempt,
                                            !.prob = o.prob]
                             EXCEPT !.verdict = o.verdict, !.verdictOf = attempt]]
      BY DEF RetrieveFinds
<1>5. o \in Outcome /\ (workflow => o.verdict # None)
      BY <1>1, OutcomesType DEF TypeOK
<1> DEFINE found == [run[r].ch EXCEPT !.covers = o.covers, !.evidenceOf = attempt,
                                      !.prob = o.prob]
           ch == IF o.verdict = None THEN found
                 ELSE [found EXCEPT !.verdict = o.verdict, !.verdictOf = attempt]
<1>6. attempt \in Nat \X Nat BY <1>1, <1>2, Counters DEF RunType
<1>7. /\ ch \in Channels /\ ch.rewrites = run[r].ch.rewrites
      /\ ch.fallback = run[r].ch.fallback /\ ch.cited = run[r].ch.cited
      /\ ch.evidenceOf = attempt
      /\ workflow => ch.verdict # None /\ ch.verdictOf = attempt
      BY <1>3, <1>5, <1>6 DEF Outcome, Channels
<1>8. ~run[r].ch.fallback /\ run[r].ch.cited = {} BY <1>1, <1>2 DEF RunInv
<1>9. UNCHANGED <<workflow, saved, requests, crashes>> BY DEF RetrieveFinds
<1>10. QED BY <1>2, <1>4, <1>7, <1>8, <1>9, RetrieveInv

LEMMA RetrieveFailsInv ==
    ASSUME LoopInv, NEW r \in Runs, RetrieveFails(r)
    PROVE  LoopInv'
<1>1. TypeOK /\ RunInv(r) BY LoopInvByRun
<1>2. run[r].at = "retrieve" /\ run[r] \in RunType BY <1>1, Counters DEF RetrieveFails
<1>3. run[r].ch \in Channels BY <1>2 DEF RunType
<1> DEFINE ch == [run[r].ch EXCEPT !.covers = {}, !.prob = None,
                                   !.evidenceOf = <<run[r].request, NextAttempt(r)>>]
<1>4. run' = [run EXCEPT ![r].at = "grade", ![r].attempts = NextAttempt(r), ![r].ch = ch]
      BY DEF RetrieveFails
<1>5. <<run[r].request, NextAttempt(r)>> \in Nat \X Nat BY <1>1, <1>2, Counters DEF RunType
<1>6. /\ ch \in Channels /\ ch.rewrites = run[r].ch.rewrites /\ ch.covers = {}
      /\ ch.fallback = run[r].ch.fallback /\ ch.cited = run[r].ch.cited
      BY <1>3, <1>5 DEF Channels
<1>7. ~run[r].ch.fallback /\ run[r].ch.cited = {} BY <1>1, <1>2 DEF RunInv
<1>8. UNCHANGED <<workflow, saved, requests, crashes>> BY DEF RetrieveFails
<1>9. QED BY <1>2, <1>4, <1>6, <1>7, <1>8, RetrieveInv

(* An answer needs evidence, and with the workflow on an accepting verdict. *)
LEMMA GenerateInv ==
    ASSUME LoopInv, NEW r \in Runs, Generate(r)
    PROVE  LoopInv'
<1>1. TypeOK /\ RunInv(r) /\ run[r] \in RunType BY LoopInvByRun, Counters
<1>2. run[r].ch \in Channels BY <1>1 DEF RunType
<1>3. ASSUME NEW outcome \in RunOutcomes, NEW cited \in SUBSET Facets,
             EndWith(r, outcome, cited),
             Cites(outcome, cited, run[r].ch.covers),
             outcome \in {"answer", "recalled"} =>
                 /\ run[r].ch.covers # {}
                 /\ workflow => run[r].ch.verdict = "accept"
      PROVE  LoopInv'
  <2> DEFINE ch == [run[r].ch EXCEPT !.fallback = (outcome = "misrouted"), !.cited = cited]
  <2>1. (outcome = "misrouted") \in BOOLEAN OBVIOUS
  <2>2. ch \in Channels BY <1>2, <2>1 DEF Channels
  <2>3. /\ ch.covers = run[r].ch.covers /\ ch.verdict = run[r].ch.verdict
        /\ ch.cited = cited
        BY <1>2 DEF Channels
  <2>4. /\ run[r].at = "generate"
        /\ run' = [run EXCEPT ![r].at = "done", ![r].steps = NextStep(r),
                              ![r].outcome = outcome, ![r].ch = ch]
        /\ saved' = ch /\ UNCHANGED <<workflow, requests, crashes>>
        BY <1>3 DEF EndWith
  <2>5. ch = [run[r].ch EXCEPT !.fallback = (outcome = "misrouted"), !.cited = ch.cited]
        BY <2>3
  <2>6. outcome \in {"answer", "recalled"} =>
            /\ ch.covers # {} /\ run[r].at = "generate"
            /\ workflow => ch.verdict = "accept"
        BY <1>3, <2>3, <2>4
  <2>7. Cites(outcome, ch.cited, ch.covers) BY <1>3, <2>3
  <2>8. run[r].at \in {"agent", "generate"} BY <2>4
  <2> HIDE DEF ch
  <2>9. QED BY <2>2, <2>4, <2>5, <2>6, <2>7, <2>8, RunEnds
<1>4. \A outcome : outcome # "answer" => Cites(outcome, {}, run[r].ch.covers) BY DEF Cites
<1>5. CASE RefuseByVerdict(r) BY <1>3, <1>4, <1>5 DEF RefuseByVerdict
<1>6. CASE Shunt(r)
  <2>1. PICK outcome \in {"missing", "misrouted"} : EndWith(r, outcome, {})
        BY <1>6 DEF Shunt
  <2>2. QED BY <1>3, <1>4, <2>1
<1>7. CASE GenerateEmpty(r) BY <1>3, <1>4, <1>7 DEF GenerateEmpty
<1>8. (GenerateAnswer(r) \/ Recall(r)) =>
        /\ run[r].ch.covers # {}
        /\ workflow => run[r].ch.verdict = "accept"
  <2>1. (GenerateAnswer(r) \/ Recall(r)) => run[r].ch.covers # {} /\ ~Terminal(run[r].ch)
        BY DEF GenerateAnswer, Recall
  <2>2. workflow /\ run[r].ch.covers # {} => run[r].ch.verdict # None BY <1>1 DEF RunInv
  <2>3. QED BY <2>1, <2>2 DEF Terminal
<1>9. CASE GenerateAnswer(r)
  <2>1. CASE EndWith(r, "failed", {}) BY <1>3, <1>4, <2>1
  <2>2. ASSUME NEW kept \in (SUBSET run[r].ch.covers) \ {{}}, EndWith(r, "answer", kept)
        PROVE  LoopInv'
    <3>1. kept \in SUBSET Facets BY <1>2 DEF Channels
    <3>2. Cites("answer", kept, run[r].ch.covers) BY DEF Cites
    <3>3. QED BY <1>3, <1>8, <1>9, <2>2, <3>1, <3>2
  <2>3. QED BY <1>9, <2>1, <2>2 DEF GenerateAnswer
<1>10. CASE Recall(r)
  <2>1. PICK outcome \in {"refused", "recalled", "failed"} : EndWith(r, outcome, {})
        BY <1>10 DEF Recall
  <2>2. outcome \in RunOutcomes /\ Cites(outcome, {}, run[r].ch.covers) BY <1>4
  <2>3. QED BY <1>3, <1>8, <1>10, <2>1, <2>2
<1>11. QED BY <1>5, <1>6, <1>7, <1>9, <1>10 DEF Generate

LEMMA RestartInv ==
    ASSUME LoopInv, Restart
    PROVE  LoopInv'
<1>1. TypeOK BY LoopInvByRun
<1>2. TypeOK' BY <1>1, ChannelsType DEF Restart, TypeOK
<1>3. ASSUME NEW r \in Runs PROVE RunInv(r)'
  <2>1. run'[r] = NoRun BY DEF Restart
  <2>2. QED BY <2>1, LoopAssumption, WorkflowAssumption
            DEF RunInv, NoRun, EmptyChannels, StepsAt
<1>4. QED BY <1>2, <1>3, LoopInvByRunNext

LEMMA StutterInv ==
    ASSUME LoopInv, UNCHANGED vars
    PROVE  LoopInv'
<1>1. TypeOK' BY LoopInvByRun DEF TypeOK, vars
<1>2. ASSUME NEW r \in Runs PROVE RunInv(r)'
      BY OtherRuns, LoopInvByRun DEF vars
<1>3. QED BY <1>1, <1>2, LoopInvByRunNext

LEMMA StepInv == LoopInv /\ [Next]_vars => LoopInv'
<1> SUFFICES ASSUME LoopInv, [Next]_vars PROVE LoopInv'
    OBVIOUS
<1>1. ASSUME NEW r \in Runs, Start(r) PROVE LoopInv' BY <1>1, StartInv
<1>2. ASSUME NEW r \in Runs, Step(r) PROVE LoopInv'
  <2>1. CASE Agent(r) BY <2>1, AgentInv
  <2>2. CASE RetrieveFinds(r) BY <2>2, RetrieveFindsInv
  <2>3. CASE RetrieveFails(r) BY <2>3, RetrieveFailsInv
  <2>4. CASE Grade(r) BY <2>4, GradeInv
  <2>5. CASE Rewrite(r) BY <2>5, RewriteInv
  <2>6. CASE Generate(r) BY <2>6, GenerateInv
  <2>7. CASE Respond(r) BY <2>7, RunOver DEF Respond
  <2>8. QED BY <1>2, <2>1, <2>2, <2>3, <2>4, <2>5, <2>6, <2>7 DEF Step
<1>3. ASSUME NEW r \in Runs, Disconnect(r) PROVE LoopInv' BY <1>3, RunOver DEF Disconnect
<1>4. CASE Restart BY <1>4, RestartInv
<1>5. CASE UNCHANGED vars BY <1>5, StutterInv
<1>6. QED BY <1>1, <1>2, <1>3, <1>4, <1>5 DEF Next

(* The invariant that the four theorems rest on.                           *)
THEOREM LoopInvariant == Spec => []LoopInv
<1>1. QED BY InitLoop, StepInv, PTL DEF Spec

-----------------------------------------------------------------------------
(* Types of the channels, for every question, session and bound: no step   *)
(* leaves a run in a place the graph does not have, or past its budget of  *)
(* rewrites.                                                               *)
THEOREM AgentTypes == Spec => []TypeOK
<1>1. LoopInv => TypeOK BY DEF LoopInv
<1>2. QED BY <1>1, LoopInvariant, PTL

(* A run never needs more than three supersteps per attempt, whatever      *)
(* max_rewrites is and whatever the model decides: LangGraph's recursion   *)
(* limit is reached by none with the configured defaults.                  *)
THEOREM RunsAreShort == Spec => []WithinRecursionLimit
<1>1. LoopInv => WithinRecursionLimit
  <2> SUFFICES ASSUME LoopInv, NEW r \in Runs
               PROVE  run[r].steps <= 3 * (MaxRewrites + 1)
      BY DEF WithinRecursionLimit
  <2>1. TypeOK /\ RunInv(r) /\ run[r] \in RunType BY LoopInvByRun, Counters
  <2>2. /\ run[r].ch.rewrites \in 0..MaxRewrites /\ run[r].steps \in Nat
        /\ run[r].at \in Places
        BY <2>1 DEF RunType, Channels
  <2>3. run[r].steps <= StepsAt(run[r].at, run[r].ch.rewrites) BY <2>1 DEF RunInv
  <2>4. QED BY <2>2, <2>3, LoopAssumption DEF StepsAt
<1>2. QED BY <1>1, LoopInvariant, PTL

(* No answer without something found, and accepted, by its own request's   *)
(* last retrieval, and no citation of anything else, however requests,     *)
(* disconnects and restarts of the session interleave.                     *)
THEOREM AnswersAreGrounded == Spec => []AnswerIsGrounded
<1>1. LoopInv => AnswerIsGrounded BY DEF LoopInv
<1>2. QED BY <1>1, LoopInvariant, PTL

(* The router reads only what its own run left in the channels.            *)
THEOREM ResponsesAreOwn == Spec => []ResponseIsOwn
<1>1. LoopInv => ResponseIsOwn BY DEF LoopInv
<1>2. QED BY <1>1, LoopInvariant, PTL
=============================================================================
