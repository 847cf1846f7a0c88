--------------------------- MODULE RateGateProofs ---------------------------
(***************************************************************************)
(* Proofs about the rate gate, for every number of calls, every limit and  *)
(* every length of the minute.                                             *)
(***************************************************************************)
EXTENDS RateGateProperties, FiniteSetTheorems, TLAPS

-----------------------------------------------------------------------------
(* What a call has sent goes with where it is: nothing before it has a     *)
(* slot, and the attempts that are left have no age yet.                   *)
SentInOrder ==
    \A c \in Calls :
        /\ pc[c] \in {"queued", "waiting"} => tries[c] = 0
        /\ pc[c] \in {"sending", "backoff"} => tries[c] > 0
        /\ pc[c] = "backoff" => tries[c] <= MaxRetries
        /\ \A k \in Attempts : k > tries[c] => sent[c][k] = Minute

TInv == TypeOK /\ SentInOrder

(* One age of a call's requests is set back.                               *)
LEMMA SetBack ==
    ASSUME NEW f \in [Attempts -> 0..Minute], NEW k
    PROVE  [f EXCEPT ![k] = 0] \in [Attempts -> 0..Minute]
<1>1. 0 \in 0..Minute
  BY RateGateAssumption
<1> QED
  BY <1>1

(* Every step keeps the shape of the calls and their order of sending.     *)
LEMMA TInvInductive ==
    /\ Init => TInv
    /\ TInv /\ [Next]_vars => TInv'
<1> USE RateGateAssumption
<1>1. Init => TInv
  BY DEF Init, TInv, TypeOK, SentInOrder, Attempts
<1>2. ASSUME TInv, [Next]_vars PROVE TInv'
  <2> USE DEF TInv
  <2>1. ASSUME NEW c \in Calls, Enter(c) PROVE TInv'
    BY <1>2, <2>1 DEF Enter, Goto, TypeOK, SentInOrder
  <2>2. ASSUME NEW c \in Calls, Reserve(c) PROVE TInv'
    <3>1. tries[c] = 0 /\ 1 \in Attempts
      BY <1>2, <2>2 DEF Reserve, SentInOrder, Attempts
    <3>2. /\ tries' = [tries EXCEPT ![c] = 1]
          /\ sent' = [sent EXCEPT ![c] = [@ EXCEPT ![1] = 0]]
      BY <2>2, <3>1 DEF Reserve, Send
    <3>3. tries' \in [Calls -> 0..(MaxRetries + 1)]
      BY <1>2, <3>2 DEF TypeOK
    <3>4. sent' \in [Calls -> [Attempts -> 0..Minute]]
      <4>1. sent[c] \in [Attempts -> 0..Minute]
        BY <1>2 DEF TypeOK
      <4>2. [sent[c] EXCEPT ![1] = 0] \in [Attempts -> 0..Minute]
        BY <4>1, SetBack
      <4> QED
        BY <1>2, <3>2, <4>2 DEF TypeOK
    <3>5. live' \subseteq Calls
      BY <1>2, <2>2 DEF Reserve, LiveAfter, TypeOK
    <3>6. TypeOK'
      <4>1. tokens' \in [Calls -> Nat] /\ rest' \in 0..Gap
        BY <1>2, <2>2 DEF Reserve, TypeOK
      <4> QED
        BY <1>2, <2>2, <3>3, <3>4, <3>5, <4>1 DEF Reserve, Goto, TypeOK
    <3>7. /\ pc'[c] = "sending" /\ tries'[c] = 1
          /\ \A k \in Attempts : k > 1 => sent'[c][k] = sent[c][k]
          /\ \A d \in Calls : d # c =>
                pc'[d] = pc[d] /\ tries'[d] = tries[d] /\ sent'[d] = sent[d]
      BY <1>2, <2>2, <3>2 DEF Reserve, Goto, TypeOK, Attempts
    <3>8. \A k \in Attempts : k > 1 => sent'[c][k] = Minute
      BY <1>2, <3>1, <3>7 DEF SentInOrder, Attempts
    <3>9. SentInOrder'
      BY <1>2, <3>7, <3>8 DEF SentInOrder
    <3> QED
      BY <3>6, <3>9
  <2>3. ASSUME NEW c \in Calls, Wait(c) \/ FastLaneSaturated(Estimate[c]) PROVE TInv'
    <3>1. live' \subseteq Calls /\ UNCHANGED <<pc, usage, tries, sent, tokens, rest>>
      BY <1>2, <2>3 DEF Wait, FastLaneSaturated, LiveAfter, TypeOK
    <3> QED
      BY <1>2, <3>1 DEF TypeOK, SentInOrder
  <2>4. ASSUME NEW c \in Calls, NEW n \in Reported, Answered(c, n) PROVE TInv'
    <3>1. tokens' \in [Calls -> Nat] /\ usage' \in [Calls -> Reported \cup {0}]
      BY <1>2, <2>4 DEF Answered, TypeOK
    <3> QED
      BY <1>2, <2>4, <3>1 DEF Answered, Goto, TypeOK, SentInOrder
  <2>5. ASSUME NEW c \in Calls, BackOff(c) \/ Raise(c) PROVE TInv'
    BY <1>2, <2>5 DEF BackOff, Raise, Goto, TypeOK, SentInOrder
  <2>6. ASSUME NEW c \in Calls, Retry(c) PROVE TInv'
    <3>1. tries[c] \in 1..MaxRetries /\ tries[c] + 1 \in Attempts
      BY <1>2, <2>6 DEF Retry, TypeOK, SentInOrder, Attempts
    <3>2. tries' \in [Calls -> 0..(MaxRetries + 1)]
      BY <1>2, <2>6, <3>1 DEF Retry, Send, TypeOK
    <3>3. sent' \in [Calls -> [Attempts -> 0..Minute]]
      <4>1. sent[c] \in [Attempts -> 0..Minute]
        BY <1>2 DEF TypeOK
      <4>2. [sent[c] EXCEPT ![tries[c] + 1] = 0] \in [Attempts -> 0..Minute]
        BY <4>1, SetBack
      <4> QED
        BY <1>2, <2>6, <4>2 DEF Retry, Send, TypeOK
    <3>4. TypeOK'
      BY <1>2, <2>6, <3>2, <3>3 DEF Retry, Goto, TypeOK
    <3>5. /\ pc'[c] = "sending" /\ tries'[c] = tries[c] + 1
          /\ \A k \in Attempts : k # tries[c] + 1 => sent'[c][k] = sent[c][k]
          /\ \A d \in Calls : d # c =>
                pc'[d] = pc[d] /\ tries'[d] = tries[d] /\ sent'[d] = sent[d]
      BY <1>2, <2>6 DEF Retry, Send, Goto, TypeOK
    <3>6. \A k \in Attempts : k > tries'[c] => sent'[c][k] = Minute
      BY <1>2, <3>1, <3>5 DEF SentInOrder, Attempts
    <3>7. SentInOrder'
      BY <1>2, <3>1, <3>5, <3>6 DEF SentInOrder
    <3> QED
      BY <3>4, <3>7
  <2>7. ASSUME Tick PROVE TInv'
    <3>1. \A age \in 0..Minute : Older(age, Minute) \in 0..Minute /\ Older(Minute, Minute) = Minute
      BY DEF Older
    <3>2. sent' \in [Calls -> [Attempts -> 0..Minute]]
      BY <1>2, <2>7, <3>1 DEF Tick, TypeOK
    <3>3. rest' \in 0..Gap
      BY <1>2, <2>7 DEF Tick, TypeOK, Older
    <3>4. tokens' \in [Calls -> Nat] /\ usage' \in [Calls -> Reported \cup {0}]
      BY <1>2, <2>7 DEF Tick, TypeOK
    <3>5. TypeOK'
      BY <1>2, <2>7, <3>2, <3>3, <3>4 DEF Tick, TypeOK
    <3>6. /\ UNCHANGED <<pc, tries>>
          /\ \A c \in Calls, k \in Attempts : sent[c][k] = Minute => sent'[c][k] = Minute
      BY <2>7, <3>1 DEF Tick
    <3>7. SentInOrder'
      BY <1>2, <3>6 DEF SentInOrder
    <3> QED
      BY <3>5, <3>7
  <2>8. CASE UNCHANGED vars
    BY <1>2, <2>8 DEF vars, TypeOK, SentInOrder
  <2> QED
    BY <1>2, <2>1, <2>2, <2>3, <2>4, <2>5, <2>6, <2>7, <2>8 DEF Next, Advance, Responds
<1> QED
  BY <1>1, <1>2

(* The calls, their slots and their windows always have their shape.       *)
THEOREM RateGateTypeCorrect == Spec => []TypeOK
<1>1. TInv => TypeOK
  BY DEF TInv
<1> QED
  BY <1>1, TInvInductive, PTL DEF Spec

-----------------------------------------------------------------------------
(* The requests of a minute.  A call whose slot is older than the minute   *)
(* and that has sent something in it was in flight when the minute began,  *)
(* so the semaphore bounds the number of such calls.  For the induction,   *)
(* the same is said of every k: of the calls whose slot is at least k      *)
(* ticks old, those that may have been in flight k ticks ago.              *)

InFlightAgo(k) ==
    {c \in Calls : /\ tries[c] > 0 /\ sent[c][1] >= k
                   /\ c \in InFlight \/ \E a \in Attempts : sent[c][a] < k}

Few(S, n) == IsFiniteSet(S) /\ Cardinality(S) <= n

Limited ==
    /\ Few(Window, Rpm)
    /\ Few(InFlight, MaxConcurrency)
    /\ \A k \in 0..Minute : Few(InFlightAgo(k), MaxConcurrency)

(* A part of a set that has few members has few members.                   *)
LEMMA FewSubset ==
    ASSUME NEW S, NEW T, NEW n \in Nat, Few(S, n), T \subseteq S
    PROVE  Few(T, n)
<1>1. IsFiniteSet(T) /\ Cardinality(T) <= Cardinality(S)
  BY FS_Subset DEF Few
<1>2. Cardinality(S) \in Nat /\ Cardinality(T) \in Nat
  BY <1>1, FS_CardinalityType DEF Few
<1> QED
  BY <1>1, <1>2 DEF Few

(* One more member, where there is room.                                   *)
LEMMA FewAdd ==
    ASSUME NEW S, NEW x, NEW T, NEW n \in Nat, IsFiniteSet(S), Cardinality(S) < n,
           T \subseteq S \cup {x}
    PROVE  Few(T, n)
<1>1. /\ IsFiniteSet(S \cup {x})
      /\ Cardinality(S \cup {x}) = IF x \in S THEN Cardinality(S) ELSE Cardinality(S) + 1
  BY FS_AddElement
<1>2. Cardinality(S) \in Nat
  BY FS_CardinalityType
<1>3. Few(S \cup {x}, n)
  BY <1>1, <1>2 DEF Few
<1> QED
  BY <1>3, FewSubset

(* The semaphore and the request window limit what is in flight, at every  *)
(* moment of the last minute.                                              *)
LEMMA LimitedInductive ==
    /\ Init => Limited
    /\ TInv /\ Limited /\ [Next]_vars => Limited'
<1> USE RateGateAssumption
<1>1. Init => Limited
  <2> SUFFICES ASSUME Init PROVE Limited
    OBVIOUS
  <2>1. Window = {} /\ InFlight = {} /\ \A k \in 0..Minute : InFlightAgo(k) = {}
    BY DEF Init, Window, InFlight, InFlightAgo, Attempts
  <2>2. \A n \in Nat : Few({}, n)
    BY FS_EmptySet DEF Few
  <2> QED
    BY <2>1, <2>2 DEF Limited
<1>2. ASSUME TInv, Limited, [Next]_vars PROVE Limited'
  \* Where nothing is sent and nothing enters, all three sets shrink.
  <2>1. ASSUME UNCHANGED <<tries, sent>>, InFlight' \subseteq InFlight PROVE Limited'
    <3>1. Window' = Window
      BY <2>1 DEF Window
    <3>2. \A k \in 0..Minute : InFlightAgo(k)' \subseteq InFlightAgo(k)
      BY <2>1 DEF InFlightAgo
    <3> QED
      BY <1>2, <2>1, <3>1, <3>2, FewSubset DEF Limited
  <2>2. ASSUME NEW c \in Calls, Enter(c) PROVE Limited'
    <3>1. tries[c] = 0
      BY <1>2, <2>2 DEF Enter, TInv, SentInOrder
    <3>2. InFlight' = InFlight \cup {c} /\ UNCHANGED <<tries, sent>>
      BY <1>2, <2>2 DEF Enter, Goto, InFlight, TInv, TypeOK
    <3>3. Few(InFlight', MaxConcurrency)
      BY <1>2, <2>2, <3>2, FewAdd DEF Enter, Limited, Few
    <3>4. Window' = Window
      BY <3>2 DEF Window
    <3>5. \A k \in 0..Minute : InFlightAgo(k)' \subseteq InFlightAgo(k)
      BY <3>1, <3>2 DEF InFlightAgo
    <3> QED
      BY <1>2, <3>3, <3>4, <3>5, FewSubset DEF Limited
  <2>3. ASSUME NEW c \in Calls, Reserve(c) PROVE Limited'
    <3>1. tries[c] = 0 /\ 1 \in Attempts /\ c \in InFlight
      BY <1>2, <2>3 DEF Reserve, TInv, SentInOrder, Attempts, InFlight
    <3>2. /\ tries'[c] = 1 /\ sent'[c][1] = 0 /\ InFlight' = InFlight
          /\ \A d \in Calls : d # c => tries'[d] = tries[d] /\ sent'[d] = sent[d]
      BY <1>2, <2>3, <3>1 DEF Reserve, Send, Goto, InFlight, TInv, TypeOK
    <3>3. Few(Window', Rpm)
      <4>1. Window' \subseteq Window \cup {c}
        BY <3>2 DEF Window
      <4> QED
        BY <1>2, <2>3, <4>1, FewAdd DEF Reserve, ReqOk, Limited, Few
    <3>4. InFlightAgo(0)' \subseteq InFlight
      <4>1. \A d \in Calls, a \in Attempts : ~(sent'[d][a] < 0)
        BY <1>2, <2>3, TInvInductive DEF TInv, TypeOK, Next, Advance
      <4> QED
        BY <3>2, <4>1 DEF InFlightAgo
    <3>5. \A k \in 1..Minute : InFlightAgo(k)' \subseteq InFlightAgo(k)
      BY <3>2 DEF InFlightAgo
    <3>6. \A k \in 0..Minute : Few(InFlightAgo(k)', MaxConcurrency)
      BY <1>2, <3>4, <3>5, FewSubset DEF Limited
    <3> QED
      BY <1>2, <3>2, <3>3, <3>6 DEF Limited
  <2>4. ASSUME NEW c \in Calls, Retry(c) PROVE Limited'
    <3>1. tries[c] > 0 /\ tries[c] \in Nat /\ tries'[c] = tries[c] + 1 /\ c \in InFlight
      BY <1>2, <2>4 DEF Retry, Send, TInv, TypeOK, SentInOrder, InFlight
    <3>2. /\ sent'[c][1] = sent[c][1] /\ InFlight' = InFlight
          /\ \A d \in Calls : d # c => tries'[d] = tries[d] /\ sent'[d] = sent[d]
      <4>1. 1 \in Attempts /\ tries[c] + 1 # 1
        BY <3>1 DEF Attempts
      <4> QED
        BY <1>2, <2>4, <4>1 DEF Retry, Send, Goto, InFlight, TInv, TypeOK
    <3>3. Window' = Window
      BY <3>2 DEF Window
    <3>4. \A k \in 0..Minute : InFlightAgo(k)' \subseteq InFlightAgo(k)
      BY <3>1, <3>2 DEF InFlightAgo
    <3> QED
      BY <1>2, <3>2, <3>3, <3>4, FewSubset DEF Limited
  <2>5. ASSUME Tick PROVE Limited'
    <3>1. \A c \in Calls, a \in Attempts :
             /\ sent[c][a] \in 0..Minute
             /\ sent'[c][a] = IF sent[c][a] < Minute THEN sent[c][a] + 1 ELSE sent[c][a]
      BY <1>2, <2>5 DEF Tick, Older, TInv, TypeOK
    <3>2. InFlight' = InFlight /\ UNCHANGED tries
      BY <2>5 DEF Tick, InFlight
    <3>3. 1 \in Attempts
      BY DEF Attempts
    <3>4. Window' \subseteq Window
      BY <3>1, <3>3 DEF Window
    <3>5. \A k \in 0..(Minute - 1) : InFlightAgo(k + 1)' \subseteq InFlightAgo(k)
      BY <3>1, <3>2, <3>3 DEF InFlightAgo
    <3>6. InFlightAgo(0)' \subseteq InFlight
      BY <3>1, <3>2 DEF InFlightAgo
    <3>7. \A k \in 0..Minute : Few(InFlightAgo(k)', MaxConcurrency)
      <4> SUFFICES ASSUME NEW k \in 0..Minute PROVE Few(InFlightAgo(k)', MaxConcurrency)
        OBVIOUS
      <4>1. CASE k = 0
        BY <1>2, <3>6, <4>1, FewSubset DEF Limited
      <4>2. CASE k > 0
        <5>1. k - 1 \in 0..(Minute - 1) /\ (k - 1) + 1 = k
          BY <4>2
        <5>2. InFlightAgo(k)' \subseteq InFlightAgo(k - 1)
          BY <3>5, <5>1
        <5> QED
          BY <1>2, <5>1, <5>2, FewSubset DEF Limited
      <4> QED
        BY <4>1, <4>2
    <3> QED
      BY <1>2, <3>2, <3>4, <3>7, FewSubset DEF Limited
  <2>6. ASSUME NEW c \in Calls, NEW n \in Reported, Answered(c, n)
        PROVE  Limited'
    <3>1. UNCHANGED <<tries, sent>> /\ InFlight' \subseteq InFlight
      BY <1>2, <2>6 DEF Answered, Goto, InFlight, TInv, TypeOK
    <3> QED
      BY <2>1, <3>1
  <2>7. ASSUME NEW c \in Calls, BackOff(c) \/ Raise(c) \/ Wait(c) \/ FastLaneSaturated(Estimate[c])
        PROVE  Limited'
    <3>1. UNCHANGED <<tries, sent>> /\ InFlight' \subseteq InFlight
      BY <1>2, <2>7 DEF BackOff, Raise, Wait, FastLaneSaturated, Goto, InFlight, TInv, TypeOK
    <3> QED
      BY <2>1, <3>1
  <2>8. CASE UNCHANGED vars
    <3>1. UNCHANGED <<tries, sent>> /\ InFlight' \subseteq InFlight
      BY <2>8 DEF vars, InFlight
    <3> QED
      BY <2>1, <3>1
  <2> QED
    BY <1>2, <2>2, <2>3, <2>4, <2>5, <2>6, <2>7, <2>8 DEF Next, Advance, Responds
<1> QED
  BY <1>1, <1>2

(* A bound on a set times a bound on another.                              *)
LEMMA FewPairs ==
    ASSUME NEW S, NEW T, NEW m \in Nat, NEW n \in Nat, Few(S, m), IsFiniteSet(T),
           Cardinality(T) = n
    PROVE  IsFiniteSet(S \X T) /\ Cardinality(S \X T) <= n * m
<1>1. IsFiniteSet(S \X T) /\ Cardinality(S \X T) = Cardinality(S) * n
  BY FS_Product DEF Few
<1>2. Cardinality(S) \in Nat /\ Cardinality(S) <= m
  BY FS_CardinalityType DEF Few
<1>3. \A i \in Nat : i <= m => i * n <= n * m
  OBVIOUS
<1> QED
  BY <1>1, <1>2, <1>3

(* The requests of a minute are those of the calls in the window, and the  *)
(* retries of calls that were in flight when the minute began.             *)
LEMMA LimitedBounds == TInv /\ Limited => SendsBounded
<1> USE RateGateAssumption
<1> SUFFICES ASSUME TInv, Limited PROVE SendsBounded
  OBVIOUS
<1> DEFINE Early == InFlightAgo(Minute)
           Retries == 2..(MaxRetries + 1)
           Own == Window \X Attempts
           Others == Early \X Retries
<1>1. SentThisMinute \subseteq Own \cup Others
  <2> SUFFICES ASSUME NEW c \in Calls, NEW a \in Attempts, sent[c][a] < Minute
               PROVE  <<c, a>> \in Own \cup Others
    BY DEF SentThisMinute
  <2>1. 1 \in Attempts /\ sent[c][1] \in 0..Minute /\ tries[c] \in Nat
    BY DEF TInv, TypeOK, Attempts
  <2>2. CASE sent[c][1] < Minute
    BY <2>2 DEF Window
  <2>3. CASE ~(sent[c][1] < Minute)
    <3>1. a # 1 /\ a \in Retries
      BY <2>3 DEF Attempts
    <3>2. tries[c] > 0
      BY <2>1 DEF TInv, SentInOrder, Attempts
    <3>3. c \in Early
      BY <2>1, <2>3, <3>2 DEF InFlightAgo
    <3> QED
      BY <3>1, <3>3
  <2> QED
    BY <2>2, <2>3
<1>2. IsFiniteSet(Own) /\ Cardinality(Own) <= (1 + MaxRetries) * Rpm
  <2>1. IsFiniteSet(Attempts) /\ Cardinality(Attempts) = 1 + MaxRetries
    BY FS_Interval DEF Attempts
  <2>2. Few(Window, Rpm) /\ Rpm \in Nat /\ 1 + MaxRetries \in Nat
    BY DEF Limited
  <2> QED
    BY <2>1, <2>2, FewPairs
<1>3. IsFiniteSet(Others) /\ Cardinality(Others) <= MaxRetries * MaxConcurrency
  <2>1. IsFiniteSet(Retries) /\ Cardinality(Retries) = MaxRetries
    BY FS_Interval
  <2>2. Few(Early, MaxConcurrency) /\ MaxConcurrency \in Nat
    BY DEF Limited
  <2> QED
    BY <2>1, <2>2, FewPairs
<1>4. /\ IsFiniteSet(Own \cup Others)
      /\ Cardinality(Own \cup Others) =
            Cardinality(Own) + Cardinality(Others) - Cardinality(Own \cap Others)
  BY <1>2, <1>3, FS_Union
<1>5. IsFiniteSet(Own \cap Others)
  BY <1>2, FS_Subset
<1>6. IsFiniteSet(SentThisMinute)
      /\ Cardinality(SentThisMinute) <= Cardinality(Own \cup Others)
  BY <1>1, <1>4, FS_Subset
<1>7. /\ Cardinality(Own) \in Nat /\ Cardinality(Others) \in Nat
      /\ Cardinality(Own \cap Others) \in Nat /\ Cardinality(SentThisMinute) \in Nat
      /\ (1 + MaxRetries) * Rpm \in Nat /\ MaxRetries * MaxConcurrency \in Nat
  BY <1>2, <1>3, <1>5, <1>6, FS_CardinalityType
<1> HIDE DEF Own, Others
<1> QED
  BY <1>2, <1>3, <1>4, <1>6, <1>7 DEF SendsBounded

(* For any limits, a minute sees no more requests than the slots of the    *)
(* minute with their retries, and the retries of LLM_MAX_CONCURRENCY calls *)
(* (llm.py:86-188).                                                        *)
THEOREM SendsBoundedCorrect == Spec => []SendsBounded
<1>1. Init => TInv /\ Limited
  BY TInvInductive, LimitedInductive
<1>2. TInv /\ Limited /\ [Next]_vars => (TInv /\ Limited)'
  BY TInvInductive, LimitedInductive
<1> QED
  BY <1>1, <1>2, LimitedBounds, PTL DEF Spec

-----------------------------------------------------------------------------
(* Sums over finite sets.  SumFunctionOnSet is a recursive function over   *)
(* the subsets; what is proved of it goes by the smallest set for which it *)
(* would be false.                                                         *)

(* Among the sets of a family of finite sets there is one that contains no *)
(* other.                                                                  *)
LEMMA SmallestSet ==
    ASSUME NEW C, IsFiniteSet(C), NEW Bad, Bad \subseteq SUBSET C, Bad # {}
    PROVE  \E S \in Bad : \A T \in Bad : T \subseteq S => T = S
<1>1. Bad \subseteq FiniteSubsetsOf(C)
  BY FS_FiniteSubsetsOfFinite
<1>2. PICK S \in Bad : \A T \in Bad : ~(<<T, S>> \in StrictSubsetOrdering(C))
  BY <1>1, FS_StrictSubsetOrderingWellFounded, WFMin
<1>3. \A T \in Bad : T \subseteq S => T = S
  BY <1>2 DEF StrictSubsetOrdering
<1> QED
  BY <1>3

FirstOf(s) == CHOOSE x \in s : TRUE

IsSum(h, f, S) ==
    h = [s \in SUBSET S |-> IF s = {} THEN 0 ELSE f[FirstOf(s)] + h[s \ {FirstOf(s)}]]

TheSum(f, S) == CHOOSE h : IsSum(h, f, S)

LEMMA SumUnfold ==
    ASSUME NEW f, NEW S
    PROVE  SumFunctionOnSet(f, S) = TheSum(f, S)[S]
BY Zenon DEF SumFunctionOnSet, FoldFunctionOnSet, MapThenFoldSet, TheSum, IsSum, FirstOf

LEMMA FirstIn ==
    ASSUME NEW s, s # {}
    PROVE  FirstOf(s) \in s
BY DEF FirstOf

(* The table of partial sums of f over the subsets of a set is unique.     *)
LEMMA SumUnique ==
    ASSUME NEW C, IsFiniteSet(C), NEW f, NEW S \in SUBSET C, NEW T \in SUBSET C,
           NEW g, IsSum(g, f, S), NEW h, IsSum(h, f, T), NEW U, U \subseteq S, U \subseteq T
    PROVE  g[U] = h[U]
<1> DEFINE Bad == {V \in SUBSET C : V \subseteq S /\ V \subseteq T /\ g[V] # h[V]}
<1>1. SUFFICES ASSUME Bad # {} PROVE FALSE
  OBVIOUS
<1>2. PICK V \in Bad : \A W \in Bad : W \subseteq V => W = V
  <2>1. Bad \subseteq SUBSET C
    OBVIOUS
  <2> HIDE DEF Bad
  <2> QED
    BY <1>1, <2>1, SmallestSet
<1>3. /\ g[V] = IF V = {} THEN 0 ELSE f[FirstOf(V)] + g[V \ {FirstOf(V)}]
      /\ h[V] = IF V = {} THEN 0 ELSE f[FirstOf(V)] + h[V \ {FirstOf(V)}]
  BY DEF IsSum
<1>4. V # {}
  BY <1>3
<1>5. FirstOf(V) \in V
  BY <1>4, FirstIn
<1>6. V \ {FirstOf(V)} \notin Bad
  BY <1>2, <1>5
<1> QED
  BY <1>3, <1>6

(* It exists.                                                              *)
LEMMA SumExists ==
    ASSUME NEW C, IsFiniteSet(C), NEW f, NEW S \in SUBSET C
    PROVE  IsSum(TheSum(f, S), f, S)
<1> DEFINE Bad == {V \in SUBSET C : ~ \E h : IsSum(h, f, V)}
<1>1. Bad = {}
  <2>1. SUFFICES ASSUME Bad # {} PROVE FALSE
    OBVIOUS
  <2>2. PICK V \in Bad : \A W \in Bad : W \subseteq V => W = V
    <3>1. Bad \subseteq SUBSET C
      OBVIOUS
    <3> HIDE DEF Bad
    <3> QED
      BY <2>1, <3>1, SmallestSet
  <2>3. \A W \in SUBSET V : W # V => IsSum(TheSum(f, W), f, W)
    <3> SUFFICES ASSUME NEW W \in SUBSET V, W # V PROVE IsSum(TheSum(f, W), f, W)
      OBVIOUS
    <3>1. W \notin Bad
      BY <2>2
    <3>2. PICK h : IsSum(h, f, W)
      BY <3>1
    <3> QED
      BY <3>2, Zenon DEF TheSum
  <2> DEFINE Value(W) == TheSum(f, W)[W]
             H == [s \in SUBSET V |-> IF s = {} THEN 0 ELSE f[FirstOf(s)] + Value(s \ {FirstOf(s)})]
  <2>4. \A s \in SUBSET V : s # {} => H[s \ {FirstOf(s)}] = Value(s \ {FirstOf(s)})
    <3> SUFFICES ASSUME NEW s \in SUBSET V, s # {}
                 PROVE  H[s \ {FirstOf(s)}] = Value(s \ {FirstOf(s)})
      OBVIOUS
    <3> DEFINE t == s \ {FirstOf(s)}
    <3>1. FirstOf(s) \in s
      BY FirstIn
    <3>2. t \in SUBSET V /\ t # V
      BY <3>1
    <3>3. IsSum(TheSum(f, t), f, t)
      BY <2>3, <3>2
    <3>4. Value(t) = IF t = {} THEN 0 ELSE f[FirstOf(t)] + TheSum(f, t)[t \ {FirstOf(t)}]
      BY <3>3 DEF IsSum
    <3>5. CASE t = {}
      BY <3>2, <3>4, <3>5
    <3>6. CASE t # {}
      <4> DEFINE u == t \ {FirstOf(t)}
      <4>1. u \in SUBSET V /\ u # V /\ u \subseteq t
        BY <3>2, <3>6, FirstIn
      <4>2. IsSum(TheSum(f, u), f, u)
        BY <2>3, <4>1
      <4> HIDE DEF t, u
      <4>3. TheSum(f, t)[u] = TheSum(f, u)[u]
        <5>1. t \in SUBSET C /\ u \in SUBSET C
          BY <3>2, <4>1
        <5> DEFINE g == TheSum(f, t)
                   h == TheSum(f, u)
        <5>2. IsSum(g, f, t) /\ IsSum(h, f, u)
          BY <3>3, <4>2
        <5> HIDE DEF g, h
        <5>3. g[u] = h[u]
          BY <4>1, <5>1, <5>2, SumUnique
        <5> QED
          BY <5>3 DEF g, h
      <4>4. Value(t) = f[FirstOf(t)] + Value(u)
        BY <3>4, <3>6, <4>3 DEF u
      <4>5. H[t] = f[FirstOf(t)] + Value(u)
        BY <3>2, <3>6 DEF u
      <4> QED
        BY <4>4, <4>5 DEF t
    <3> QED
      BY <3>5, <3>6
  <2>5. IsSum(H, f, V)
    BY <2>4 DEF IsSum
  <2> QED
    BY <2>2, <2>5
<1>2. \E h : IsSum(h, f, S)
  BY <1>1
<1> QED
  BY <1>2, Zenon DEF TheSum

LEMMA SumFirst ==
    ASSUME NEW C, IsFiniteSet(C), NEW f, NEW S \in SUBSET C
    PROVE  SumFunctionOnSet(f, S) = IF S = {} THEN 0 ELSE f[FirstOf(S)] + SumFunctionOnSet(f, S \ {FirstOf(S)})
<1> DEFINE g == TheSum(f, S)
           T == S \ {FirstOf(S)}
           h == TheSum(f, T)
<1>1. IsSum(g, f, S)
  BY SumExists
<1>2. IsSum(h, f, T)
  <2>1. T \in SUBSET C
    OBVIOUS
  <2> HIDE DEF T
  <2> QED
    BY <2>1, SumExists
<1>3. g[S] = IF S = {} THEN 0 ELSE f[FirstOf(S)] + g[T]
  BY <1>1 DEF IsSum
<1>4. SumFunctionOnSet(f, S) = g[S] /\ SumFunctionOnSet(f, T) = h[T]
  BY SumUnfold
<1>5. g[T] = h[T]
  <2>1. T \in SUBSET C /\ T \subseteq S
    OBVIOUS
  <2> HIDE DEF T, g, h
  <2> QED
    BY <1>1, <1>2, <2>1, SumUnique
<1> QED
  BY <1>3, <1>4, <1>5

(* Sums of natural numbers are natural numbers.                            *)
LEMMA SumType ==
    ASSUME NEW C, IsFiniteSet(C), NEW f \in [C -> Nat], NEW S \in SUBSET C
    PROVE  SumFunctionOnSet(f, S) \in Nat
<1> DEFINE Bad == {V \in SUBSET C : SumFunctionOnSet(f, V) \notin Nat}
<1>1. SUFFICES ASSUME Bad # {} PROVE FALSE
  OBVIOUS
<1>2. PICK V \in Bad : \A W \in Bad : W \subseteq V => W = V
  <2>1. Bad \subseteq SUBSET C
    OBVIOUS
  <2> HIDE DEF Bad
  <2> QED
    BY <1>1, <2>1, SmallestSet
<1>3. SumFunctionOnSet(f, V) = IF V = {} THEN 0 ELSE f[FirstOf(V)] + SumFunctionOnSet(f, V \ {FirstOf(V)})
  BY SumFirst
<1>4. V # {}
  BY <1>3
<1>5. FirstOf(V) \in V
  BY <1>4, FirstIn
<1>6. V \ {FirstOf(V)} \notin Bad
  BY <1>2, <1>5
<1> QED
  BY <1>3, <1>4, <1>5, <1>6

(* Any element may be taken out of a sum.                                  *)
LEMMA SumRemove ==
    ASSUME NEW C, IsFiniteSet(C), NEW f \in [C -> Nat], NEW S \in SUBSET C, NEW x \in S
    PROVE  SumFunctionOnSet(f, S) = f[x] + SumFunctionOnSet(f, S \ {x})
<1> DEFINE Bad == {V \in SUBSET C : \E y \in V : SumFunctionOnSet(f, V) # f[y] + SumFunctionOnSet(f, V \ {y})}
<1>1. SUFFICES ASSUME Bad # {} PROVE FALSE
  OBVIOUS
<1>2. PICK V \in Bad : \A W \in Bad : W \subseteq V => W = V
  <2>1. Bad \subseteq SUBSET C
    OBVIOUS
  <2> HIDE DEF Bad
  <2> QED
    BY <1>1, <2>1, SmallestSet
<1>3. PICK y \in V : SumFunctionOnSet(f, V) # f[y] + SumFunctionOnSet(f, V \ {y})
  OBVIOUS
<1> DEFINE c == FirstOf(V)
           Rest == V \ {c, y}
<1>4. c \in V /\ SumFunctionOnSet(f, V) = f[c] + SumFunctionOnSet(f, V \ {c})
  BY SumFirst, FirstIn
<1>5. c # y
  BY <1>3, <1>4
<1>6. SumFunctionOnSet(f, V \ {c}) = f[y] + SumFunctionOnSet(f, Rest)
  <2>1. y \in V \ {c} /\ (V \ {c}) \ {y} = Rest /\ V \ {c} \notin Bad /\ V \ {c} \in SUBSET C
    BY <1>2, <1>4, <1>5
  <2> QED
    BY <2>1
<1>7. SumFunctionOnSet(f, V \ {y}) = f[c] + SumFunctionOnSet(f, Rest)
  <2>1. c \in V \ {y} /\ (V \ {y}) \ {c} = Rest /\ V \ {y} \notin Bad /\ V \ {y} \in SUBSET C
    BY <1>2, <1>4, <1>5
  <2> QED
    BY <2>1
<1>8. f[c] \in Nat /\ f[y] \in Nat /\ SumFunctionOnSet(f, Rest) \in Nat
  <2>1. Rest \in SUBSET C /\ c \in C /\ y \in C
    BY <1>4
  <2> QED
    BY <2>1, SumType
<1> HIDE DEF c, Rest
<1> QED
  BY <1>3, <1>4, <1>6, <1>7, <1>8

(* A sum over fewer elements, each with no more, is no more.               *)
LEMMA SumMonotone ==
    ASSUME NEW C, IsFiniteSet(C), NEW f \in [C -> Nat], NEW g \in [C -> Nat],
           NEW T \in SUBSET C, NEW S \in SUBSET T, \A x \in S : f[x] <= g[x]
    PROVE  SumFunctionOnSet(f, S) <= SumFunctionOnSet(g, T)
<1> DEFINE Le(V) == SumFunctionOnSet(f, V \cap S) <= SumFunctionOnSet(g, V)
           Bad == {V \in SUBSET C : ~Le(V)}
<1>1. SUFFICES ASSUME Bad # {} PROVE FALSE
  <2>1. T \notin Bad /\ T \cap S = S
    BY <1>1
  <2> QED
    BY <2>1
<1>2. PICK V \in Bad : \A W \in Bad : W \subseteq V => W = V
  <2>1. Bad \subseteq SUBSET C
    OBVIOUS
  <2> HIDE DEF Bad
  <2> QED
    BY <1>1, <2>1, SmallestSet
<1>3. V # {}
  <2>1. SumFunctionOnSet(f, {}) = 0 /\ SumFunctionOnSet(g, {}) = 0
    BY SumFirst
  <2>2. ASSUME V = {} PROVE FALSE
    <3>1. V \cap S = {}
      BY <2>2
    <3> QED
      BY <2>1, <2>2, <3>1
  <2> QED
    BY <2>2
<1>4. PICK x \in V : TRUE
  BY <1>3
<1> DEFINE W == V \ {x}
<1>5. Le(W)
  <2>1. W \notin Bad /\ W \in SUBSET C
    BY <1>2
  <2> QED
    BY <2>1
<1>6. SumFunctionOnSet(g, V) = g[x] + SumFunctionOnSet(g, W)
  BY SumRemove
<1>7. f[x] \in Nat /\ g[x] \in Nat /\ SumFunctionOnSet(f, W \cap S) \in Nat /\ SumFunctionOnSet(g, W) \in Nat
  <2>1. W \in SUBSET C /\ W \cap S \in SUBSET C /\ x \in C
    OBVIOUS
  <2> HIDE DEF W
  <2> QED
    BY <2>1, SumType
<1>8. CASE x \in S
  <2>1. x \in V \cap S /\ V \cap S \in SUBSET C /\ (V \cap S) \ {x} = W \cap S
    BY <1>8
  <2>2. SumFunctionOnSet(f, V \cap S) = f[x] + SumFunctionOnSet(f, W \cap S)
    BY <2>1, SumRemove
  <2>3. f[x] <= g[x]
    BY <1>8
  <2> HIDE DEF W
  <2>4. Le(V)
    BY <1>5, <1>6, <1>7, <2>2, <2>3
  <2> QED
    BY <2>4
<1>9. CASE x \notin S
  <2>1. V \cap S = W \cap S
    BY <1>9
  <2> HIDE DEF W
  <2>2. Le(V)
    BY <1>5, <1>6, <1>7, <2>1
  <2> QED
    BY <2>2
<1> QED
  BY <1>8, <1>9

-----------------------------------------------------------------------------
(* The tokens of a minute.                                                 *)

Charge == [c \in Calls |-> Counted(c)]

(* A call has no usage before its answer, and its entry in the window      *)
(* counts no less than what TokensBounded counts for it.                   *)
Charged ==
    /\ \A c \in Calls : pc[c] # "ended" => usage[c] = 0
    /\ \A c \in Window : Counted(c) <= tokens[c]

(* The smaller of two numbers.                                             *)
LEMMA MinOfTwo ==
    ASSUME NEW m \in Nat, NEW n \in Nat
    PROVE  Min({m, n}) = IF m <= n THEN m ELSE n
<1> DEFINE least == IF m <= n THEN m ELSE n
<1>1. least \in {m, n} /\ \A y \in {m, n} : least <= y
  OBVIOUS
<1>2. \A x \in {m, n} : (\A y \in {m, n} : x <= y) => x = least
  OBVIOUS
<1> HIDE DEF least
<1>3. (CHOOSE x \in {m, n} : \A y \in {m, n} : x <= y) = least
  BY <1>1, <1>2
<1> QED
  BY <1>3 DEF Min, least

(* A usage is a number.                                                    *)
LEMMA UsageType ==
    ASSUME NEW f \in [Calls -> Reported \cup {0}]
    PROVE  f \in [Calls -> Nat]
<1>1. Reported \cup {0} \subseteq Nat
  BY RateGateAssumption
<1> QED
  BY <1>1

\* What is counted of a call: its estimate until an answer reports less.
CountOf(e, u) == IF u = 0 \/ e <= u THEN e ELSE u

LEMMA ChargeValue ==
    /\ TypeOK => /\ Charge \in [Calls -> Nat]
                 /\ \A c \in Calls : Charge[c] = Counted(c) /\ Counted(c) = CountOf(Estimate[c], usage[c])
    /\ TypeOK' => /\ Charge' \in [Calls -> Nat]
                  /\ \A c \in Calls : Charge'[c] = Counted(c)' /\ Counted(c)' = CountOf(Estimate[c], usage'[c])
<1> USE RateGateAssumption
<1>1. \A c \in Calls, u \in Nat :
         /\ (IF u = 0 THEN Estimate[c] ELSE Min({Estimate[c], u})) = CountOf(Estimate[c], u)
         /\ CountOf(Estimate[c], u) \in Nat
  BY MinOfTwo DEF CountOf
<1>2. ASSUME TypeOK
      PROVE  /\ Charge \in [Calls -> Nat]
             /\ \A c \in Calls : Charge[c] = Counted(c) /\ Counted(c) = CountOf(Estimate[c], usage[c])
  <2>1. \A c \in Calls : usage[c] \in Nat
    BY <1>2, UsageType DEF TypeOK
  <2>2. \A c \in Calls : Counted(c) = CountOf(Estimate[c], usage[c]) /\ Counted(c) \in Nat
    BY <1>1, <2>1 DEF Counted
  <2> QED
    BY <2>2 DEF Charge
<1>3. ASSUME TypeOK'
      PROVE  /\ Charge' \in [Calls -> Nat]
             /\ \A c \in Calls : Charge'[c] = Counted(c)' /\ Counted(c)' = CountOf(Estimate[c], usage'[c])
  <2>1. \A c \in Calls : usage'[c] \in Nat
    BY <1>3, UsageType DEF TypeOK
  <2>2. \A c \in Calls : Counted(c)' = CountOf(Estimate[c], usage'[c]) /\ Counted(c)' \in Nat
    BY <1>1, <2>1 DEF Counted
  <2> QED
    BY <2>2 DEF Charge
<1> QED
  BY <1>2, <1>3

(* Where no call gets a slot and none counts more than before, the sum     *)
(* does not grow.                                                          *)
LEMMA TokensShrink ==
    ASSUME TypeOK, TypeOK', TokensBounded, Limitable' \subseteq Limitable,
           \A c \in Limitable' : Counted(c)' <= Counted(c)
    PROVE  TokensBounded'
<1> DEFINE f == Charge'
           g == Charge
           S == Limitable'
           T == Limitable
<1>1. f \in [Calls -> Nat] /\ g \in [Calls -> Nat]
  BY ChargeValue
<1>2. T \in SUBSET Calls /\ S \in SUBSET T
  BY DEF Limitable, Window
<1>3. \A c \in S : f[c] <= g[c]
  BY <1>2, ChargeValue
<1>4. SumFunctionOnSet(g, T) <= Tpm
  BY DEF TokensBounded, Charge
<1>5. SumFunctionOnSet(f, S) <= Tpm
  <2> HIDE DEF f, g, S, T
  <2>1. SumFunctionOnSet(f, S) <= SumFunctionOnSet(g, T)
    BY <1>1, <1>2, <1>3, SumMonotone, RateGateAssumption
  <2>2. S \in SUBSET Calls
    BY <1>2
  <2>3. SumFunctionOnSet(f, S) \in Nat /\ SumFunctionOnSet(g, T) \in Nat
    BY <1>1, <1>2, <2>2, SumType, RateGateAssumption
  <2> QED
    BY <1>4, <2>1, <2>3, RateGateAssumption
<1> QED
  BY <1>5 DEF TokensBounded, Charge

(* A slot is given where the window has room for the estimate, and what    *)
(* the window counts is no less than what the bound is about.              *)
LEMMA ReserveKeepsTokens ==
    ASSUME TInv, TInv', Charged, TokensBounded, NEW c \in Calls, Reserve(c)
    PROVE  TokensBounded' /\ Charged'
<1> USE RateGateAssumption
<1>1. /\ 1 \in Attempts /\ tries[c] = 0 /\ sent[c][1] = Minute /\ usage[c] = 0 /\ usage' = usage
      /\ tokens' = [tokens EXCEPT ![c] = Estimate[c]] /\ pc'[c] = "sending"
      /\ \A d \in Calls : d # c => pc'[d] = pc[d]
  BY DEF Reserve, Goto, TInv, TypeOK, SentInOrder, Charged, Attempts
<1>2. sent'[c][1] = 0 /\ \A d \in Calls : d # c => sent'[d] = sent[d]
  BY <1>1 DEF Reserve, Send, TInv, TypeOK
<1>3. Window' = Window \cup {c} /\ c \notin Window
  BY <1>1, <1>2 DEF Window
<1>4. \A d \in Calls : Counted(d)' = Counted(d)
  BY <1>1 DEF Counted
<1>5. Counted(c) = Estimate[c]
  BY <1>1 DEF Counted
<1>6. Charged'
  <2>1. \A d \in Calls : pc'[d] # "ended" => usage'[d] = 0
    BY <1>1 DEF Charged
  <2>2. ASSUME NEW d \in Window' PROVE Counted(d)' <= tokens'[d]
    <3>1. d \in Calls /\ tokens'[d] = IF d = c THEN Estimate[c] ELSE tokens[d]
      BY <1>1, <2>2 DEF Window, TInv, TypeOK
    <3> QED
      BY <1>3, <1>4, <1>5, <2>2, <3>1 DEF Charged
  <2> QED
    BY <2>1, <2>2 DEF Charged
<1>7. CASE ~(Estimate[c] < Tpm)
  <2>1. Limitable' \subseteq Limitable
    BY <1>3, <1>7 DEF Limitable
  <2>2. \A d \in Limitable' : Counted(d)' <= Counted(d)
    BY <1>4, ChargeValue DEF Limitable, Window, TInv
  <2> QED
    BY <1>6, <2>1, <2>2, TokensShrink DEF TInv
<1>8. CASE Estimate[c] < Tpm
  <2> DEFINE f == Charge'
             S == Limitable'
             T == Limitable
             W == Window
  <2>1. WindowTokens + Estimate[c] <= Tpm
    BY <1>8 DEF Reserve, TokOk
  <2>2. S = T \cup {c} /\ c \notin T /\ T \in SUBSET W /\ W \in SUBSET Calls /\ S \in SUBSET Calls
    BY <1>3, <1>8 DEF Limitable, Window
  <2>3. f \in [Calls -> Nat] /\ tokens \in [Calls -> Nat] /\ f[c] = Estimate[c]
    BY <1>4, <1>5, ChargeValue DEF TInv, TypeOK
  <2>4. \A d \in T : f[d] <= tokens[d]
    BY <1>4, <2>2, ChargeValue DEF Charged, TInv
  <2>5. SumFunctionOnSet(f, S) <= Tpm
    <3>1. SumFunctionOnSet(tokens, W) + Estimate[c] <= Tpm
      BY <2>1 DEF WindowTokens
    <3> HIDE DEF f, S, T, W
    <3>2. SumFunctionOnSet(f, T) <= SumFunctionOnSet(tokens, W)
      BY <2>2, <2>3, <2>4, SumMonotone
    <3>3. SumFunctionOnSet(f, S) = f[c] + SumFunctionOnSet(f, T)
      <4>1. c \in S /\ S \ {c} = T
        BY <2>2
      <4> QED
        BY <2>2, <2>3, <4>1, SumRemove
    <3>4. /\ SumFunctionOnSet(f, T) \in Nat /\ SumFunctionOnSet(tokens, W) \in Nat
          /\ Estimate[c] \in Nat
      <4>1. T \in SUBSET Calls
        BY <2>2
      <4> QED
        BY <2>2, <2>3, <4>1, SumType
    <3> QED
      BY <2>3, <3>1, <3>2, <3>3, <3>4
  <2> QED
    BY <1>6, <2>5 DEF TokensBounded, Charge
<1> QED
  BY <1>7, <1>8

(* A report is written to the entry, or only lowers what is counted.       *)
LEMMA AnsweredKeepsTokens ==
    ASSUME TInv, TInv', Charged, TokensBounded, NEW c \in Calls, NEW n \in Reported,
           Answered(c, n)
    PROVE  TokensBounded' /\ Charged'
<1> USE RateGateAssumption
<1>1. /\ usage[c] = 0 /\ n \in Nat /\ pc' = [pc EXCEPT ![c] = "ended"] /\ Window' = Window
      /\ usage' = [usage EXCEPT ![c] = IF c \in Window THEN n ELSE 0]
      /\ tokens' = tokens \/ (n > 0 /\ tokens' = [tokens EXCEPT ![c] = n])
  BY DEF Answered, Goto, Charged, Window
<1>2. \A d \in Calls : Counted(d)' <= Counted(d)
  <2>1. \A d \in Calls : usage[d] \in Nat /\ usage'[d] \in Nat /\ Estimate[d] \in Nat
                        /\ (d # c => usage'[d] = usage[d])
    <3>1. usage \in [Calls -> Nat] /\ usage' \in [Calls -> Nat]
      BY UsageType DEF TInv, TypeOK
    <3> QED
      BY <1>1, <3>1
  <2>2. \A d \in Calls : CountOf(Estimate[d], usage'[d]) <= CountOf(Estimate[d], usage[d])
    BY <1>1, <2>1 DEF CountOf
  <2> QED
    BY <2>2, ChargeValue DEF TInv
<1>3. TokensBounded'
  <2>1. Limitable' = Limitable
    BY <1>1 DEF Limitable
  <2>2. \A d \in Limitable' : Counted(d)' <= Counted(d)
    BY <1>2 DEF Limitable, Window
  <2> QED
    BY <2>1, <2>2, TokensShrink DEF TInv
<1>4. Charged'
  <2>1. \A d \in Calls : pc'[d] # "ended" => usage'[d] = 0
    BY <1>1 DEF Charged, TInv, TypeOK
  <2>2. ASSUME NEW d \in Window PROVE Counted(d)' <= tokens'[d]
    <3>1. /\ d \in Calls /\ Counted(d) \in Nat /\ Counted(d)' \in Nat /\ tokens[d] \in Nat
          /\ tokens'[d] \in Nat /\ Counted(d) <= tokens[d] /\ Counted(d)' <= Counted(d)
      BY <1>2, <2>2, ChargeValue DEF Charged, Window, TInv, TypeOK
    <3>2. CASE tokens'[d] = tokens[d]
      BY <3>1, <3>2
    <3>3. CASE tokens'[d] # tokens[d]
      <4>1. d = c /\ n > 0 /\ tokens'[c] = n /\ usage'[c] = n
        BY <1>1, <2>2, <3>1, <3>3 DEF TInv, TypeOK
      <4>2. Counted(c)' <= n
        BY <1>1, <4>1, ChargeValue DEF CountOf, TInv
      <4> QED
        BY <4>1, <4>2
    <3> QED
      BY <3>2, <3>3
  <2> QED
    BY <1>1, <2>1, <2>2 DEF Charged
<1> QED
  BY <1>3, <1>4

(* Every step keeps the tokens of the minute within the limit.             *)
LEMMA TokensInductive ==
    /\ Init => Charged /\ TokensBounded
    /\ TInv /\ Charged /\ TokensBounded /\ [Next]_vars => (Charged /\ TokensBounded)'
<1> USE RateGateAssumption
<1>1. ASSUME Init PROVE Charged /\ TokensBounded
  <2>1. Window = {} /\ Limitable = {}
    BY <1>1 DEF Init, Window, Limitable, Attempts
  <2>2. Charged
    BY <1>1, <2>1 DEF Init, Charged
  <2>3. SumFunctionOnSet(Charge, {}) = 0
    BY SumFirst
  <2> QED
    BY <2>1, <2>2, <2>3 DEF TokensBounded, Charge
<1>2. ASSUME TInv, Charged, TokensBounded, [Next]_vars PROVE (Charged /\ TokensBounded)'
  <2>1. TInv'
    BY <1>2, TInvInductive
  \* Most steps touch neither the windows nor what they count.
  <2>2. ASSUME UNCHANGED <<usage, sent, tokens>>,
               \A c \in Calls : pc[c] = "ended" => pc'[c] = "ended"
        PROVE  (Charged /\ TokensBounded)'
    <3>1. Window' = Window /\ Limitable' = Limitable /\ Charge' = Charge
          /\ \A c \in Calls : Counted(c)' = Counted(c)
      BY <2>2 DEF Window, Limitable, Charge, Counted
    <3>2. TokensBounded'
      BY <1>2, <3>1 DEF TokensBounded, Charge
    <3>3. Charged'
      BY <1>2, <2>2, <3>1 DEF Charged, Window
    <3> QED
      BY <3>2, <3>3
  <2>3. ASSUME NEW c \in Calls, Reserve(c) PROVE (Charged /\ TokensBounded)'
    BY <1>2, <2>1, <2>3, ReserveKeepsTokens
  <2>4. ASSUME NEW c \in Calls, NEW n \in Reported, Answered(c, n)
        PROVE  (Charged /\ TokensBounded)'
    BY <1>2, <2>1, <2>4, AnsweredKeepsTokens
  <2>5. ASSUME NEW c \in Calls,
               Enter(c) \/ Wait(c) \/ FastLaneSaturated(Estimate[c]) \/ BackOff(c) \/ Raise(c)
        PROVE  (Charged /\ TokensBounded)'
    <3>1. UNCHANGED <<usage, sent, tokens>>
          /\ \A d \in Calls : pc[d] = "ended" => pc'[d] = "ended"
      BY <1>2, <2>5 DEF Enter, Wait, FastLaneSaturated, BackOff, Raise, Goto, TInv, TypeOK
    <3> QED
      BY <2>2, <3>1
  \* A retry has no slot of its own.
  <2>6. ASSUME NEW c \in Calls, Retry(c) PROVE (Charged /\ TokensBounded)'
    <3>1. tries[c] > 0 /\ tries[c] \in Nat
      BY <1>2, <2>6 DEF Retry, TInv, TypeOK, SentInOrder
    <3>2. /\ UNCHANGED <<usage, tokens>> /\ \A d \in Calls : pc[d] = "ended" => pc'[d] = "ended"
          /\ \A d \in Calls : sent'[d][1] = sent[d][1]
      <4>1. 1 \in Attempts /\ tries[c] + 1 # 1
        BY <3>1 DEF Attempts
      <4> QED
        BY <1>2, <2>6, <4>1 DEF Retry, Send, Goto, TInv, TypeOK
    <3>3. Window' = Window /\ Limitable' = Limitable /\ Charge' = Charge
          /\ \A d \in Calls : Counted(d)' = Counted(d)
      BY <3>2 DEF Window, Limitable, Charge, Counted
    <3>4. TokensBounded'
      BY <1>2, <3>3 DEF TokensBounded, Charge
    <3>5. Charged'
      BY <1>2, <3>2, <3>3 DEF Charged, Window
    <3> QED
      BY <3>4, <3>5
  <2>7. ASSUME Tick PROVE (Charged /\ TokensBounded)'
    <3>1. pc' = pc /\ \A c \in Calls :
             sent'[c][1] = IF sent[c][1] < Minute THEN sent[c][1] + 1 ELSE sent[c][1]
      BY <2>7 DEF Tick, Older, Attempts
    <3>2. \A c \in Calls : sent[c][1] \in 0..Minute
      BY <1>2 DEF TInv, TypeOK, Attempts
    <3>3. \A c \in Window' : c \in Window /\ usage'[c] = usage[c] /\ tokens'[c] = tokens[c]
      <4> SUFFICES ASSUME NEW c \in Window'
                   PROVE  c \in Window /\ usage'[c] = usage[c] /\ tokens'[c] = tokens[c]
        OBVIOUS
      <4>1. c \in Calls /\ sent'[c][1] < Minute
        BY DEF Window
      <4>2. sent[c][1] < Minute /\ ~(sent[c][1] + 1 >= Minute)
        BY <3>1, <3>2, <4>1
      <4>3. usage'[c] = usage[c] /\ tokens'[c] = tokens[c]
        BY <2>7, <4>1, <4>2 DEF Tick
      <4> QED
        BY <4>1, <4>2, <4>3 DEF Window
    <3>4. \A c \in Window' : Counted(c)' = Counted(c)
      BY <3>3 DEF Counted
    <3>5. TokensBounded'
      <4>1. Limitable' \subseteq Limitable
        BY <3>3 DEF Limitable
      <4>2. \A c \in Limitable' : Counted(c)' <= Counted(c)
        BY <1>2, <3>4, ChargeValue DEF Limitable, Window, TInv
      <4> QED
        BY <1>2, <2>1, <4>1, <4>2, TokensShrink DEF TInv
    <3>6. Charged'
      <4>1. \A c \in Calls : pc'[c] # "ended" => usage'[c] = 0
        BY <1>2, <2>7, <3>1 DEF Charged, Tick
      <4> QED
        BY <1>2, <3>3, <3>4, <4>1 DEF Charged
    <3> QED
      BY <3>5, <3>6
  <2>8. CASE UNCHANGED vars
    BY <2>2, <2>8 DEF vars
  <2> QED
    BY <1>2, <2>3, <2>4, <2>5, <2>6, <2>7, <2>8 DEF Next, Advance, Responds
<1> QED
  BY <1>1, <1>2

(* For any limits and calls, however the reconciliations are lost, the     *)
(* tokens of a minute stay within LLM_TPM (llm.py:82-122, 182-188).        *)
THEOREM TokensBoundedCorrect == Spec => []TokensBounded
<1>1. Init => TInv /\ Charged /\ TokensBounded
  BY TInvInductive, TokensInductive
<1>2. TInv /\ Charged /\ TokensBounded /\ [Next]_vars => (TInv /\ Charged /\ TokensBounded)'
  BY TInvInductive, TokensInductive
<1> QED
  BY <1>1, <1>2, PTL DEF Spec

=============================================================================
