------------------------- MODULE RateGateProperties -------------------------
(***************************************************************************)
(* What the rate gate of RateGate.tla promises.                            *)
(***************************************************************************)
EXTENDS RateGate

(* Every variable keeps its shape: ages do not exceed the window, and a    *)
(* call sends one request and its retries.                                 *)
TypeOK ==
    /\ pc \in [Calls -> {"queued", "waiting", "sending", "backoff", "ended"}]
    /\ usage \in [Calls -> Reported \cup {0}]
    /\ tries \in [Calls -> 0..(MaxRetries + 1)]
    /\ sent \in [Calls -> [Attempts -> 0..Minute]]
    /\ tokens \in [Calls -> Nat]
    /\ live \subseteq Calls
    /\ rest \in 0..Gap

(* A retry takes no slot (llm.py:142-148), so a minute sees more requests  *)
(* than LLM_RPM: those of the calls that got a slot in it, and the retries *)
(* of calls that were in flight when it began, of which the semaphore      *)
(* admits LLM_MAX_CONCURRENCY.                                             *)
SentThisMinute == {s \in Calls \X Attempts : sent[s[1]][s[2]] < Minute}

SendsBounded ==
    Cardinality(SentThisMinute) <= (1 + MaxRetries) * Rpm + MaxRetries * MaxConcurrency

(* The gate keeps the tokens of a minute within LLM_TPM, counting for a    *)
(* call the smaller of what was estimated and what was reported, and       *)
(* leaving out the calls above the limit, which it lets through: a         *)
(* reservation that is no longer an entry of the window (llm.py:83, 187)   *)
(* only makes it stricter.                                                 *)
Counted(c) == IF usage[c] = 0 THEN Estimate[c] ELSE Min({Estimate[c], usage[c]})

Limitable == {c \in Window : Estimate[c] < Tpm}

TokensBounded == SumFunctionOnSet([c \in Calls |-> Counted(c)], Limitable) <= Tpm

(* Every call is served in the end, also one whose estimate is above the   *)
(* limit (llm.py:101).                                                     *)
CallsEnd == <>(\A c \in Calls : pc[c] = "ended")

=============================================================================
