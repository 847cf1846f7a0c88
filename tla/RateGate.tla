------------------------------ MODULE RateGate ------------------------------
(***************************************************************************)
(* The rate gate of one model in one process (src/app/pipeline/llm.py):    *)
(* the semaphore, the sliding windows of requests and tokens, the minimum  *)
(* interval, the retries after a 429 and the reconciliation of estimated   *)
(* with reported tokens.                                                   *)
(*                                                                         *)
(* All calls run on one event loop, and nothing awaits inside the lock of  *)
(* _reserve_slot(): one pass of its loop is one step.  Time is discrete, a *)
(* tick being any part of a minute, and a moment is kept as its age, up to *)
(* the age at which it leaves the windows.  How long a call sleeps between *)
(* two passes, or before a retry, is left open.                            *)
(***************************************************************************)
EXTENDS Naturals, FiniteSets, FiniteSetsExt

CONSTANTS
    Calls,           \* the _call()s ever made
    Estimate,        \* the _estimate_tokens() of each
    Reported,        \* the usage an answer may report
    Rpm, Tpm,        \* LLM_RPM, LLM_TPM
    MaxConcurrency,  \* LLM_MAX_CONCURRENCY
    Gap,             \* LLM_MIN_INTERVAL_MS, in ticks
    MaxRetries,      \* max_retries (2 in the code)
    Minute           \* the length of the windows, in ticks

ASSUME RateGateAssumption ==
    /\ IsFiniteSet(Calls) /\ Estimate \in [Calls -> Nat] /\ Reported \subseteq Nat
    /\ Rpm \in Nat \ {0} /\ Tpm \in Nat \ {0} /\ MaxConcurrency \in Nat \ {0}
    /\ Gap \in Nat /\ MaxRetries \in Nat /\ Minute \in Nat \ {0}

VARIABLES
    pc,      \* where each call is
    usage,   \* history: the tokens reported for it, while its slot counts
    tries,   \* the requests it has sent
    sent,    \* the age of each of them, from when it is handed to the HTTP
             \* client; the first has the age of its slot
    tokens,  \* what its entry in token_window counts, while it is there
    live,    \* the calls in flight whose reservation is still that entry
    rest     \* the age of last_request_at, up to Gap

vars == <<pc, usage, tries, sent, tokens, live, rest>>

-----------------------------------------------------------------------------
Attempts == 1..(MaxRetries + 1)

\* The calls that hold the semaphore.
InFlight == {c \in Calls : pc[c] \in {"waiting", "sending", "backoff"}}

\* request_window: the slots of the last minute.
Window == {c \in Calls : sent[c][1] < Minute}

\* _window_tokens(), whose side effect is below.
WindowTokens == SumFunctionOnSet(tokens, Window)

\* It rebuilds token_window from copies: no reservation is an entry of it any
\* more.  An estimate above the limit is let through without a look at it.
LiveAfter(e) == IF e >= Tpm THEN live ELSE {}

Goto(c, label) == pc' = [pc EXCEPT ![c] = label]

Send(c) ==
    /\ tries' = [tries EXCEPT ![c] = @ + 1]
    /\ sent' = [sent EXCEPT ![c] = [@ EXCEPT ![tries[c] + 1] = 0]]

Init ==
    /\ pc = [c \in Calls |-> "queued"]
    /\ usage = [c \in Calls |-> 0]
    /\ tries = [c \in Calls |-> 0]
    /\ sent = [c \in Calls |-> [k \in Attempts |-> Minute]]
    /\ tokens = [c \in Calls |-> 0]
    /\ live = {}
    /\ rest = Gap

-----------------------------------------------------------------------------
(* _call() and _reserve_slot(). *)

Enter(c) ==
    /\ pc[c] = "queued"
    /\ Cardinality(InFlight) < MaxConcurrency
    /\ Goto(c, "waiting")
    /\ UNCHANGED <<usage, tries, sent, tokens, live, rest>>

\* Mutated form: the limit itself is let through.
ReqOkOneMore == Cardinality(Window) <= Rpm

ReqOk == Cardinality(Window) < Rpm

\* Mutated form: an estimate above the limit waits as the others do.
TokOkStrict(e) == WindowTokens + e <= Tpm

TokOk(e) == e >= Tpm \/ WindowTokens + e <= Tpm

GapOk == rest = Gap

\* A slot is reserved, and the request is handed to a fresh HTTP client
\* without an await in between; its connection is the network's matter.
Reserve(c) ==
    /\ pc[c] = "waiting" /\ ReqOk /\ TokOk(Estimate[c]) /\ GapOk
    /\ tokens' = [tokens EXCEPT ![c] = Estimate[c]]
    /\ live' = LiveAfter(Estimate[c]) \cup {c}
    /\ rest' = 0
    /\ Send(c)
    /\ Goto(c, "sending")
    /\ UNCHANGED usage

\* No room: the call sleeps and looks again.
Wait(c) ==
    /\ pc[c] = "waiting" /\ ~(ReqOk /\ TokOk(Estimate[c]) /\ GapOk)
    /\ live' = LiveAfter(Estimate[c])
    /\ UNCHANGED <<pc, usage, tries, sent, tokens, rest>>

\* fast_lane_saturated(), for a batch whose lane is to be chosen.
FastLaneSaturated(e) ==
    /\ live' = LiveAfter(e)
    /\ UNCHANGED <<pc, usage, tries, sent, tokens, rest>>

-----------------------------------------------------------------------------
(* _send_with_retries(). *)

\* Mutated form: the estimate is taken out in any case, and what is reported
\* counts only where the reservation is still in the window.
AnsweredRefunds(c, n) ==
    /\ pc[c] = "sending"
    /\ usage' = [usage EXCEPT ![c] = IF c \in Window THEN n ELSE 0]
    /\ tokens' = [tokens EXCEPT ![c] = IF c \in live THEN n ELSE 0]
    /\ live' = live \ {c}
    /\ Goto(c, "ended")
    /\ UNCHANGED <<tries, sent, rest>>

\* The answer comes with its usage, which is written to the reservation.
Answered(c, n) ==
    /\ pc[c] = "sending"
    /\ usage' = [usage EXCEPT ![c] = IF c \in Window THEN n ELSE 0]
    /\ tokens' = IF c \in live /\ n > 0 THEN [tokens EXCEPT ![c] = n] ELSE tokens
    /\ live' = live \ {c}
    /\ Goto(c, "ended")
    /\ UNCHANGED <<tries, sent, rest>>

\* Mutated form: one retry too many.
BackOffOnceMore(c) ==
    /\ pc[c] = "sending" /\ tries[c] <= MaxRetries + 1
    /\ Goto(c, "backoff")
    /\ UNCHANGED <<usage, tries, sent, tokens, live, rest>>

\* A 429: the call sleeps before it tries again, without a new slot.
BackOff(c) ==
    /\ pc[c] = "sending" /\ tries[c] <= MaxRetries
    /\ Goto(c, "backoff")
    /\ UNCHANGED <<usage, tries, sent, tokens, live, rest>>

Retry(c) ==
    /\ pc[c] = "backoff"
    /\ Send(c)
    /\ Goto(c, "sending")
    /\ UNCHANGED <<usage, tokens, live, rest>>

\* The retries are used up or would take too long, another error, or the
\* client's timeout.
Raise(c) ==
    /\ pc[c] = "sending"
    /\ live' = live \ {c}
    /\ Goto(c, "ended")
    /\ UNCHANGED <<usage, tries, sent, tokens, rest>>

-----------------------------------------------------------------------------
Older(age, limit) == IF age < limit THEN age + 1 ELSE age

\* Calls whose slot leaves the windows take their tokens with them.
Tick ==
    LET old == {c \in Calls : sent[c][1] + 1 >= Minute}
        Kept(f) == [c \in Calls |-> IF c \in old THEN 0 ELSE f[c]]
    IN  /\ sent' = [c \in Calls |-> [k \in Attempts |-> Older(sent[c][k], Minute)]]
        /\ rest' = Older(rest, Gap)
        /\ tokens' = Kept(tokens) /\ usage' = Kept(usage)
        /\ live' = live \ old
        /\ UNCHANGED <<pc, tries>>

Responds(c) == (\E n \in Reported : Answered(c, n)) \/ BackOff(c) \/ Raise(c)

Advance(c) == Enter(c) \/ Reserve(c) \/ Responds(c) \/ Retry(c)

Next ==
    \/ \E c \in Calls : Advance(c) \/ Wait(c) \/ FastLaneSaturated(Estimate[c])
    \/ Tick

Spec == Init /\ [][Next]_vars

\* Time passes, and the calls do not stand still for ever: one that sleeps
\* looks again, and every request is answered or times out.
FairSpec == Spec /\ WF_vars(Tick) /\ WF_vars(\E c \in Calls : Advance(c))

=============================================================================
