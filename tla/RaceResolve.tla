---------------------------- MODULE RaceResolve -----------------------------
(***************************************************************************)
(* One call of RaceResolve (internal/client/resolver.go): a goroutine per  *)
(* upstream sends what Resolve returned on a buffered channel, and the     *)
(* caller's loop selects between that channel, a 5 s timer and its own     *)
(* context.  The goroutines outlive the call: what they do after it has    *)
(* returned is part of the model.                                          *)
(*                                                                         *)
(* The channel is the part of `sent` that the loop has not taken yet, so   *)
(* `sent` is also the history of every answer in the order it arrived.     *)
(***************************************************************************)
EXTENDS Naturals, Sequences, FiniteSets

CONSTANTS Clients, NoClient

ASSUME ClientsAssumption == IsFiniteSet(Clients) /\ NoClient \notin Clients

VARIABLES answer,      \* answer[c]: what Resolve of c returned, or "silent"
          sent,        \* the clients in the order they sent on `results`
          taken,       \* how many of them the loop has received (its i)
          bestFail,    \* first response that was not NOERROR, or NoClient
          lastErr,     \* some error was received
          timer,       \* the 5 s timer has fired
          ctxDone,     \* the caller's context has ended
          ret          \* what the call returned

vars == <<answer, sent, taken, bestFail, lastErr, timer, ctxDone, ret>>

\* "ok": NOERROR; "neg": any other response code; "nil": neither a response
\* nor an error; "fail": an error.
Kinds   == {"ok", "neg", "nil", "fail"}
Pending == [kind |-> "pending", from |-> NoClient]
Failed  == [kind |-> "fail", from |-> NoClient]
Reply(kind, c) == [kind |-> kind, from |-> c]

TypeOK ==
    /\ answer \in [Clients -> Kinds \cup {"silent"}]
    /\ sent \in Seq(Clients)
    /\ taken \in 0 .. Len(sent)
    /\ bestFail \in Clients \cup {NoClient}
    /\ lastErr \in BOOLEAN
    /\ timer \in BOOLEAN
    /\ ctxDone \in BOOLEAN
    /\ ret \in {Pending, Failed} \cup [kind : {"ok", "neg"}, from : Clients]

-----------------------------------------------------------------------------
\* Mutant: the loop runs once too few.
N_OneFewer == Cardinality(Clients) - 1

N == Cardinality(Clients)

\* Mutant: room for one answer only.
Cap_One == 1

\* make(chan raceResult, len(clients))
Cap == N

HasSent(c) == \E i \in 1 .. Len(sent) : sent[i] = c

\* raceCtx has ended: the caller's context did, or RaceResolve returned and
\* ran its deferred cancel.
RaceCtxDone == ctxDone \/ ret # Pending

Init ==
    /\ answer = [c \in Clients |-> "silent"]
    /\ sent = << >>
    /\ taken = 0
    /\ bestFail = NoClient
    /\ lastErr = FALSE
    /\ timer = FALSE
    /\ ctxDone = FALSE
    /\ ret = IF Clients = {} THEN Failed ELSE Pending

-----------------------------------------------------------------------------
(* The goroutine of client c.                                              *)

\* cl.Resolve(raceCtx, reqClone) returns.
Answer(c, k) ==
    /\ answer[c] = "silent"
    /\ answer' = [answer EXCEPT ![c] = k]
    /\ UNCHANGED <<sent, taken, bestFail, lastErr, timer, ctxDone, ret>>

\* results <- raceResult{...}: blocks while the channel is full.
Send(c) ==
    /\ answer[c] # "silent"
    /\ ~HasSent(c)
    /\ Len(sent) - taken < Cap
    /\ sent' = Append(sent, c)
    /\ UNCHANGED <<answer, taken, bestFail, lastErr, timer, ctxDone, ret>>

-----------------------------------------------------------------------------
(* The receive loop.  Of the ready cases select takes any.                 *)

InLoop == ret = Pending /\ taken < N

\* Mutant: the latest answer first.
NextResult_Newest == sent[Len(sent)]

NextResult == sent[taken + 1]

Receivable(k) == InLoop /\ taken < Len(sent) /\ answer[NextResult] = k

\* An error, or neither a response nor an error.
ReceiveError ==
    /\ Receivable("fail") \/ Receivable("nil")
    /\ taken' = taken + 1
    /\ lastErr' = TRUE
    /\ UNCHANGED <<answer, sent, bestFail, timer, ctxDone, ret>>

ReceiveSuccess ==
    /\ Receivable("ok")
    /\ taken' = taken + 1
    /\ ret' = Reply("ok", NextResult)
    /\ UNCHANGED <<answer, sent, bestFail, lastErr, timer, ctxDone>>

\* Mutant: a later response replaces an earlier one.
ReceiveNegative_KeepsLast ==
    /\ Receivable("neg")
    /\ taken' = taken + 1
    /\ bestFail' = NextResult
    /\ UNCHANGED <<answer, sent, lastErr, timer, ctxDone, ret>>

\* The first response that is not NOERROR is kept, and the wait goes on.
ReceiveNegative ==
    /\ Receivable("neg")
    /\ taken' = taken + 1
    /\ bestFail' = IF bestFail = NoClient THEN NextResult ELSE bestFail
    /\ UNCHANGED <<answer, sent, lastErr, timer, ctxDone, ret>>

\* Mutant: the fallback is forgotten.
BestFailOr_Forgotten(v) == v

BestFailOr(v) == IF bestFail # NoClient THEN Reply("neg", bestFail) ELSE v

OnTimer ==
    /\ InLoop /\ timer
    /\ ret' = BestFailOr(Failed)
    /\ UNCHANGED <<answer, sent, taken, bestFail, lastErr, timer, ctxDone>>

OnCtxDone ==
    /\ InLoop /\ ctxDone
    /\ ret' = Failed
    /\ UNCHANGED <<answer, sent, taken, bestFail, lastErr, timer, ctxDone>>

\* The loop has taken every answer.
Exhausted ==
    /\ ret = Pending /\ taken = N
    /\ ret' = BestFailOr(Failed)
    /\ UNCHANGED <<answer, sent, taken, bestFail, lastErr, timer, ctxDone>>

Loop == \/ ReceiveError \/ ReceiveSuccess \/ ReceiveNegative
        \/ OnTimer \/ OnCtxDone \/ Exhausted

-----------------------------------------------------------------------------
(* Time and the caller.                                                    *)

\* Mutant: no timer.
TimerFires_Never == FALSE /\ UNCHANGED vars

TimerFires ==
    /\ ret = Pending /\ ~timer
    /\ timer' = TRUE
    /\ UNCHANGED <<answer, sent, taken, bestFail, lastErr, ctxDone, ret>>

CtxEnds ==
    /\ ~ctxDone
    /\ ctxDone' = TRUE
    /\ UNCHANGED <<answer, sent, taken, bestFail, lastErr, timer, ret>>

-----------------------------------------------------------------------------
Next ==
    \/ \E c \in Clients, k \in Kinds : Answer(c, k)
    \/ \E c \in Clients : Send(c)
    \/ Loop
    \/ TimerFires
    \/ CtxEnds

Spec == Init /\ [][Next]_vars

\* The caller and the senders are scheduled, the timer fires, and a client
\* returns from Resolve once raceCtx has ended: until then it may wait as
\* long as it likes.
Fairness ==
    /\ WF_vars(Loop)
    /\ WF_vars(TimerFires)
    /\ \A c \in Clients :
         /\ WF_vars(RaceCtxDone /\ \E k \in Kinds : Answer(c, k))
         /\ WF_vars(Send(c))

FairSpec == Spec /\ Fairness

-----------------------------------------------------------------------------
(* Properties.                                                             *)

\* The answer at position i is the first one of kind k to have arrived.
FirstOfKind(k, i) ==
    /\ answer[sent[i]] = k
    /\ \A j \in 1 .. i - 1 : answer[sent[j]] # k

\* A race that returns a NOERROR response returns the one that arrived first,
\* and no upstream's late answer can replace it (resolver.go:55-58).
FirstSuccessWins ==
    ret.kind = "ok" =>
        \E i \in 1 .. Len(sent) : sent[i] = ret.from /\ FirstOfKind("ok", i)

\* NXDOMAIN, SERVFAIL and the like are a fallback (resolver.go:59-62, 74-77):
\* the first of them is returned, and only when every upstream has answered
\* and none with NOERROR, or when the timer has fired.
NegativeIsFallback ==
    ret.kind = "neg" =>
        /\ \E i \in 1 .. Len(sent) : sent[i] = ret.from /\ FirstOfKind("neg", i)
        /\ \/ timer
           \/ \A c \in Clients : HasSent(c) /\ answer[c] # "ok"

\* An error is returned only for want of anything better (resolver.go:69,
\* 79-82): unless time ran out, every upstream has answered and none of the
\* answers is a response.
ErrorIsLastResort ==
    ret.kind = "fail" =>
        \/ timer \/ ctxDone
        \/ \A c \in Clients : HasSent(c) /\ answer[c] \in {"nil", "fail"}

\* An upstream's answer arrives once, and after Resolve has returned it.
ArrivedOnce ==
    /\ \A i, j \in 1 .. Len(sent) : sent[i] = sent[j] => i = j
    /\ \A i \in 1 .. Len(sent) : answer[sent[i]] # "silent"

\* A NOERROR response ends the race when it is taken.
NoSuccessTaken == ret = Pending => \A i \in 1 .. taken : answer[sent[i]] # "ok"

\* bestFail is the first other response among the answers taken.
FallbackIsFirst ==
    IF bestFail = NoClient
    THEN \A i \in 1 .. taken : answer[sent[i]] # "neg"
    ELSE \E i \in 1 .. taken : sent[i] = bestFail /\ FirstOfKind("neg", i)

\* What the loop knows when it has gone through some of the answers
\* (resolver.go:42-62).  With the three properties above it is inductive.
LoopKnows == ArrivedOnce /\ NoSuccessTaken /\ FallbackIsFirst

\* With the types of the variables.
RaceInv == TypeOK /\ LoopKnows

\* Every call returns: the loop never waits for an upstream that stays silent
\* (resolver.go:39-40, 63-70).
RaceReturns == <>(ret # Pending)

\* No goroutine outlives the race for good (resolver.go:21-32): the losers see
\* raceCtx end, and the buffer takes their answer though nobody receives it.
GoroutinesEnd == <>(\A c \in Clients : HasSent(c))

-----------------------------------------------------------------------------
(* RaceResolve implements UpstreamRace: an upstream is heard when its       *)
(* answer is in the channel, and "nil" is heard as a failure.              *)

Heard(c) ==
    IF ~HasSent(c) THEN "silent"
    ELSE IF answer[c] = "nil" THEN "fail" ELSE answer[c]

Race == INSTANCE UpstreamRace WITH
    heard   <- [c \in Clients |-> Heard(c)],
    expired <- timer \/ ctxDone,
    verdict <- ret

\* Every behaviour of the race is one UpstreamRace allows (resolver.go:16-83).
ImplementsUpstreamRace == Race!RaceSpec
=============================================================================
