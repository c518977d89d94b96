----------------------------- MODULE RaceProofs -----------------------------
(***************************************************************************)
(* Proofs about RaceResolve, for any finite set of upstreams.  The         *)
(* inductive invariant is LoopKnows with the three properties of what the  *)
(* call returns.  That an answer which has arrived never changes (Settled) *)
(* does most of the work; that N receptions are the answers of all         *)
(* upstreams (TakenAll) is a counting argument, and so is that no sender   *)
(* waits (OneMoreFits).                                                    *)
(***************************************************************************)
EXTENDS RaceResolve, FiniteSetTheorems, TLAPS

-----------------------------------------------------------------------------
(* The number of upstreams and the channel.                                *)

\* The loop has a bound.
LEMMA NumberOfClients == N \in Nat
    BY ClientsAssumption, FS_CardinalityType DEF N

\* What is in the channel keeps its place when another answer follows.
LEMMA AppendKeeps ==
    ASSUME NEW s \in Seq(Clients), NEW c \in Clients
    PROVE  /\ Append(s, c) \in Seq(Clients)
           /\ Len(Append(s, c)) = Len(s) + 1
           /\ \A i \in 1 .. Len(s) : Append(s, c)[i] = s[i]
           /\ Append(s, c)[Len(s) + 1] = c
    OBVIOUS

\* The nil response is no upstream, and no two results are confused.
LEMMA Results ==
    /\ NoClient \notin Clients
    /\ Failed # Pending
    /\ \A k \in {"ok", "neg"} : \A c \in Clients :
          /\ Reply(k, c) # Pending
          /\ Reply(k, c).kind = k
          /\ Reply(k, c).from = c
          /\ Reply(k, c) \in [kind : {"ok", "neg"}, from : Clients]
    /\ Failed.kind = "fail"
    /\ Pending.kind = "pending"
    BY ClientsAssumption DEF Failed, Pending, Reply

\* When the loop has received N answers, every upstream has sent: N
\* different clients are all of them.
LEMMA TakenAll ==
    ASSUME TypeOK, LoopKnows, taken = N
    PROVE  \A c \in Clients : \E i \in 1 .. taken : sent[i] = c
<1> DEFINE f == [i \in 1 .. N |-> sent[i]]
<1>1. N \in Nat /\ N <= Len(sent) /\ Len(sent) \in Nat
    BY NumberOfClients DEF TypeOK
<1>2. \A i \in 1 .. N : i \in 1 .. Len(sent) /\ sent[i] \in Clients
    BY <1>1 DEF TypeOK
<1>3. f \in [1 .. N -> Clients]
    BY <1>2
<1>4. IsInjective(f)
  <2> SUFFICES ASSUME NEW i \in DOMAIN f, NEW j \in DOMAIN f, f[i] = f[j]
               PROVE  i = j
    BY DEF IsInjective
  <2>1. i \in 1 .. Len(sent) /\ j \in 1 .. Len(sent) /\ sent[i] = sent[j]
    BY <1>2
  <2> QED
    BY <2>1 DEF LoopKnows, ArrivedOnce
<1>5. f \in Injection(1 .. N, Clients)
    BY <1>3, <1>4 DEF Injection
<1>6. Cardinality(1 .. N) = Cardinality(Clients)
  <2>1. Cardinality(1 .. N) = IF 1 > N THEN 0 ELSE N - 1 + 1
    BY <1>1, FS_Interval
  <2> QED
    BY <2>1, <1>1 DEF N
<1>7. f \in Surjection(1 .. N, Clients)
    BY <1>5, <1>6, ClientsAssumption, FS_Injection
<1> QED
    BY <1>7 DEF Surjection

-----------------------------------------------------------------------------
(* Types.                                                                  *)

\* The initial values have their types.
LEMMA TypeInit == Init => TypeOK
<1> SUFFICES ASSUME Init PROVE TypeOK
    OBVIOUS
<1>1. answer \in [Clients -> Kinds \cup {"silent"}]
    BY DEF Init
<1>2. sent \in Seq(Clients) /\ taken \in 0 .. Len(sent)
    BY DEF Init
<1>3. ret \in {Pending, Failed}
    BY DEF Init
<1> QED
    BY <1>1, <1>2, <1>3 DEF Init, TypeOK

\* Every step keeps the types; a reception takes an answer that was sent.
LEMMA TypeStep == TypeOK /\ [Next]_vars => TypeOK'
<1> SUFFICES ASSUME TypeOK, [Next]_vars PROVE TypeOK'
    OBVIOUS
<1> USE DEF TypeOK
<1>1. ASSUME NEW c \in Clients, NEW k \in Kinds, Answer(c, k) PROVE TypeOK'
    BY <1>1 DEF Answer
<1>2. ASSUME NEW c \in Clients, Send(c) PROVE TypeOK'
  <2>1. sent' \in Seq(Clients) /\ Len(sent') = Len(sent) + 1
    BY <1>2, AppendKeeps DEF Send
  <2> QED
    BY <1>2, <2>1 DEF Send
<1>3. ASSUME ReceiveError PROVE TypeOK'
    BY <1>3 DEF ReceiveError, Receivable
<1>4. ASSUME ReceiveSuccess PROVE TypeOK'
  <2>1. taken < Len(sent) /\ NextResult \in Clients
    BY <1>4 DEF ReceiveSuccess, Receivable, NextResult
  <2>2. ret' \in [kind : {"ok", "neg"}, from : Clients]
    BY <1>4, <2>1, Results DEF ReceiveSuccess
  <2> QED
    BY <1>4, <2>1, <2>2 DEF ReceiveSuccess
<1>5. ASSUME ReceiveNegative PROVE TypeOK'
  <2>1. taken < Len(sent) /\ NextResult \in Clients
    BY <1>5 DEF ReceiveNegative, Receivable, NextResult
  <2> QED
    BY <1>5, <2>1 DEF ReceiveNegative
<1>6. ASSUME ret' = BestFailOr(Failed),
             UNCHANGED <<answer, sent, taken, bestFail, lastErr, timer, ctxDone>>
      PROVE  TypeOK'
  <2>1. ret' \in {Failed} \cup [kind : {"ok", "neg"}, from : Clients]
    BY <1>6, Results DEF BestFailOr
  <2> QED
    BY <1>6, <2>1
<1>7. ASSUME OnCtxDone PROVE TypeOK'
    BY <1>7 DEF OnCtxDone
<1>8. ASSUME TimerFires \/ CtxEnds PROVE TypeOK'
    BY <1>8 DEF TimerFires, CtxEnds
<1>9. ASSUME UNCHANGED vars PROVE TypeOK'
    BY <1>9 DEF vars
<1> QED
    BY <1>1, <1>2, <1>3, <1>4, <1>5, <1>6, <1>7, <1>8, <1>9
    DEF Next, Loop, OnTimer, Exhausted

\* Every variable keeps its type, and the loop never counts more answers than
\* have been sent (resolver.go:42-44).
THEOREM TypeCorrect == Spec => []TypeOK
    BY TypeInit, TypeStep, PTL DEF Spec

-----------------------------------------------------------------------------
(* What has arrived.                                                       *)

\* An answer that has arrived neither moves nor changes: the goroutine of a
\* client sends once, after Resolve has returned (resolver.go:26-32).
Settled ==
    /\ Len(sent) <= Len(sent')
    /\ \A i \in 1 .. Len(sent) :
          /\ sent'[i] = sent[i]
          /\ answer'[sent[i]] = answer[sent[i]]

\* Every step leaves what has arrived as it is.
LEMMA ArrivedStays ==
    ASSUME TypeOK, TypeOK', LoopKnows, [Next]_vars
    PROVE  Settled
<1>1. ASSUME NEW c \in Clients, NEW k \in Kinds, Answer(c, k) PROVE Settled
  <2>1. \A i \in 1 .. Len(sent) : sent[i] # c
    BY <1>1 DEF Answer, LoopKnows, ArrivedOnce
  <2>2. \A i \in 1 .. Len(sent) : answer'[sent[i]] = answer[sent[i]]
    BY <1>1, <2>1 DEF Answer, TypeOK
  <2> QED
    BY <1>1, <2>2 DEF Answer, Settled, TypeOK
<1>2. ASSUME NEW c \in Clients, Send(c) PROVE Settled
    BY <1>2, AppendKeeps DEF Send, Settled, TypeOK
<1>3. ASSUME UNCHANGED <<answer, sent>> PROVE Settled
    BY <1>3 DEF Settled, TypeOK
<1> QED
    BY <1>1, <1>2, <1>3
    DEF Next, Loop, ReceiveError, ReceiveSuccess, ReceiveNegative, OnTimer,
        OnCtxDone, Exhausted, TimerFires, CtxEnds, vars

\* The first arrival of a kind stays the first.
LEMMA FirstStays ==
    ASSUME TypeOK, Settled, NEW k, NEW i \in 1 .. Len(sent), FirstOfKind(k, i)
    PROVE  FirstOfKind(k, i)' /\ sent'[i] = sent[i] /\ i \in 1 .. Len(sent')
<1>1. Len(sent) \in Nat /\ Len(sent') >= Len(sent) /\ i \in 1 .. Len(sent')
    BY DEF TypeOK, Settled
<1>2. \A j \in 1 .. i : answer'[sent'[j]] = answer[sent[j]]
    BY <1>1 DEF Settled
<1> QED
    BY <1>1, <1>2 DEF Settled, FirstOfKind

\* Once every upstream has been heard, no answer is new.
LEMMA AllHeardStays ==
    ASSUME TypeOK, Settled, \A c \in Clients : HasSent(c)
    PROVE  \A c \in Clients : HasSent(c)' /\ answer'[c] = answer[c]
<1> SUFFICES ASSUME NEW c \in Clients PROVE HasSent(c)' /\ answer'[c] = answer[c]
    OBVIOUS
<1>1. PICK i \in 1 .. Len(sent) : sent[i] = c
    BY DEF HasSent
<1>2. Len(sent) \in Nat /\ i \in 1 .. Len(sent') /\ sent'[i] = c
    BY <1>1 DEF TypeOK, Settled
<1>3. answer'[c] = answer[c]
    BY <1>1 DEF Settled
<1> QED
    BY <1>2, <1>3 DEF HasSent

-----------------------------------------------------------------------------
(* What the loop knows.                                                    *)

\* At first nothing is taken, and nothing kept.
LEMMA LoopKnowsInit == Init => LoopKnows
<1> SUFFICES ASSUME Init PROVE LoopKnows
    OBVIOUS
<1>1. Len(sent) = 0 /\ taken = 0 /\ bestFail = NoClient
    BY DEF Init
<1> QED
    BY <1>1 DEF LoopKnows, ArrivedOnce, NoSuccessTaken, FallbackIsFirst

\* Only Send adds to what has arrived.
LEMMA ArrivedOnceStep ==
    ASSUME TypeOK, LoopKnows, Settled, [Next]_vars
    PROVE  ArrivedOnce'
<1> USE DEF ArrivedOnce
<1>1. ASSUME sent' = sent PROVE ArrivedOnce'
    BY <1>1 DEF LoopKnows, Settled, TypeOK
<1>2. ASSUME NEW c \in Clients, Send(c) PROVE ArrivedOnce'
  <2>1. /\ Len(sent) \in Nat
        /\ Len(sent') = Len(sent) + 1
        /\ \A i \in 1 .. Len(sent) : sent'[i] = sent[i]
        /\ sent'[Len(sent) + 1] = c
    BY <1>2, AppendKeeps DEF Send, TypeOK
  <2>2. answer' = answer /\ answer[c] # "silent"
    BY <1>2 DEF Send
  <2>3. \A i \in 1 .. Len(sent) : sent[i] # c
    BY <1>2 DEF Send, HasSent
  <2>4. \A i \in 1 .. Len(sent') : i \in 1 .. Len(sent) \/ i = Len(sent) + 1
    BY <2>1
  <2> QED
    BY <2>1, <2>2, <2>3, <2>4 DEF LoopKnows
<1> QED
    BY <1>1, <1>2
    DEF Next, Loop, Answer, ReceiveError, ReceiveSuccess, ReceiveNegative,
        OnTimer, OnCtxDone, Exhausted, TimerFires, CtxEnds, vars

\* What a reception does to the loop's counter, whatever it receives.
LEMMA TakesNext ==
    ASSUME TypeOK, Settled, NEW k, Receivable(k), taken' = taken + 1
    PROVE  /\ taken \in Nat /\ Len(sent) \in Nat /\ taken + 1 \in 1 .. Len(sent)
           /\ ret = Pending
           /\ NextResult = sent[taken + 1] /\ answer[NextResult] = k
           /\ \A i \in 1 .. taken' : i \in 1 .. taken \/ i = taken + 1
           /\ \A i \in 1 .. taken + 1 :
                 sent'[i] = sent[i] /\ answer'[sent'[i]] = answer[sent[i]]
<1>1. /\ taken \in Nat /\ Len(sent) \in Nat /\ taken < Len(sent)
      /\ ret = Pending /\ answer[NextResult] = k
    BY DEF TypeOK, Receivable, InLoop
<1> QED
    BY <1>1 DEF Settled, NextResult

\* A step that receives nothing leaves the answers taken as they are.
LEMMA TakenStay ==
    ASSUME TypeOK, Settled
    PROVE  \A i \in 1 .. taken :
              /\ i \in 1 .. Len(sent)
              /\ sent'[i] = sent[i] /\ answer'[sent'[i]] = answer[sent[i]]
    BY DEF TypeOK, Settled

\* The loop goes on only when what it took was not NOERROR.
LEMMA NoSuccessTakenStep ==
    ASSUME TypeOK, LoopKnows, Settled, [Next]_vars
    PROVE  NoSuccessTaken'
<1> USE DEF NoSuccessTaken, LoopKnows
<1>1. ASSUME taken' = taken, ret' = Pending => ret = Pending PROVE NoSuccessTaken'
    BY <1>1, TakenStay
<1>2. ASSUME ReceiveError \/ ReceiveNegative PROVE NoSuccessTaken'
  <2>1. PICK k \in {"fail", "nil", "neg"} : Receivable(k)
    BY <1>2 DEF ReceiveError, ReceiveNegative
  <2>2. taken' = taken + 1
    BY <1>2 DEF ReceiveError, ReceiveNegative
  <2> QED
    BY <2>1, <2>2, TakesNext
<1>3. ASSUME ReceiveSuccess PROVE NoSuccessTaken'
  <2>1. NextResult \in Clients
    BY <1>3 DEF ReceiveSuccess, Receivable, NextResult, TypeOK
  <2> QED
    BY <1>3, <2>1, Results DEF ReceiveSuccess
<1> QED
    BY <1>1, <1>2, <1>3
    DEF Next, Loop, Answer, Send, OnTimer, OnCtxDone, Exhausted, InLoop,
        TimerFires, CtxEnds, vars

\* The fallback is set by the first response of its kind, and never again.
LEMMA FallbackIsFirstStep ==
    ASSUME TypeOK, LoopKnows, Settled, [Next]_vars
    PROVE  FallbackIsFirst'
<1> USE DEF LoopKnows
<1>1. ASSUME bestFail # NoClient, bestFail' = bestFail,
             taken' = taken \/ (taken' = taken + 1)
      PROVE  FallbackIsFirst'
  <2>1. PICK i \in 1 .. taken : sent[i] = bestFail /\ FirstOfKind("neg", i)
    BY <1>1 DEF FallbackIsFirst
  <2>2. i \in 1 .. Len(sent) /\ i \in 1 .. taken'
    BY <1>1, <2>1 DEF TypeOK
  <2>3. FirstOfKind("neg", i)' /\ sent'[i] = sent[i]
    BY <2>1, <2>2, FirstStays
  <2> QED
    BY <1>1, <2>1, <2>2, <2>3 DEF FallbackIsFirst
<1>2. ASSUME bestFail = NoClient, bestFail' = bestFail, taken' = taken
      PROVE  FallbackIsFirst'
    BY <1>2, TakenStay DEF FallbackIsFirst
<1>3. ASSUME bestFail = NoClient, bestFail' = bestFail, taken' = taken + 1,
             NEW k \in {"fail", "nil", "ok"}, Receivable(k)
      PROVE  FallbackIsFirst'
    BY <1>3, TakesNext DEF FallbackIsFirst
<1>4. ASSUME bestFail = NoClient, ReceiveNegative
      PROVE  FallbackIsFirst'
  <2>1. /\ Receivable("neg") /\ taken' = taken + 1
        /\ bestFail' = NextResult
    BY <1>4 DEF ReceiveNegative
  <2>2. /\ taken + 1 \in 1 .. Len(sent) /\ taken \in Nat
        /\ NextResult = sent[taken + 1] /\ answer[NextResult] = "neg"
    BY <2>1, TakesNext
  <2> PICK i \in 1 .. Len(sent) : i = taken + 1
    BY <2>2
  <2>3. FirstOfKind("neg", i)
    BY <1>4, <2>2 DEF FallbackIsFirst, FirstOfKind
  <2>4. FirstOfKind("neg", i)' /\ sent'[i] = sent[i] /\ i \in 1 .. taken'
    BY <2>1, <2>2, <2>3, FirstStays
  <2>5. NextResult \in Clients /\ NextResult # NoClient
    BY <2>2, Results DEF TypeOK
  <2> QED
    BY <2>1, <2>2, <2>4, <2>5 DEF FallbackIsFirst
<1>5. ASSUME bestFail # NoClient, ReceiveNegative
      PROVE  FallbackIsFirst'
    BY <1>1, <1>5 DEF ReceiveNegative
<1>6. ASSUME ReceiveError \/ ReceiveSuccess PROVE FallbackIsFirst'
  <2>1. PICK k \in {"fail", "nil", "ok"} : Receivable(k)
    BY <1>6 DEF ReceiveError, ReceiveSuccess
  <2>2. taken' = taken + 1 /\ bestFail' = bestFail
    BY <1>6 DEF ReceiveError, ReceiveSuccess
  <2> QED
    BY <1>1, <1>3, <2>1, <2>2
<1>7. ASSUME taken' = taken, bestFail' = bestFail PROVE FallbackIsFirst'
    BY <1>1, <1>2, <1>7
<1> QED
    BY <1>4, <1>5, <1>6, <1>7
    DEF Next, Loop, Answer, Send, OnTimer, OnCtxDone, Exhausted,
        TimerFires, CtxEnds, vars

-----------------------------------------------------------------------------
(* What the call returns.                                                  *)

\* The steps that end the race, and what each of them returns.
LEMMA HowItEnds ==
    ASSUME TypeOK, [Next]_vars, ret' # ret
    PROVE  /\ ret = Pending
           /\ \/ ReceiveSuccess
              \/ (OnTimer \/ Exhausted) /\ ret' = BestFailOr(Failed)
              \/ OnCtxDone /\ ret' = Failed
    BY DEF Next, Loop, Answer, Send, ReceiveError, ReceiveSuccess, Receivable,
           InLoop, ReceiveNegative, OnTimer, OnCtxDone, Exhausted, TimerFires,
           CtxEnds, vars

\* Time that has run out stays so.
LEMMA TimerStays ==
    ASSUME [Next]_vars
    PROVE  (timer => timer') /\ (ctxDone => ctxDone')
    BY DEF Next, Loop, Answer, Send, ReceiveError, ReceiveSuccess,
           ReceiveNegative, OnTimer, OnCtxDone, Exhausted, TimerFires, CtxEnds,
           vars

\* The fallback, or an error for want of one.
LEMMA FallbackOrError ==
    ASSUME TypeOK, ret' = BestFailOr(Failed)
    PROVE  \/ /\ bestFail # NoClient /\ ret'.kind = "neg" /\ ret'.from = bestFail
           \/ bestFail = NoClient /\ ret'.kind = "fail"
    BY Results DEF TypeOK, BestFailOr

\* The loop returns a NOERROR response when it takes it, and every answer it
\* took before was of another kind; later answers come behind it.
LEMMA FirstSuccessWinsStep ==
    ASSUME TypeOK, LoopKnows, Settled, [Next]_vars, FirstSuccessWins
    PROVE  FirstSuccessWins'
<1> SUFFICES ASSUME ret'.kind = "ok"
             PROVE  \E i \in 1 .. Len(sent') :
                       sent'[i] = ret'.from /\ FirstOfKind("ok", i)'
    BY DEF FirstSuccessWins
<1>1. CASE ret' = ret
  <2>1. PICK i \in 1 .. Len(sent) : sent[i] = ret.from /\ FirstOfKind("ok", i)
    BY <1>1 DEF FirstSuccessWins
  <2> QED
    BY <1>1, <2>1, FirstStays
<1>2. CASE ret' # ret
  <2>1. ReceiveSuccess /\ ret = Pending
    BY <1>2, HowItEnds, FallbackOrError, Results
  <2>2. Receivable("ok") /\ taken' = taken + 1 /\ ret' = Reply("ok", NextResult)
    BY <2>1 DEF ReceiveSuccess
  <2>3. /\ taken + 1 \in 1 .. Len(sent) /\ taken \in Nat
        /\ NextResult = sent[taken + 1] /\ answer[NextResult] = "ok"
    BY <2>2, TakesNext
  <2>4. FirstOfKind("ok", taken + 1)
    BY <2>1, <2>3 DEF LoopKnows, NoSuccessTaken, FirstOfKind
  <2>5. NextResult \in Clients /\ ret'.from = NextResult
    BY <2>2, <2>3, Results DEF TypeOK
  <2> QED
    BY <2>3, <2>4, <2>5, FirstStays
<1> QED
    BY <1>1, <1>2

\* All the answers are taken and none ended the race.
LEMMA NothingBetter ==
    ASSUME TypeOK, LoopKnows, Exhausted
    PROVE  \A c \in Clients :
              /\ HasSent(c)
              /\ answer[c] \in {"neg", "nil", "fail"}
              /\ bestFail = NoClient => answer[c] # "neg"
<1> SUFFICES ASSUME NEW c \in Clients
             PROVE  /\ HasSent(c)
                    /\ answer[c] \in {"neg", "nil", "fail"}
                    /\ bestFail = NoClient => answer[c] # "neg"
    OBVIOUS
<1>1. taken = N /\ ret = Pending
    BY DEF Exhausted
<1>2. PICK i \in 1 .. taken : sent[i] = c
    BY <1>1, TakenAll
<1>3. i \in 1 .. Len(sent)
    BY <1>2 DEF TypeOK
<1>4. answer[c] \notin {"ok", "silent"} /\ (bestFail = NoClient => answer[c] # "neg")
    BY <1>1, <1>2, <1>3
    DEF LoopKnows, ArrivedOnce, NoSuccessTaken, FallbackIsFirst
<1> QED
    BY <1>2, <1>3, <1>4 DEF HasSent, TypeOK, Kinds

\* The loop returns its fallback on the timer or at its end; later answers
\* come behind it, and at its end there are none.
LEMMA NegativeIsFallbackStep ==
    ASSUME TypeOK, LoopKnows, Settled, [Next]_vars, NegativeIsFallback
    PROVE  NegativeIsFallback'
<1> SUFFICES ASSUME ret'.kind = "neg"
             PROVE  /\ \E i \in 1 .. Len(sent') :
                          sent'[i] = ret'.from /\ FirstOfKind("neg", i)'
                    /\ \/ timer'
                       \/ \A c \in Clients : HasSent(c)' /\ answer'[c] # "ok"
    BY DEF NegativeIsFallback
<1>1. CASE ret' = ret
  <2>1. PICK i \in 1 .. Len(sent) : sent[i] = ret.from /\ FirstOfKind("neg", i)
    BY <1>1 DEF NegativeIsFallback
  <2>2. \/ timer'
        \/ \A c \in Clients : HasSent(c)' /\ answer'[c] # "ok"
    BY <1>1, AllHeardStays, TimerStays DEF NegativeIsFallback
  <2> QED
    BY <1>1, <2>1, <2>2, FirstStays
<1>2. CASE ret' # ret
  <2>1. /\ OnTimer \/ Exhausted
        /\ bestFail # NoClient /\ ret'.from = bestFail
    <3>1. ret' # Failed
      BY Results
    <3>2. ~ReceiveSuccess
      <4> SUFFICES ASSUME ReceiveSuccess PROVE FALSE
        OBVIOUS
      <4>1. NextResult \in Clients
        BY DEF ReceiveSuccess, Receivable, NextResult, TypeOK
      <4> QED
        BY <4>1, Results DEF ReceiveSuccess
    <3> QED
      BY <1>2, <3>1, <3>2, HowItEnds, FallbackOrError, Results
  <2>2. PICK i \in 1 .. taken : sent[i] = bestFail /\ FirstOfKind("neg", i)
    BY <2>1 DEF LoopKnows, FallbackIsFirst
  <2>3. i \in 1 .. Len(sent)
    BY <2>2 DEF TypeOK
  <2>4. \/ timer'
        \/ \A c \in Clients : HasSent(c)' /\ answer'[c] # "ok"
    <3>1. CASE OnTimer
      BY <3>1 DEF OnTimer
    <3>2. CASE Exhausted
      BY <3>2, NothingBetter, AllHeardStays
    <3> QED
      BY <2>1, <3>1, <3>2
  <2> QED
    BY <2>1, <2>2, <2>3, <2>4, FirstStays
<1> QED
    BY <1>1, <1>2

\* The loop returns an error when time is up, or at its end without a fallback.
LEMMA ErrorIsLastResortStep ==
    ASSUME TypeOK, LoopKnows, Settled, [Next]_vars, ErrorIsLastResort
    PROVE  ErrorIsLastResort'
<1> SUFFICES ASSUME ret'.kind = "fail"
             PROVE  \/ timer' \/ ctxDone'
                    \/ \A c \in Clients :
                          HasSent(c)' /\ answer'[c] \in {"nil", "fail"}
    BY DEF ErrorIsLastResort
<1>1. CASE ret' = ret
    BY <1>1, AllHeardStays, TimerStays DEF ErrorIsLastResort
<1>2. CASE ret' # ret
  <2>1. ~ReceiveSuccess
    <3> SUFFICES ASSUME ReceiveSuccess PROVE FALSE
      OBVIOUS
    <3>1. NextResult \in Clients
      BY DEF ReceiveSuccess, Receivable, NextResult, TypeOK
    <3> QED
      BY <3>1, Results DEF ReceiveSuccess
  <2>2. CASE OnTimer
    BY <2>2 DEF OnTimer
  <2>3. CASE OnCtxDone
    BY <2>3 DEF OnCtxDone
  <2>4. CASE Exhausted /\ ret' = BestFailOr(Failed)
    <3>1. bestFail = NoClient
      BY <2>4, FallbackOrError
    <3> QED
      BY <2>4, <3>1, NothingBetter, AllHeardStays
  <2> QED
    BY <1>2, <2>1, <2>2, <2>3, <2>4, HowItEnds
<1> QED
    BY <1>1, <1>2

-----------------------------------------------------------------------------
(* The invariant and the theorems.                                         *)

\* LoopKnows and what the call returns, together inductive.
IInv == /\ TypeOK /\ LoopKnows
        /\ FirstSuccessWins /\ NegativeIsFallback /\ ErrorIsLastResort

\* The invariant holds at first: without upstreams the call has failed at once.
LEMMA IInvInit == Init => IInv
<1> SUFFICES ASSUME Init PROVE IInv
    OBVIOUS
<1>1. ret = Pending \/ (ret = Failed /\ Clients = {})
    BY DEF Init
<1>2. FirstSuccessWins /\ NegativeIsFallback /\ ErrorIsLastResort
    BY <1>1, Results DEF FirstSuccessWins, NegativeIsFallback, ErrorIsLastResort
<1> QED
    BY <1>2, TypeInit, LoopKnowsInit DEF IInv

\* Every step preserves the invariant.
LEMMA IInvStep == IInv /\ [Next]_vars => IInv'
<1> SUFFICES ASSUME IInv, [Next]_vars PROVE IInv'
    OBVIOUS
<1>1. TypeOK /\ LoopKnows /\ TypeOK' /\ Settled
    BY TypeStep, ArrivedStays DEF IInv
<1>2. LoopKnows'
    BY <1>1, ArrivedOnceStep, NoSuccessTakenStep, FallbackIsFirstStep DEF LoopKnows
<1>3. FirstSuccessWins' /\ NegativeIsFallback' /\ ErrorIsLastResort'
    BY <1>1, FirstSuccessWinsStep, NegativeIsFallbackStep, ErrorIsLastResortStep
    DEF IInv
<1> QED
    BY <1>1, <1>2, <1>3 DEF IInv

\* The invariant holds always.
LEMMA IInvHolds == Spec => []IInv
    BY IInvInit, IInvStep, PTL DEF Spec

\* What the loop knows of the answers it has taken (resolver.go:42-62).
THEOREM RaceInvariant == Spec => []RaceInv
<1>1. IInv => RaceInv
    BY DEF IInv, RaceInv
<1> QED
    BY <1>1, IInvHolds, PTL

\* A race that returns a NOERROR response returns the one that arrived first,
\* however many upstreams race (resolver.go:55-58).
THEOREM FirstSuccessWinsHolds == Spec => []FirstSuccessWins
<1>1. IInv => FirstSuccessWins
    BY DEF IInv
<1> QED
    BY <1>1, IInvHolds, PTL

\* Any other response is the first of its kind, and returned only when time
\* ran out or no upstream answered NOERROR (resolver.go:59-62, 74-77).
THEOREM NegativeIsFallbackHolds == Spec => []NegativeIsFallback
<1>1. IInv => NegativeIsFallback
    BY DEF IInv
<1> QED
    BY <1>1, IInvHolds, PTL

\* An error is returned only when time ran out or no upstream answered with
\* any response (resolver.go:69, 79-82).
THEOREM ErrorIsLastResortHolds == Spec => []ErrorIsLastResort
<1>1. IInv => ErrorIsLastResort
    BY DEF IInv
<1> QED
    BY <1>1, IInvHolds, PTL

-----------------------------------------------------------------------------
(* The refinement: every step of the goroutines, the channel and the loop  *)
(* is a step of UpstreamRace, or none.                                     *)

\* What UpstreamRace calls heard and expired.
heardBar   == [c \in Clients |-> Heard(c)]
expiredBar == timer \/ ctxDone

\* Only an answer that enters the channel is heard.
LEMMA NothingHeard ==
    ASSUME TypeOK, Settled, sent' = sent
    PROVE  heardBar' = heardBar
<1>1. \A c \in Clients : Heard(c)' = Heard(c)
    BY DEF Heard, HasSent, Settled
<1> QED
    BY <1>1 DEF heardBar

\* An answer that enters the channel is heard, and no other.
LEMMA SendIsHear ==
    ASSUME TypeOK, NEW c \in Clients, Send(c)
    PROVE  \E k \in Race!Kinds : Race!Hear(c, k)
<1> DEFINE k == IF answer[c] = "nil" THEN "fail" ELSE answer[c]
<1>1. answer[c] \in Kinds /\ answer' = answer /\ ~HasSent(c)
    BY DEF Send, TypeOK
<1>2. k \in Race!Kinds
    BY <1>1 DEF Kinds, Race!Kinds
<1>3. \A d \in Clients : HasSent(d)' <=> HasSent(d) \/ d = c
  <2> TAKE d \in Clients
  <2>1. /\ Len(sent) \in Nat /\ Len(sent') = Len(sent) + 1
        /\ \A i \in 1 .. Len(sent) : sent'[i] = sent[i]
        /\ sent'[Len(sent) + 1] = c
    BY AppendKeeps DEF Send, TypeOK
  <2>2. \A i \in 1 .. Len(sent') : i \in 1 .. Len(sent) \/ i = Len(sent) + 1
    BY <2>1
  <2>3. HasSent(d) => HasSent(d)'
    BY <2>1 DEF HasSent
  <2>4. HasSent(c)'
    BY <2>1 DEF HasSent
  <2>5. HasSent(d)' => HasSent(d) \/ d = c
    BY <2>1, <2>2 DEF HasSent
  <2> QED
    BY <2>3, <2>4, <2>5
<1>4. heardBar' = [heardBar EXCEPT ![c] = k]
    BY <1>1, <1>3 DEF heardBar, Heard
<1>5. heardBar[c] = "silent"
    BY <1>1 DEF heardBar, Heard
<1>6. UNCHANGED <<expiredBar, ret>>
    BY DEF Send, expiredBar
<1>7. Race!Hear(c, k)
    BY <1>4, <1>5, <1>6 DEF Race!Hear, heardBar, expiredBar
<1> QED
    BY <1>2, <1>7

\* The kind of an answer that has arrived is the one that is heard.
LEMMA HeardKind ==
    ASSUME NEW c \in Clients, HasSent(c), NEW k \in {"ok", "neg"}, answer[c] = k
    PROVE  heardBar[c] = k
    BY DEF heardBar, Heard

\* The loop that returns a NOERROR response decides for one that was heard.
LEMMA SuccessIsSucceed ==
    ASSUME TypeOK, Settled, ReceiveSuccess
    PROVE  \E c \in Clients : Race!Succeed(c)
<1>1. Receivable("ok") /\ taken' = taken + 1 /\ ret' = Reply("ok", NextResult)
    BY DEF ReceiveSuccess
<1>2. /\ taken + 1 \in 1 .. Len(sent) /\ ret = Pending
      /\ NextResult = sent[taken + 1] /\ answer[NextResult] = "ok"
    BY <1>1, TakesNext
<1>3. NextResult \in Clients /\ HasSent(NextResult)
    BY <1>2 DEF TypeOK, HasSent
<1>4. heardBar[NextResult] = "ok"
    BY <1>2, <1>3, HeardKind
<1>5. UNCHANGED <<heardBar, expiredBar>>
    BY NothingHeard DEF ReceiveSuccess, expiredBar
<1>6. Race!Succeed(NextResult)
    BY <1>1, <1>2, <1>4, <1>5
    DEF Race!Succeed, Race!Decide, Race!Pending, Race!Reply, Pending, Reply,
        heardBar, expiredBar
<1> QED
    BY <1>3, <1>6

\* The loop ends without a NOERROR response: with the fallback, or an error.
LEMMA EndIsFallBackOrGiveUp ==
    ASSUME TypeOK, LoopKnows, Settled, OnTimer \/ OnCtxDone \/ Exhausted
    PROVE  Race!GiveUp \/ \E c \in Clients : Race!FallBack(c)
<1> USE DEF Race!Decide, Race!Pending, Race!Failed, Race!Reply, Pending, Failed,
            Reply, heardBar, expiredBar
<1>1. ret = Pending /\ UNCHANGED <<heardBar, expiredBar>>
    BY NothingHeard DEF OnTimer, OnCtxDone, Exhausted, InLoop
<1>2. CASE OnCtxDone
    BY <1>1, <1>2 DEF OnCtxDone, Race!GiveUp
<1>3. ASSUME OnTimer \/ Exhausted, bestFail = NoClient
      PROVE  Race!GiveUp
  <2>1. ret' = Failed
    BY <1>3 DEF OnTimer, Exhausted, BestFailOr
  <2>2. CASE OnTimer
    BY <1>1, <2>1, <2>2 DEF OnTimer, Race!GiveUp
  <2>3. CASE Exhausted
    <3>1. \A c \in Clients : HasSent(c) /\ answer[c] \in {"nil", "fail"}
      BY <1>3, <2>3, NothingBetter
    <3>2. Race!AllHeard /\ Race!NoneHeard({"ok", "neg"})
      BY <3>1 DEF Race!AllHeard, Race!NoneHeard, Heard
    <3> QED
      BY <1>1, <2>1, <3>2 DEF Race!GiveUp
  <2> QED
    BY <1>3, <2>2, <2>3
<1>4. ASSUME OnTimer \/ Exhausted, bestFail # NoClient
      PROVE  \E c \in Clients : Race!FallBack(c)
  <2>1. ret' = Reply("neg", bestFail) /\ bestFail \in Clients
    BY <1>4 DEF OnTimer, Exhausted, BestFailOr, TypeOK
  <2>2. HasSent(bestFail) /\ answer[bestFail] = "neg"
    <3>1. PICK i \in 1 .. taken : sent[i] = bestFail /\ FirstOfKind("neg", i)
      BY <1>4 DEF LoopKnows, FallbackIsFirst
    <3> QED
      BY <3>1 DEF FirstOfKind, HasSent, TypeOK
  <2>3. heardBar[bestFail] = "neg"
    BY <2>1, <2>2, HeardKind
  <2>4. CASE OnTimer
    BY <1>1, <2>1, <2>3, <2>4 DEF OnTimer, Race!FallBack
  <2>5. CASE Exhausted
    <3>1. \A c \in Clients : HasSent(c) /\ answer[c] \in {"neg", "nil", "fail"}
      BY <2>5, NothingBetter
    <3>2. Race!AllHeard /\ Race!NoneHeard({"ok"})
      BY <3>1 DEF Race!AllHeard, Race!NoneHeard, Heard
    <3> QED
      BY <1>1, <2>1, <2>3, <3>2 DEF Race!FallBack
  <2> QED
    BY <1>4, <2>1, <2>4, <2>5
<1> QED
    BY <1>2, <1>3, <1>4

\* Time that runs out, for the timer or the caller.
LEMMA TimeIsExpire ==
    ASSUME TypeOK, Settled, TimerFires \/ CtxEnds
    PROVE  Race!Expire \/ UNCHANGED Race!raceVars
<1>1. UNCHANGED <<heardBar, ret>> /\ expiredBar'
    BY NothingHeard DEF TimerFires, CtxEnds, expiredBar
<1>2. expiredBar \in BOOLEAN
    BY DEF TypeOK, expiredBar
<1> QED
    BY <1>1, <1>2 DEF Race!Expire, Race!raceVars, heardBar, expiredBar, TypeOK

\* The initial states of the race are those of UpstreamRace.
LEMMA RefinesInit == Init => Race!RaceInit
<1> SUFFICES ASSUME Init PROVE Race!RaceInit
    OBVIOUS
<1>1. \A c \in Clients : Heard(c) = "silent"
    BY DEF Init, Heard, HasSent
<1> QED
    BY <1>1 DEF Init, Race!RaceInit, Pending, Failed, Race!Pending, Race!Failed

\* Every step of the race is one of UpstreamRace, or changes nothing there.
LEMMA RefinesStep == IInv /\ [Next]_vars => [Race!RaceNext]_(Race!raceVars)
<1> SUFFICES ASSUME IInv, [Next]_vars
             PROVE  Race!RaceNext \/ UNCHANGED Race!raceVars
    OBVIOUS
<1>1. TypeOK /\ LoopKnows /\ Settled
    BY TypeStep, ArrivedStays DEF IInv
<1>2. ASSUME UNCHANGED <<sent, timer, ctxDone, ret>>
      PROVE  UNCHANGED Race!raceVars
    BY <1>1, <1>2, NothingHeard DEF Race!raceVars, heardBar
<1>3. ASSUME NEW c \in Clients, Send(c) PROVE Race!RaceNext
    BY <1>1, <1>3, SendIsHear DEF Race!RaceNext
<1>4. CASE ReceiveSuccess
    BY <1>1, <1>4, SuccessIsSucceed DEF Race!RaceNext
<1>5. CASE OnTimer \/ OnCtxDone \/ Exhausted
    BY <1>1, <1>5, EndIsFallBackOrGiveUp DEF Race!RaceNext
<1>6. CASE TimerFires \/ CtxEnds
    BY <1>1, <1>6, TimeIsExpire DEF Race!RaceNext
<1> QED
    BY <1>2, <1>3, <1>4, <1>5, <1>6
    DEF Next, Loop, Answer, ReceiveError, ReceiveNegative, vars

\* RaceResolve implements UpstreamRace, whatever the number of upstreams: the
\* buffered channel, the goroutines and the loop add nothing to what the call
\* promises (resolver.go:16-83).
THEOREM RaceImplementsUpstreamRace == Spec => ImplementsUpstreamRace
    BY RefinesInit, RefinesStep, IInvHolds, PTL
    DEF Spec, ImplementsUpstreamRace, Race!RaceSpec

-----------------------------------------------------------------------------
(* What is safety in the end of the goroutines and of the race.            *)

\* A goroutine that has its answer finds room in the channel, whether or not
\* somebody still receives (resolver.go:24, 30): nothing but Resolve can keep
\* it waiting.
SendersNeverWait ==
    \A c \in Clients : ~HasSent(c) => Len(sent) - taken < Cap

\* What a race can still do: answers that may come, be sent and be received,
\* and the timer, the context and the return.
Silent == {c \in Clients : answer[c] = "silent"}

StepsLeft ==
    Cardinality(Silent) + (N - Len(sent)) + (N - taken)
    + (IF timer THEN 0 ELSE 1) + (IF ctxDone THEN 0 ELSE 1)
    + (IF ret = Pending THEN 1 ELSE 0)

\* Every step of a race is one of those, and none comes again: neither the
\* loop nor a goroutine can go round without end (resolver.go:26-70).
StepsCount == StepsLeft' < StepsLeft

\* The clients that have sent are as many as the answers sent, as none has
\* sent twice.
LEMMA SentersCount ==
    ASSUME TypeOK, LoopKnows, NEW S \in SUBSET Clients,
           \A i \in 1 .. Len(sent) : sent[i] \in S
    PROVE  Len(sent) \in Nat /\ Len(sent) <= Cardinality(S)
<1> DEFINE f == [i \in 1 .. Len(sent) |-> sent[i]]
<1>1. Len(sent) \in Nat
    BY DEF TypeOK
<1>2. f \in [1 .. Len(sent) -> S]
    OBVIOUS
<1>3. IsInjective(f)
    BY DEF IsInjective, LoopKnows, ArrivedOnce
<1>4. f \in Injection(1 .. Len(sent), S)
    BY <1>2, <1>3 DEF Injection
<1>5. IsFiniteSet(S)
    BY ClientsAssumption, FS_Subset
<1>6. /\ Cardinality(1 .. Len(sent)) <= Cardinality(S)
      /\ Cardinality(S) \in Nat
    BY <1>4, <1>5, FS_Injection, FS_CardinalityType
<1>7. Cardinality(1 .. Len(sent)) = IF 1 > Len(sent) THEN 0 ELSE Len(sent) - 1 + 1
    BY <1>1, FS_Interval
<1> HIDE DEF f
<1> QED
    BY <1>1, <1>6, <1>7

\* Who has not sent leaves room for one answer.
LEMMA OneMoreFits ==
    ASSUME TypeOK, LoopKnows, NEW c \in Clients, ~HasSent(c)
    PROVE  Len(sent) < N
<1>1. \A i \in 1 .. Len(sent) : sent[i] \in Clients \ {c}
    BY DEF TypeOK, HasSent
<1>2. Len(sent) \in Nat /\ Len(sent) <= Cardinality(Clients \ {c})
    BY <1>1, SentersCount
<1>3. Cardinality(Clients \ {c}) = Cardinality(Clients) - 1
    BY ClientsAssumption, FS_RemoveElement
<1> QED
    BY <1>2, <1>3, NumberOfClients DEF N

\* No goroutine waits at the channel: its part of GoroutinesEnd that is safety
\* (resolver.go:24, 30).
THEOREM SendersNeverWaitHolds == Spec => []SendersNeverWait
<1>1. IInv => SendersNeverWait
  <2> SUFFICES ASSUME IInv, NEW c \in Clients, ~HasSent(c)
               PROVE  Len(sent) - taken < Cap
    BY DEF SendersNeverWait
  <2>1. Len(sent) < N /\ Len(sent) \in Nat /\ taken \in 0 .. Len(sent)
    BY OneMoreFits DEF IInv, TypeOK
  <2> QED
    BY <2>1, NumberOfClients DEF Cap
<1> QED
    BY <1>1, IInvHolds, PTL

\* The parts of StepsLeft are natural numbers: no more is sent than there are
\* goroutines, and no more taken than was sent.
LEMMA PartsAreNat ==
    ASSUME TypeOK, LoopKnows
    PROVE  /\ IsFiniteSet(Silent) /\ Cardinality(Silent) \in Nat
           /\ N - Len(sent) \in Nat /\ N - taken \in Nat
           /\ Len(sent) \in Nat /\ taken \in Nat /\ N \in Nat
           /\ StepsLeft \in Nat
<1>1. IsFiniteSet(Silent) /\ Cardinality(Silent) \in Nat
    BY ClientsAssumption, FS_Subset, FS_CardinalityType DEF Silent
<1>2. Len(sent) \in Nat /\ Len(sent) <= N
    BY SentersCount DEF TypeOK, N
<1>3. taken \in Nat /\ taken <= Len(sent)
    BY <1>2 DEF TypeOK
<1>4. N - Len(sent) \in Nat /\ N - taken \in Nat
    BY <1>2, <1>3, NumberOfClients
<1> QED
    BY <1>1, <1>2, <1>3, <1>4, NumberOfClients DEF StepsLeft

\* Each action uses up one of the steps.
LEMMA StepsCountStep ==
    ASSUME TypeOK, LoopKnows, Next
    PROVE  StepsCount
<1>1. /\ Cardinality(Silent) \in Nat /\ N \in Nat
      /\ Len(sent) \in Nat /\ taken \in Nat
    BY PartsAreNat
<1> USE DEF StepsLeft
<1>2. ASSUME NEW c \in Clients, NEW k \in Kinds, Answer(c, k)
      PROVE  StepsLeft' < StepsLeft
  <2>1. Silent' = Silent \ {c} /\ c \in Silent
    BY <1>2 DEF Answer, Silent, TypeOK, Kinds
  <2>2. Cardinality(Silent') = Cardinality(Silent) - 1
    BY <2>1, ClientsAssumption, FS_Subset, FS_RemoveElement DEF Silent
  <2>3. UNCHANGED <<sent, taken, bestFail, lastErr, timer, ctxDone, ret>>
    BY <1>2 DEF Answer
  <2> QED
    BY <1>1, <2>2, <2>3
<1>3. ASSUME NEW c \in Clients, Send(c) PROVE StepsLeft' < StepsLeft
  <2>1. Silent' = Silent /\ UNCHANGED <<taken, timer, ctxDone, ret>>
    BY <1>3 DEF Send, Silent
  <2>2. Len(sent') = Len(sent) + 1
    BY <1>3, AppendKeeps DEF Send, TypeOK
  <2> QED
    BY <1>1, <2>1, <2>2
<1>4. ASSUME Loop PROVE StepsLeft' < StepsLeft
  <2>1. Silent' = Silent /\ UNCHANGED <<sent, timer, ctxDone>> /\ ret = Pending
    BY <1>4 DEF Loop, ReceiveError, ReceiveSuccess, ReceiveNegative, OnTimer,
                OnCtxDone, Exhausted, Receivable, InLoop, Silent
  <2>2. CASE ReceiveError \/ ReceiveSuccess \/ ReceiveNegative
    <3>1. taken' = taken + 1
      BY <2>2 DEF ReceiveError, ReceiveSuccess, ReceiveNegative
    <3> QED
      BY <1>1, <2>1, <3>1
  <2>3. CASE OnTimer \/ OnCtxDone \/ Exhausted
    <3>1. taken' = taken /\ ret' \in {Failed, Reply("neg", bestFail)}
      BY <2>3 DEF OnTimer, OnCtxDone, Exhausted, BestFailOr
    <3>2. ret' # Pending
      BY <3>1 DEF Failed, Reply, Pending
    <3> QED
      BY <1>1, <2>1, <3>1, <3>2
  <2> QED
    BY <1>4, <2>2, <2>3 DEF Loop
<1>5. ASSUME TimerFires \/ CtxEnds PROVE StepsLeft' < StepsLeft
  <2>1. Silent' = Silent /\ UNCHANGED <<sent, taken, ret>>
    BY <1>5 DEF TimerFires, CtxEnds, Silent
  <2>2. \/ ~timer /\ timer' /\ ctxDone' = ctxDone
        \/ ~ctxDone /\ ctxDone' /\ timer' = timer
    BY <1>5 DEF TimerFires, CtxEnds
  <2> QED
    BY <1>1, <2>1, <2>2
<1> QED
    BY <1>2, <1>3, <1>4, <1>5 DEF Next, StepsCount

\* A race makes at most 3 * N + 3 steps: with the fairness of the goroutines
\* it ends, and without it nothing in it runs on (resolver.go:26-70).
THEOREM StepsCountHolds ==
    Spec => [](StepsLeft \in 0 .. 3 * N + 3) /\ [][StepsCount]_vars
<1>1. IInv /\ [Next]_vars => [StepsCount]_vars
    BY StepsCountStep DEF IInv
<1>2. IInv => StepsLeft \in 0 .. 3 * N + 3
  <2> SUFFICES ASSUME IInv PROVE StepsLeft \in 0 .. 3 * N + 3
    OBVIOUS
  <2>1. /\ Cardinality(Silent) \in Nat /\ N \in Nat
        /\ Len(sent) \in Nat /\ taken \in Nat /\ StepsLeft \in Nat
    BY PartsAreNat DEF IInv
  <2>2. Cardinality(Silent) <= N
    BY ClientsAssumption, FS_Subset DEF Silent, N
  <2> QED
    BY <2>1, <2>2 DEF StepsLeft
<1> QED
    BY <1>1, <1>2, IInvHolds, PTL DEF Spec
=============================================================================
