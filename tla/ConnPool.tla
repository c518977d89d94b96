------------------------------ MODULE ConnPool ------------------------------
(***************************************************************************)
(* The connection pool of a pipelining upstream (resolvePipeline and Close *)
(* of internal/client/tcp.go; internal/client/dot.go has the same code).   *)
(* The pool is a channel of slots; an empty slot is a nil connection.  A   *)
(* request takes a slot, dials if it is empty, writes, dials once more if  *)
(* the write fails, reads one message, and a deferred function returns the *)
(* slot, with the connection if it is still good.  Close may run at any    *)
(* point of that.                                                          *)
(*                                                                         *)
(* A message on a connection is the request it is for.  Requests of        *)
(* different clients may carry the same DNS message ID.                    *)
(***************************************************************************)
EXTENDS Naturals, Sequences, FiniteSets

CONSTANTS Reqs,
          Id,              \* Id[r]: the DNS message ID of request r
          Slots            \* capacity of the pool, 10

ASSUME PoolAssumption == IsFiniteSet(Reqs) /\ Slots \in Nat \ {0}

VARIABLES pc,        \* pc[r]: where the request is in resolvePipeline
          held,      \* held[r]: the variable conn of its goroutine
          res,       \* res[r]: the request whose answer it returns, or an error
          pool,      \* the slots in the channel c.pool
          sock,      \* sock[k]: the state of connection k
          ready,     \* initPool has run
          closed,    \* c.closed
          closer     \* where Close is

vars == <<pc, held, res, pool, sock, ready, closed, closer>>

\* A request dials at most twice.
Conns == 1 .. 2 * Cardinality(Reqs)
Nil   == 0

Socks == [state : {"unused", "open", "closed"},
          sent  : SUBSET Reqs,     \* written, not answered yet
          inbox : Seq(Reqs)]       \* answered, not read yet

Unused  == [state |-> "unused", sent |-> {}, inbox |-> << >>]
Opened  == [state |-> "open", sent |-> {}, inbox |-> << >>]
Shut    == [state |-> "closed", sent |-> {}, inbox |-> << >>]

\* What a request returned: an answer (the request it was given to), or not.
Answer(r) == [kind |-> "answer", to |-> {r}]
Error     == [kind |-> "error", to |-> {}]
None      == [kind |-> "none", to |-> {}]

TypeOK ==
    /\ pc \in [Reqs -> {"start", "dial", "write", "redial", "rewrite", "read",
                        "return", "put", "done"}]
    /\ held \in [Reqs -> Conns \cup {Nil}]
    /\ res \in [Reqs -> {None, Error} \cup {Answer(r) : r \in Reqs}]
    /\ pool \in Seq(Conns \cup {Nil}) /\ Len(pool) <= Slots
    /\ sock \in [Conns -> Socks]
    /\ ready \in BOOLEAN /\ closed \in BOOLEAN
    /\ closer \in {"idle", "flagged", "drain", "done"}

Init ==
    /\ pc = [r \in Reqs |-> "start"]
    /\ held = [r \in Reqs |-> Nil]
    /\ res = [r \in Reqs |-> None]
    /\ pool = << >>
    /\ sock = [k \in Conns |-> Unused]
    /\ ready = FALSE /\ closed = FALSE /\ closer = "idle"

-----------------------------------------------------------------------------
(* A request.                                                              *)

Goto(r, l) == pc' = [pc EXCEPT ![r] = l]

\* poolInit.Do: the first request fills the pool with empty slots.
InitPool(r) ==
    /\ pc[r] = "start" /\ ~ready
    /\ ready' = TRUE
    /\ pool' = [i \in 1 .. Slots |-> Nil]
    /\ UNCHANGED <<pc, held, res, sock, closed, closer>>

\* conn = <-c.pool
Take(r) ==
    /\ pc[r] = "start" /\ ready /\ pool # << >>
    /\ held' = [held EXCEPT ![r] = Head(pool)]
    /\ pool' = Tail(pool)
    /\ Goto(r, IF Head(pool) = Nil THEN "dial" ELSE "write")
    /\ UNCHANGED <<res, sock, ready, closed, closer>>

\* <-ctx.Done() before there was a slot: nothing is returned to the pool.
GiveUp(r) ==
    /\ pc[r] = "start" /\ ready
    /\ res' = [res EXCEPT ![r] = Error]
    /\ Goto(r, "done")
    /\ UNCHANGED <<held, pool, sock, ready, closed, closer>>

\* The request ends with error or answer v; the connection, if it was closed
\* before, is no longer held.  The deferred function is next.
End(r, v, conn) ==
    /\ res' = [res EXCEPT ![r] = v]
    /\ held' = [held EXCEPT ![r] = conn]
    /\ Goto(r, "return")

Dial(r) ==
    /\ pc[r] \in {"dial", "redial"}
    /\ \E k \in Conns :
         /\ sock[k] = Unused /\ \A j \in 1 .. k - 1 : sock[j] # Unused
         /\ sock' = [sock EXCEPT ![k] = Opened]
         /\ held' = [held EXCEPT ![r] = k]
    /\ Goto(r, IF pc[r] = "dial" THEN "write" ELSE "rewrite")
    /\ UNCHANGED <<res, pool, ready, closed, closer>>

DialFails(r) ==
    /\ pc[r] \in {"dial", "redial"}
    /\ End(r, Error, Nil)
    /\ UNCHANGED <<pool, sock, ready, closed, closer>>

Write(r) ==
    /\ pc[r] \in {"write", "rewrite"}
    /\ sock[held[r]].state = "open"
    /\ sock' = [sock EXCEPT ![held[r]].sent = @ \cup {r}]
    /\ Goto(r, "read")
    /\ UNCHANGED <<held, res, pool, ready, closed, closer>>

\* The first failure is answered with a new connection, the second is final.
WriteFails(r) ==
    /\ pc[r] \in {"write", "rewrite"}
    /\ sock' = [sock EXCEPT ![held[r]] = Shut]
    /\ IF pc[r] = "write"
       THEN /\ Goto(r, "redial")
            /\ held' = [held EXCEPT ![r] = Nil]
            /\ UNCHANGED res
       ELSE End(r, Error, Nil)
    /\ UNCHANGED <<pool, ready, closed, closer>>

\* ReadMsg returned a message with the ID of the request.
Read(r) ==
    LET in == sock[held[r]].inbox IN
    /\ pc[r] = "read" /\ in # << >> /\ Id[Head(in)] = Id[r]
    /\ sock' = [sock EXCEPT ![held[r]].inbox = Tail(in)]
    /\ End(r, Answer(Head(in)), held[r])
    /\ UNCHANGED <<pool, ready, closed, closer>>

\* Mutant: a connection that timed out goes back to the pool as it is.
ReadFails_Kept(r) ==
    /\ pc[r] = "read"
    /\ End(r, Error, held[r])
    /\ UNCHANGED <<pool, sock, ready, closed, closer>>

\* Mutant: the variable is cleared, the connection is not closed.
ReadFails_Unclosed(r) ==
    /\ pc[r] = "read"
    /\ End(r, Error, Nil)
    /\ UNCHANGED <<pool, sock, ready, closed, closer>>

\* ReadMsg failed, with the peer's close or the 5 s deadline, or the message
\* has another ID: what may still arrive on the connection dies with it.
ReadFails(r) ==
    /\ pc[r] = "read"
    /\ sock' = [sock EXCEPT ![held[r]] = Shut]
    /\ End(r, Error, Nil)
    /\ UNCHANGED <<pool, ready, closed, closer>>

\* The deferred function: after Close a connection is not pooled again.
CheckClosed(r) ==
    /\ pc[r] = "return"
    /\ IF held[r] # Nil /\ closed
       THEN /\ sock' = [sock EXCEPT ![held[r]] = Shut]
            /\ held' = [held EXCEPT ![r] = Nil]
       ELSE UNCHANGED <<sock, held>>
    /\ Goto(r, "put")
    /\ UNCHANGED <<res, pool, ready, closed, closer>>

\* Mutant: only a slot with a connection is returned.
PutBack_IfConn(r) ==
    /\ pc[r] = "put"
    /\ pool' = IF held[r] # Nil THEN Append(pool, held[r]) ELSE pool
    /\ held' = [held EXCEPT ![r] = Nil]
    /\ Goto(r, "done")
    /\ UNCHANGED <<res, sock, ready, closed, closer>>

\* Mutant: a failed request returns its slot twice.
PutBack_Twice(r) ==
    /\ pc[r] = "put"
    /\ pool' = IF held[r] # Nil THEN Append(pool, held[r])
               ELSE pool \o <<Nil, Nil>>
    /\ held' = [held EXCEPT ![r] = Nil]
    /\ Goto(r, "done")
    /\ UNCHANGED <<res, sock, ready, closed, closer>>

\* c.pool <- conn, the slot with or without a connection; were there no room,
\* the connection would be closed.
PutBack(r) ==
    /\ pc[r] = "put"
    /\ IF Len(pool) < Slots
       THEN pool' = Append(pool, held[r]) /\ UNCHANGED sock
       ELSE /\ UNCHANGED pool
            /\ sock' = IF held[r] = Nil THEN sock
                       ELSE [sock EXCEPT ![held[r]] = Shut]
    /\ held' = [held EXCEPT ![r] = Nil]
    /\ Goto(r, "done")
    /\ UNCHANGED <<res, ready, closed, closer>>

-----------------------------------------------------------------------------
(* The upstream: answers what was written, in any order.                   *)

Respond(k) ==
    /\ sock[k].state = "open"
    /\ \E r \in sock[k].sent :
         sock' = [sock EXCEPT ![k].sent = @ \ {r},
                              ![k].inbox = Append(@, r)]
    /\ UNCHANGED <<pc, held, res, pool, ready, closed, closer>>

-----------------------------------------------------------------------------
(* Close.                                                                  *)

SetClosed ==
    /\ closer = "idle"
    /\ closed' = TRUE /\ closer' = "flagged"
    /\ UNCHANGED <<pc, held, res, pool, sock, ready>>

\* c.pool == nil: no request ever came, or the first one comes right now.
CloseStarts ==
    /\ closer = "flagged"
    /\ closer' = IF ready THEN "drain" ELSE "done"
    /\ UNCHANGED <<pc, held, res, pool, sock, ready, closed>>

\* Mutant: an empty slot ends the loop.
Drain_StopsAtNil ==
    /\ closer = "drain"
    /\ IF pool = << >> \/ Head(pool) = Nil
       THEN closer' = "done" /\ UNCHANGED <<pool, sock>>
       ELSE /\ pool' = Tail(pool)
            /\ sock' = [sock EXCEPT ![Head(pool)] = Shut]
            /\ UNCHANGED closer
    /\ UNCHANGED <<pc, held, res, ready, closed>>

\* One turn of the loop, which ends at the first empty channel.
Drain ==
    /\ closer = "drain"
    /\ IF pool = << >>
       THEN closer' = "done" /\ UNCHANGED <<pool, sock>>
       ELSE /\ pool' = Tail(pool)
            /\ sock' = IF Head(pool) = Nil THEN sock
                       ELSE [sock EXCEPT ![Head(pool)] = Shut]
            /\ UNCHANGED closer
    /\ UNCHANGED <<pc, held, res, ready, closed>>

-----------------------------------------------------------------------------
Exchange(r) == \/ Dial(r) \/ DialFails(r) \/ Write(r) \/ WriteFails(r)
               \/ Read(r) \/ ReadFails(r)

ReqStep(r) == \/ InitPool(r) \/ Take(r) \/ GiveUp(r) \/ Exchange(r)
              \/ CheckClosed(r) \/ PutBack(r)

CloseStep == SetClosed \/ CloseStarts \/ Drain

Next == (\E r \in Reqs : ReqStep(r)) \/ (\E k \in Conns : Respond(k)) \/ CloseStep

Spec == Init /\ [][Next]_vars

\* Goroutines are scheduled, I/O ends within its deadline, and a blocked
\* receive gets its turn (channels are first come, first served).  That
\* the context of a waiting request ends, or that Close is called, is not
\* assumed.
Fairness ==
    \A r \in Reqs :
        /\ WF_vars(InitPool(r)) /\ SF_vars(Take(r))
        /\ WF_vars(Exchange(r))
        /\ WF_vars(CheckClosed(r)) /\ WF_vars(PutBack(r))

FairSpec == Spec /\ Fairness

-----------------------------------------------------------------------------
(* Properties.                                                             *)

HasSlot(r) == pc[r] \notin {"start", "done"}
InUse      == {r \in Reqs : HasSlot(r)}
Pooled     == {pool[i] : i \in 1 .. Len(pool)}

\* No slot is ever lost or made (tcp.go:78-92): a request returns the slot it
\* took on every path, or the pool would shrink until all requests block.
SlotsConserved ==
    ready /\ ~closed => Len(pool) + Cardinality(InUse) = Slots

\* No slots are there before initPool, and Close only takes some away: a slot
\* that is returned has room.
SlotsBounded ==
    /\ Len(pool) + Cardinality(InUse) <= Slots
    /\ ~ready => pool = << >> /\ InUse = {}
    /\ closer # "idle" => closed

\* Where a request has a connection.
HeldWhileUsed ==
    \A r \in Reqs :
        /\ pc[r] \in {"write", "rewrite", "read"} => held[r] # Nil
        /\ pc[r] \in {"start", "dial", "redial", "done"} => held[r] = Nil

\* Neither two slots, nor two requests, nor a request and a slot have the same
\* connection.
SlotsDiffer ==
    \A i, j \in 1 .. Len(pool) : pool[i] = pool[j] /\ pool[i] # Nil => i = j

OwnersDiffer ==
    /\ SlotsDiffer
    /\ \A r, q \in Reqs : held[r] = held[q] /\ held[r] # Nil => r = q
    /\ \A r \in Reqs : held[r] # Nil => held[r] \notin Pooled

\* A connection is open as long as somebody has it.
OpenIsOwned ==
    \A k \in Conns :
        sock[k].state = "open" <=> k \in Pooled \/ \E r \in Reqs : held[r] = k

\* What was asked or answered on an open connection is for the request that is
\* waiting for it; there is nothing on a connection nobody reads from.
OneConversation ==
    \A k \in Conns : sock[k].state = "open" =>
        \/ sock[k] = Opened
        \/ \E r \in Reqs :
              /\ pc[r] = "read" /\ held[r] = k
              /\ sock[k] \in {[Opened EXCEPT !.sent = {r}],
                              [Opened EXCEPT !.inbox = <<r>>]}

\* The invariant that implies the safety properties, and is inductive.
PoolInv ==
    /\ TypeOK /\ SlotsConserved /\ SlotsBounded
    /\ HeldWhileUsed /\ OwnersDiffer /\ OpenIsOwned /\ OneConversation

\* An open connection has exactly one owner, a request or a slot, and both own
\* open connections only (tcp.go:71-130): none is shared, leaked or reused
\* after it was closed.
OneOwner ==
    \A k \in Conns :
        Cardinality({r \in InUse : held[r] = k})
        + Cardinality({i \in 1 .. Len(pool) : pool[i] = k})
        = IF sock[k].state = "open" THEN 1 ELSE 0

\* A request gets the answer that was given to it, though others on the same
\* connection had its message ID (tcp.go:118-130): an answer that comes too
\* late for a request is never read by a later one.
NoCrossTalk ==
    \A r \in Reqs : res[r].kind = "answer" => res[r] = Answer(r)

\* When Close returns, the connections still open are those of requests in
\* flight (tcp.go:167-186).
CloseDrains ==
    [][closer' = "done" /\ closer # "done" =>
         \A k \in Conns : sock'[k].state = "open" =>
             \E r \in Reqs : HasSlot(r) /\ held[r] = k]_vars

\* A request returns without the help of its context, as slots come back,
\* unless the upstream is closed (tcp.go:71-92).
RequestsReturn ==
    \A r \in Reqs : pc[r] # "done" ~> pc[r] = "done" \/ closed
=============================================================================
