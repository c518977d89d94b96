----------------------------- MODULE PoolProofs -----------------------------
(***************************************************************************)
(* Proofs about ConnPool, for any finite set of requests, any message IDs  *)
(* and any capacity of the pool.  PoolInv is inductive; OneOwner,          *)
(* NoCrossTalk and CloseDrains follow from it.                             *)
(***************************************************************************)
EXTENDS ConnPool, FiniteSetTheorems, SequenceTheorems, TLAPS

-----------------------------------------------------------------------------
(* The channel.                                                            *)

\* A connection is not nil, and there are finitely many of them.
LEMMA ConnsType == Nil \notin Conns /\ Conns \subseteq Nat
<1>1. Cardinality(Reqs) \in Nat
    BY PoolAssumption, FS_CardinalityType
<1> QED
    BY <1>1 DEF Conns, Nil

\* What is left in a channel after a receive.
LEMMA TailOfPool ==
    ASSUME NEW S, NEW s \in Seq(S), s # << >>
    PROVE  /\ Head(s) = s[1] /\ Head(s) \in S
           /\ Tail(s) \in Seq(S) /\ Len(s) \in Nat \ {0}
           /\ Len(Tail(s)) = Len(s) - 1
           /\ \A i \in 1 .. Len(Tail(s)) : Tail(s)[i] = s[i + 1]
    BY HeadTailProperties, LenProperties, EmptySeq

\* What is in it after a send.
LEMMA AppendToPool ==
    ASSUME NEW S, NEW s \in Seq(S), NEW e \in S
    PROVE  /\ Append(s, e) \in Seq(S)
           /\ Len(s) \in Nat /\ Len(Append(s, e)) = Len(s) + 1
           /\ \A i \in 1 .. Len(s) : Append(s, e)[i] = s[i]
           /\ Append(s, e)[Len(s) + 1] = e
    BY AppendProperties, LenProperties

\* A channel of empty slots.
LEMMA EmptySlots ==
    ASSUME NEW s, s = [i \in 1 .. Slots |-> Nil]
    PROVE  /\ s \in Seq(Conns \cup {Nil}) /\ Len(s) = Slots
           /\ \A i \in 1 .. Len(s) : s[i] = Nil
<1>1. Slots \in Nat
    BY PoolAssumption
<1>2. s \in [1 .. Slots -> Conns \cup {Nil}]
    OBVIOUS
<1>3. s \in Seq(Conns \cup {Nil})
    BY <1>1, <1>2, SeqDef
<1>4. Len(s) = Slots
    BY <1>1, <1>2, <1>3
<1> QED
    BY <1>3, <1>4

-----------------------------------------------------------------------------
(* Type correctness.                                                       *)

\* The initial state is of the right type.
LEMMA InitType == Init => TypeOK
<1> SUFFICES ASSUME Init PROVE TypeOK
    OBVIOUS
<1>1. << >> \in Seq(Reqs) /\ << >> \in Seq(Conns \cup {Nil}) /\ Len(<< >>) = 0
    BY EmptySeq
<1>2. Unused \in Socks
    BY <1>1 DEF Unused, Socks
<1>3. pool \in Seq(Conns \cup {Nil}) /\ Len(pool) <= Slots
    BY <1>1, PoolAssumption DEF Init
<1> QED
    BY <1>2, <1>3 DEF Init, TypeOK

\* The states of a connection.
LEMMA SockTypes ==
    /\ Unused \in Socks /\ Opened \in Socks /\ Shut \in Socks
    /\ Unused.state = "unused" /\ Opened.state = "open" /\ Shut.state = "closed"
    BY EmptySeq DEF Unused, Opened, Shut, Socks

\* The results that End is given.
LEMMA EndType ==
    ASSUME TypeOK, NEW r \in Reqs, NEW conn \in Conns \cup {Nil},
           NEW v \in {Error} \cup {Answer(q) : q \in Reqs}, End(r, v, conn)
    PROVE  /\ pc' \in [Reqs -> {"start", "dial", "write", "redial", "rewrite", "read",
                                "return", "put", "done"}]
           /\ held' \in [Reqs -> Conns \cup {Nil}]
           /\ res' \in [Reqs -> {None, Error} \cup {Answer(q) : q \in Reqs}]
    BY DEF TypeOK, End, Goto

\* The exchange on a connection preserves the types.
LEMMA ExchangeTypes ==
    ASSUME TypeOK, HeldWhileUsed, NEW r \in Reqs, Exchange(r)
    PROVE  TypeOK'
<1> USE DEF TypeOK, Goto
<1>0. /\ pc[r] \in {"write", "rewrite", "read"} => held[r] \in Conns
      /\ \A k \in Conns : sock[k] \in Socks
      /\ Nil \in Conns \cup {Nil} /\ Error \in {Error} \cup {Answer(q) : q \in Reqs}
    BY DEF HeldWhileUsed
<1>1. CASE Dial(r)
    BY <1>1, SockTypes DEF Dial
<1>2. CASE DialFails(r)
    BY <1>0, <1>2, EndType DEF DialFails
<1>3. CASE Write(r)
  <2>1. sock' \in [Conns -> Socks]
    BY <1>0, <1>3 DEF Write, Socks
  <2> QED
    BY <1>3, <2>1 DEF Write
<1>4. CASE WriteFails(r)
  <2>1. sock' \in [Conns -> Socks]
    BY <1>0, <1>4, SockTypes DEF WriteFails
  <2>2. CASE pc[r] = "write"
    BY <1>4, <2>1, <2>2 DEF WriteFails
  <2>3. CASE pc[r] # "write"
    BY <1>0, <1>4, <2>1, <2>3, EndType DEF WriteFails
  <2> QED
    BY <2>2, <2>3
<1>5. CASE Read(r)
  <2> DEFINE in == sock[held[r]].inbox
  <2>1. in \in Seq(Reqs) /\ in # << >> /\ held[r] \in Conns
    BY <1>0, <1>5 DEF Read, Socks
  <2>2. Head(in) \in Reqs /\ Tail(in) \in Seq(Reqs)
    BY <2>1, TailOfPool
  <2>3. sock' \in [Conns -> Socks]
    BY <1>0, <1>5, <2>1, <2>2 DEF Read, Socks
  <2>4. Answer(Head(in)) \in {Error} \cup {Answer(q) : q \in Reqs}
    BY <2>2
  <2> QED
    BY <1>5, <2>1, <2>3, <2>4, EndType DEF Read
<1>6. CASE ReadFails(r)
  <2>1. sock' \in [Conns -> Socks]
    BY <1>0, <1>6, SockTypes DEF ReadFails
  <2> QED
    BY <1>0, <1>6, <2>1, EndType DEF ReadFails
<1> QED
    BY <1>1, <1>2, <1>3, <1>4, <1>5, <1>6 DEF Exchange

\* Every step preserves the types.
LEMMA NextType ==
    ASSUME TypeOK, HeldWhileUsed, [Next]_vars
    PROVE  TypeOK'
<1> USE DEF TypeOK, Goto
<1>0. Len(pool) \in Nat /\ Slots \in Nat
    BY LenProperties, PoolAssumption
<1>1. ASSUME NEW r \in Reqs, InitPool(r) PROVE TypeOK'
    BY <1>0, <1>1, EmptySlots DEF InitPool
<1>2. ASSUME NEW r \in Reqs, Take(r) PROVE TypeOK'
  <2>1. /\ Head(pool) \in Conns \cup {Nil} /\ pool' \in Seq(Conns \cup {Nil})
        /\ Len(pool') <= Slots
    BY <1>0, <1>2, TailOfPool DEF Take
  <2> QED
    BY <1>2, <2>1 DEF Take
<1>3. ASSUME NEW r \in Reqs, GiveUp(r) PROVE TypeOK'
    BY <1>3 DEF GiveUp
<1>4. ASSUME NEW r \in Reqs, CheckClosed(r) PROVE TypeOK'
    BY <1>4, SockTypes DEF CheckClosed
<1>5. ASSUME NEW r \in Reqs, PutBack(r) PROVE TypeOK'
  <2>1. /\ Append(pool, held[r]) \in Seq(Conns \cup {Nil})
        /\ Len(Append(pool, held[r])) = Len(pool) + 1
    BY AppendToPool
  <2>2. pool' \in Seq(Conns \cup {Nil}) /\ Len(pool') <= Slots
    <3>1. CASE Len(pool) < Slots
      <4>1. pool' = Append(pool, held[r])
        BY <1>5, <3>1 DEF PutBack
      <4>2. Len(pool) + 1 <= Slots
        BY <1>0, <3>1
      <4> QED
        BY <2>1, <4>1, <4>2
    <3>2. CASE ~(Len(pool) < Slots)
      BY <1>5, <3>2 DEF PutBack
    <3> QED
      BY <3>1, <3>2
  <2>3. sock' \in [Conns -> Socks]
    BY <1>5, SockTypes DEF PutBack
  <2> QED
    BY <1>5, <2>2, <2>3 DEF PutBack
<1>6. ASSUME NEW k \in Conns, Respond(k) PROVE TypeOK'
  <2>1. PICK r \in sock[k].sent :
            sock' = [sock EXCEPT ![k].sent = @ \ {r}, ![k].inbox = Append(@, r)]
    BY <1>6 DEF Respond
  <2>2. sock[k] \in Socks /\ r \in Reqs /\ sock[k].inbox \in Seq(Reqs)
    BY <2>1 DEF Socks
  <2>3. Append(sock[k].inbox, r) \in Seq(Reqs)
    BY <2>2, AppendToPool
  <2>4. sock' \in [Conns -> Socks]
    BY <2>1, <2>2, <2>3 DEF Socks
  <2> QED
    BY <1>6, <2>4 DEF Respond
<1>7. CASE SetClosed
    BY <1>7 DEF SetClosed
<1>8. CASE CloseStarts
    BY <1>8 DEF CloseStarts
<1>9. CASE Drain
  <2>1. CASE pool = << >>
    BY <1>9, <2>1 DEF Drain
  <2>2. CASE pool # << >>
    <3>0. pool' = Tail(pool)
      BY <1>9, <2>2 DEF Drain
    <3>1. /\ Head(pool) \in Conns \cup {Nil} /\ pool' \in Seq(Conns \cup {Nil})
          /\ Len(pool') <= Slots
      BY <1>0, <2>2, <3>0, TailOfPool
    <3>2. sock' \in [Conns -> Socks]
      BY <1>9, <2>2, <3>1, SockTypes DEF Drain
    <3> QED
      BY <1>9, <2>2, <3>1, <3>2 DEF Drain
  <2> QED
    BY <2>1, <2>2
<1>10. CASE UNCHANGED vars
    BY <1>10 DEF vars
<1> QED
    BY <1>1, <1>2, <1>3, <1>4, <1>5, <1>6, <1>7, <1>8, <1>9, <1>10, ExchangeTypes
    DEF Next, ReqStep, CloseStep

\* Every step preserves HeldWhileUsed.
LEMMA HeldWhileUsedStep ==
    ASSUME TypeOK, HeldWhileUsed, [Next]_vars
    PROVE  HeldWhileUsed'
<1> USE DEF TypeOK, HeldWhileUsed, Goto, End
<1>1. ASSUME NEW r \in Reqs, Take(r) PROVE HeldWhileUsed'
    BY <1>1 DEF Take
<1>2. ASSUME NEW r \in Reqs, Dial(r) PROVE HeldWhileUsed'
    BY <1>2, ConnsType DEF Dial
<1>3. ASSUME NEW r \in Reqs, DialFails(r) \/ Write(r) \/ WriteFails(r)
      PROVE  HeldWhileUsed'
    BY <1>3 DEF DialFails, Write, WriteFails
<1>4. ASSUME NEW r \in Reqs, Read(r) \/ ReadFails(r) PROVE HeldWhileUsed'
    BY <1>4 DEF Read, ReadFails
<1>5. ASSUME NEW r \in Reqs, GiveUp(r) \/ CheckClosed(r) \/ PutBack(r)
      PROVE  HeldWhileUsed'
    BY <1>5 DEF GiveUp, CheckClosed, PutBack
<1>6. ASSUME NEW r \in Reqs, InitPool(r) PROVE HeldWhileUsed'
    BY <1>6 DEF InitPool
<1>7. ASSUME NEW k \in Conns, Respond(k) PROVE HeldWhileUsed'
    BY <1>7 DEF Respond
<1>8. CASE CloseStep \/ UNCHANGED vars
    BY <1>8 DEF CloseStep, SetClosed, CloseStarts, Drain, vars
<1> QED
    BY <1>1, <1>2, <1>3, <1>4, <1>5, <1>6, <1>7, <1>8 DEF Next, ReqStep, Exchange

-----------------------------------------------------------------------------
(* Who has which connection.                                               *)

\* A receive takes a connection out of the pool, and no other.
LEMMA ReceiveEffect ==
    ASSUME pool \in Seq(Conns \cup {Nil}), SlotsDiffer, pool # << >>,
           pool' = Tail(pool)
    PROVE  /\ SlotsDiffer'
           /\ Head(pool) # Nil => Head(pool) \in Pooled
           /\ \A k \in Conns : k \in Pooled' <=> k \in Pooled /\ k # Head(pool)
<1>1. /\ Head(pool) = pool[1] /\ Len(pool) \in Nat \ {0}
      /\ Len(pool') = Len(pool) - 1
      /\ \A i \in 1 .. Len(pool') : pool'[i] = pool[i + 1]
    BY TailOfPool
<1>2. \A i \in 1 .. Len(pool') : i + 1 \in 1 .. Len(pool)
    BY <1>1
<1>3. SlotsDiffer'
    BY <1>1, <1>2 DEF SlotsDiffer
<1>4. Head(pool) \in Pooled
    BY <1>1 DEF Pooled
<1>5. ASSUME NEW k \in Conns, k \in Pooled' PROVE k \in Pooled /\ k # Head(pool)
  <2>1. PICK i \in 1 .. Len(pool') : pool'[i] = k
    BY <1>5 DEF Pooled
  <2>2. i + 1 \in 1 .. Len(pool) /\ 1 \in 1 .. Len(pool) /\ pool[i + 1] = k /\ i + 1 # 1
    BY <1>1, <1>2, <2>1
  <2> QED
    BY <1>1, <2>2, ConnsType DEF Pooled, SlotsDiffer
<1>6. ASSUME NEW k \in Conns, k \in Pooled, k # Head(pool) PROVE k \in Pooled'
  <2>1. PICK i \in 1 .. Len(pool) : pool[i] = k
    BY <1>6 DEF Pooled
  <2>2. i # 1
    BY <1>1, <1>6, <2>1
  <2>3. i - 1 \in 1 .. Len(pool') /\ (i - 1) + 1 = i
    BY <1>1, <2>2
  <2> QED
    BY <1>1, <2>1, <2>3 DEF Pooled
<1> QED
    BY <1>3, <1>4, <1>5, <1>6

\* A send puts one in.
LEMMA SendEffect ==
    ASSUME pool \in Seq(Conns \cup {Nil}), SlotsDiffer,
           NEW e \in Conns \cup {Nil}, e # Nil => e \notin Pooled,
           pool' = Append(pool, e)
    PROVE  /\ SlotsDiffer'
           /\ \A k \in Conns : k \in Pooled' <=> k \in Pooled \/ k = e
<1>1. /\ Len(pool) \in Nat /\ Len(pool') = Len(pool) + 1
      /\ \A i \in 1 .. Len(pool) : pool'[i] = pool[i]
      /\ pool'[Len(pool) + 1] = e
    BY AppendToPool
<1>2. 1 .. Len(pool') = (1 .. Len(pool)) \cup {Len(pool) + 1}
    BY <1>1
<1>3. SlotsDiffer'
    BY <1>1, <1>2 DEF SlotsDiffer, Pooled
<1> QED
    BY <1>1, <1>2, <1>3 DEF Pooled

\* What each step of a request does to the connection it holds.
LEMMA ConnEffect ==
    ASSUME TypeOK, HeldWhileUsed, NEW r \in Reqs, ReqStep(r)
    PROVE  /\ \A q \in Reqs \ {r} : held'[q] = held[q] /\ pc'[q] = pc[q]
           /\ \A k \in Conns : k \notin {held[r], held'[r]} => sock'[k] = sock[k]
<1> USE DEF TypeOK, HeldWhileUsed, Goto, End
<1>1. CASE InitPool(r)
    BY <1>1 DEF InitPool
<1>2. CASE Take(r)
    BY <1>2 DEF Take
<1>3. CASE GiveUp(r)
    BY <1>3 DEF GiveUp
<1>4. CASE Dial(r)
    BY <1>4 DEF Dial
<1>5. CASE DialFails(r) \/ Write(r) \/ WriteFails(r)
    BY <1>5 DEF DialFails, Write, WriteFails
<1>6. CASE Read(r) \/ ReadFails(r)
    BY <1>6 DEF Read, ReadFails
<1>7. CASE CheckClosed(r) \/ PutBack(r)
    BY <1>7 DEF CheckClosed, PutBack
<1> QED
    BY <1>1, <1>2, <1>3, <1>4, <1>5, <1>6, <1>7 DEF ReqStep, Exchange

\* A connection that nobody has and that is new, or that somebody gives up and
\* closes, or that stays: the three ways in which an exchange treats it.
LEMMA ExchangeEffect ==
    ASSUME TypeOK, HeldWhileUsed, OpenIsOwned, NEW r \in Reqs,
           Exchange(r) \/ CheckClosed(r)
    PROVE  /\ pool' = pool
           /\ \/ /\ held'[r] \in Conns /\ held[r] = Nil
                 /\ sock[held'[r]].state # "open" /\ sock'[held'[r]].state = "open"
              \/ /\ held'[r] = Nil /\ held[r] # Nil
                 /\ sock'[held[r]].state # "open"
              \/ /\ held'[r] = held[r]
                 /\ held[r] # Nil => sock'[held[r]].state = sock[held[r]].state
<1> USE DEF TypeOK, HeldWhileUsed, Goto, End
<1>0. \A k \in Conns : sock[k] \in Socks
    OBVIOUS
<1>1. CASE Dial(r)
    BY <1>1, SockTypes DEF Dial
<1>2. CASE DialFails(r)
    BY <1>2 DEF DialFails
<1>3. CASE Write(r)
    BY <1>0, <1>3 DEF Write, Socks
<1>4. CASE WriteFails(r)
    BY <1>4, SockTypes DEF WriteFails
<1>5. CASE Read(r)
    BY <1>0, <1>5 DEF Read, Socks
<1>6. CASE ReadFails(r)
    BY <1>6, SockTypes DEF ReadFails
<1>7. CASE CheckClosed(r)
    BY <1>7, SockTypes DEF CheckClosed
<1> QED
    BY <1>1, <1>2, <1>3, <1>4, <1>5, <1>6, <1>7 DEF Exchange

\* Every step preserves OwnersDiffer and OpenIsOwned: a connection is handed on
\* between a request and a slot, or is closed by the one that has it.
LEMMA OwnersStep ==
    ASSUME TypeOK, HeldWhileUsed, SlotsBounded, OwnersDiffer, OpenIsOwned, [Next]_vars
    PROVE  OwnersDiffer' /\ OpenIsOwned'
<1>0. /\ pool \in Seq(Conns \cup {Nil}) /\ SlotsDiffer
      /\ held \in [Reqs -> Conns \cup {Nil}]
      /\ \A k \in Conns : sock[k] \in Socks
    BY DEF TypeOK, OwnersDiffer
<1>1. ASSUME UNCHANGED <<held, pool>>,
             \A k \in Conns : sock'[k].state = "open" <=> sock[k].state = "open"
      PROVE  OwnersDiffer' /\ OpenIsOwned'
    BY <1>1 DEF OwnersDiffer, OpenIsOwned, SlotsDiffer, Pooled
<1>2. ASSUME NEW r \in Reqs, InitPool(r) PROVE OwnersDiffer' /\ OpenIsOwned'
  <2>1. pool = << >> /\ \A i \in 1 .. Len(pool') : pool'[i] = Nil
    BY <1>2, EmptySlots DEF InitPool, SlotsBounded
  <2>2. \A k \in Conns : k \notin Pooled /\ k \notin Pooled'
    BY <2>1, EmptySeq, ConnsType DEF Pooled
  <2>3. SlotsDiffer'
    BY <2>1 DEF SlotsDiffer
  <2>4. UNCHANGED <<held, sock>>
    BY <1>2 DEF InitPool
  <2> QED
    BY <1>0, <2>2, <2>3, <2>4 DEF OwnersDiffer, OpenIsOwned
<1>3. ASSUME NEW r \in Reqs, Take(r) PROVE OwnersDiffer' /\ OpenIsOwned'
  <2>1. /\ SlotsDiffer'
        /\ Head(pool) # Nil => Head(pool) \in Pooled
        /\ \A k \in Conns : k \in Pooled' <=> k \in Pooled /\ k # Head(pool)
    BY <1>0, <1>3, ReceiveEffect DEF Take
  <2>2. /\ held[r] = Nil /\ held'[r] = Head(pool) /\ sock' = sock
        /\ \A q \in Reqs \ {r} : held'[q] = held[q]
        /\ Head(pool) \in Conns \cup {Nil}
    BY <1>0, <1>3, TailOfPool DEF Take, HeldWhileUsed
  <2>3. OwnersDiffer'
    BY <1>0, <2>1, <2>2 DEF OwnersDiffer
  <2>4. OpenIsOwned'
    BY <1>0, <2>1, <2>2, ConnsType DEF OpenIsOwned
  <2> QED
    BY <2>3, <2>4
<1>4. ASSUME NEW r \in Reqs, Exchange(r) \/ CheckClosed(r)
      PROVE  OwnersDiffer' /\ OpenIsOwned'
  <2>0. held' \in [Reqs -> Conns \cup {Nil}]
    BY NextType DEF TypeOK
  <2>1. /\ \A q \in Reqs \ {r} : held'[q] = held[q]
        /\ \A k \in Conns : k \notin {held[r], held'[r]} => sock'[k] = sock[k]
    BY <1>4, ConnEffect DEF ReqStep
  <2>2. /\ pool' = pool
        /\ \A k \in Conns : k \in Pooled' <=> k \in Pooled
        /\ SlotsDiffer'
    BY <1>0, <1>4, ExchangeEffect DEF Pooled, SlotsDiffer
  <2>3. CASE /\ held'[r] \in Conns /\ held[r] = Nil
             /\ sock[held'[r]].state # "open" /\ sock'[held'[r]].state = "open"
    <3>1. OwnersDiffer'
      BY <1>0, <2>0, <2>1, <2>2, <2>3 DEF OwnersDiffer, OpenIsOwned
    <3>2. OpenIsOwned'
      BY <1>0, <2>0, <2>1, <2>2, <2>3, ConnsType DEF OpenIsOwned, OwnersDiffer
    <3> QED
      BY <3>1, <3>2
  <2>4. CASE held'[r] = Nil /\ held[r] # Nil /\ sock'[held[r]].state # "open"
    <3>1. OwnersDiffer'
      BY <1>0, <2>0, <2>1, <2>2, <2>4 DEF OwnersDiffer, OpenIsOwned
    <3>2. OpenIsOwned'
      BY <1>0, <2>0, <2>1, <2>2, <2>4, ConnsType DEF OpenIsOwned, OwnersDiffer
    <3> QED
      BY <3>1, <3>2
  <2>5. CASE /\ held'[r] = held[r]
             /\ held[r] # Nil => sock'[held[r]].state = sock[held[r]].state
    <3>1. OwnersDiffer'
      BY <1>0, <2>0, <2>1, <2>2, <2>5 DEF OwnersDiffer, OpenIsOwned
    <3>2. OpenIsOwned'
      BY <1>0, <2>0, <2>1, <2>2, <2>5, ConnsType DEF OpenIsOwned, OwnersDiffer
    <3> QED
      BY <3>1, <3>2
  <2> QED
    BY <1>4, <2>3, <2>4, <2>5, ExchangeEffect
<1>5. ASSUME NEW r \in Reqs, PutBack(r) PROVE OwnersDiffer' /\ OpenIsOwned'
  <2>0. held' \in [Reqs -> Conns \cup {Nil}]
    BY NextType DEF TypeOK
  <2>1. /\ held'[r] = Nil /\ \A q \in Reqs \ {r} : held'[q] = held[q]
        /\ held[r] \in Conns \cup {Nil}
    BY <1>0, <1>5 DEF PutBack
  <2>2. CASE Len(pool) < Slots
    <3>1. pool' = Append(pool, held[r]) /\ sock' = sock
      BY <1>5, <2>2 DEF PutBack
    <3>2. /\ SlotsDiffer'
          /\ \A k \in Conns : k \in Pooled' <=> k \in Pooled \/ k = held[r]
      BY <1>0, <3>1, SendEffect DEF OwnersDiffer
    <3>3. OwnersDiffer'
      BY <1>0, <2>0, <2>1, <3>1, <3>2 DEF OwnersDiffer, OpenIsOwned
    <3>4. OpenIsOwned'
      BY <1>0, <2>0, <2>1, <3>1, <3>2, ConnsType DEF OpenIsOwned
    <3> QED
      BY <3>3, <3>4
  <2>3. CASE ~(Len(pool) < Slots)
    <3>1. /\ pool' = pool
          /\ sock' = IF held[r] = Nil THEN sock ELSE [sock EXCEPT ![held[r]] = Shut]
      BY <1>5, <2>3 DEF PutBack
    <3>2. /\ \A k \in Conns \ {held[r]} : sock'[k] = sock[k]
          /\ held[r] # Nil => sock'[held[r]].state # "open"
      BY <2>1, <3>1, SockTypes DEF TypeOK
    <3>3. SlotsDiffer' /\ \A k \in Conns : k \in Pooled' <=> k \in Pooled
      BY <1>0, <3>1 DEF Pooled, SlotsDiffer
    <3>4. OwnersDiffer'
      BY <1>0, <2>0, <2>1, <3>2, <3>3 DEF OwnersDiffer
    <3>5. OpenIsOwned'
      BY <1>0, <2>0, <2>1, <3>2, <3>3, ConnsType DEF OpenIsOwned, OwnersDiffer
    <3> QED
      BY <3>4, <3>5
  <2> QED
    BY <2>2, <2>3
<1>6. CASE Drain
  <2>1. CASE pool = << >>
    BY <1>1, <1>6, <2>1 DEF Drain
  <2>2. CASE pool # << >>
    <3>1. /\ pool' = Tail(pool) /\ held' = held
          /\ sock' = IF Head(pool) = Nil THEN sock ELSE [sock EXCEPT ![Head(pool)] = Shut]
      BY <1>6, <2>2 DEF Drain
    <3>2. /\ SlotsDiffer'
          /\ Head(pool) # Nil => Head(pool) \in Pooled
          /\ \A k \in Conns : k \in Pooled' <=> k \in Pooled /\ k # Head(pool)
      BY <1>0, <2>2, <3>1, ReceiveEffect
    <3>3. /\ \A k \in Conns \ {Head(pool)} : sock'[k] = sock[k]
          /\ Head(pool) \in Conns => sock'[Head(pool)].state # "open"
      BY <3>1, ConnsType, SockTypes DEF TypeOK
    <3>4. OwnersDiffer'
      BY <1>0, <3>1, <3>2 DEF OwnersDiffer
    <3>5. OpenIsOwned'
      BY <1>0, <3>1, <3>2, <3>3, ConnsType DEF OpenIsOwned, OwnersDiffer
    <3> QED
      BY <3>4, <3>5
  <2> QED
    BY <2>1, <2>2
<1>7. ASSUME NEW k \in Conns, Respond(k) PROVE OwnersDiffer' /\ OpenIsOwned'
    BY <1>0, <1>1, <1>7 DEF Respond, TypeOK, Socks
<1>8. ASSUME NEW r \in Reqs, GiveUp(r) PROVE OwnersDiffer' /\ OpenIsOwned'
    BY <1>1, <1>8 DEF GiveUp
<1>9. CASE SetClosed \/ CloseStarts \/ UNCHANGED vars
    BY <1>1, <1>9 DEF SetClosed, CloseStarts, vars
<1> QED
    BY <1>2, <1>3, <1>4, <1>5, <1>6, <1>7, <1>8, <1>9 DEF Next, ReqStep, CloseStep

-----------------------------------------------------------------------------
(* The slots.                                                              *)

\* The requests that have a slot can be counted.
LEMMA InUseCount ==
    /\ IsFiniteSet(InUse) /\ Cardinality(InUse) \in Nat
    /\ \A r \in InUse : /\ Cardinality(InUse) >= 1
                        /\ Cardinality(InUse \ {r}) = Cardinality(InUse) - 1
    /\ \A r \in Reqs \ InUse : Cardinality(InUse \cup {r}) = Cardinality(InUse) + 1
<1>1. InUse \subseteq Reqs
    BY DEF InUse
<1>2. IsFiniteSet(InUse)
    BY <1>1, PoolAssumption, FS_Subset
<1>3. Cardinality(InUse) \in Nat
    BY <1>2, FS_CardinalityType
<1>4. ASSUME NEW r \in InUse
      PROVE  /\ Cardinality(InUse) >= 1
             /\ Cardinality(InUse \ {r}) = Cardinality(InUse) - 1
  <2>1. /\ IsFiniteSet(InUse \ {r})
        /\ Cardinality(InUse \ {r}) = Cardinality(InUse) - 1
    BY <1>2, FS_RemoveElement
  <2>2. Cardinality(InUse \ {r}) \in Nat
    BY <2>1, FS_CardinalityType
  <2> QED
    BY <1>3, <2>1, <2>2
<1>5. ASSUME NEW r \in Reqs \ InUse
      PROVE  Cardinality(InUse \cup {r}) = Cardinality(InUse) + 1
    BY <1>2, FS_AddElement
<1> QED
    BY <1>2, <1>3, <1>4, <1>5

\* A step that moves no slot.
LEMMA SlotsStay ==
    ASSUME TypeOK, SlotsConserved, SlotsBounded,
           UNCHANGED <<pool, ready>>, InUse' = InUse,
           closed => closed', closer' # "idle" => closed'
    PROVE  SlotsConserved' /\ SlotsBounded'
<1>1. Cardinality(InUse') = Cardinality(InUse)
    OBVIOUS
<1>2. SlotsConserved'
    BY <1>1 DEF SlotsConserved
<1>3. SlotsBounded'
    BY <1>1 DEF SlotsBounded
<1> QED
    BY <1>2, <1>3

\* Every step preserves the number of slots, but for those that Close takes.  A
\* request that returns a slot is one of those counted, so there is room for it.
LEMMA SlotsStep ==
    ASSUME TypeOK, SlotsConserved, SlotsBounded, [Next]_vars
    PROVE  SlotsConserved' /\ SlotsBounded'
<1>0. /\ Len(pool) \in Nat /\ Slots \in Nat /\ Cardinality(InUse) \in Nat
      /\ pool \in Seq(Conns \cup {Nil})
      /\ pc \in [Reqs -> {"start", "dial", "write", "redial", "rewrite", "read",
                          "return", "put", "done"}]
    BY LenProperties, PoolAssumption, InUseCount DEF TypeOK
<1>1. ASSUME NEW r \in Reqs, InitPool(r) PROVE SlotsConserved' /\ SlotsBounded'
  <2>1. Len(pool') = Slots /\ InUse = {} /\ ready' /\ UNCHANGED <<closed, closer>>
    BY <1>1, EmptySlots DEF InitPool, SlotsBounded
  <2>2. InUse' = {}
    BY <1>1, <2>1 DEF InitPool, InUse, HasSlot
  <2>3. Cardinality(InUse') = 0
    BY <2>2, FS_EmptySet
  <2>4. Len(pool') + Cardinality(InUse') = Slots
    BY <1>0, <2>1, <2>3
  <2>5. SlotsConserved'
    BY <2>4 DEF SlotsConserved
  <2>6. SlotsBounded'
    BY <1>0, <2>1, <2>4 DEF SlotsBounded
  <2> QED
    BY <2>5, <2>6
<1>2. ASSUME NEW r \in Reqs, Take(r) PROVE SlotsConserved' /\ SlotsBounded'
  <2>1. /\ Len(pool') = Len(pool) - 1 /\ ready
        /\ UNCHANGED <<ready, closed, closer>>
    BY <1>0, <1>2, TailOfPool DEF Take
  <2>2. r \in Reqs \ InUse /\ InUse' = InUse \cup {r}
    BY <1>0, <1>2 DEF Take, Goto, InUse, HasSlot
  <2>3. Cardinality(InUse') = Cardinality(InUse) + 1
    BY <2>2, InUseCount
  <2>4. Len(pool') + Cardinality(InUse') = Len(pool) + Cardinality(InUse)
    BY <1>0, <2>1, <2>3
  <2>5. SlotsConserved'
    BY <2>1, <2>4 DEF SlotsConserved
  <2>6. SlotsBounded'
    BY <2>1, <2>4 DEF SlotsBounded
  <2> QED
    BY <2>5, <2>6
<1>3. ASSUME NEW r \in Reqs, PutBack(r) PROVE SlotsConserved' /\ SlotsBounded'
  <2>1. r \in InUse /\ InUse' = InUse \ {r}
    BY <1>0, <1>3 DEF PutBack, Goto, InUse, HasSlot
  <2>2. Cardinality(InUse) >= 1 /\ Cardinality(InUse') = Cardinality(InUse) - 1
    BY <2>1, InUseCount
  <2>3. Len(pool) + Cardinality(InUse) <= Slots /\ ready
    BY <2>1 DEF SlotsBounded
  <2>4. Len(pool) < Slots
    BY <1>0, <2>2, <2>3
  <2>5. pool' = Append(pool, held[r]) /\ UNCHANGED <<ready, closed, closer>>
    BY <1>3, <2>4 DEF PutBack
  <2>6. Len(pool') = Len(pool) + 1
    BY <1>0, <2>5, AppendToPool DEF TypeOK
  <2>7. Len(pool') + Cardinality(InUse') = Len(pool) + Cardinality(InUse)
    BY <1>0, <2>2, <2>6
  <2>8. SlotsConserved'
    BY <2>5, <2>7 DEF SlotsConserved
  <2>9. SlotsBounded'
    BY <2>3, <2>5, <2>7 DEF SlotsBounded
  <2> QED
    BY <2>8, <2>9
<1>4. ASSUME NEW r \in Reqs, GiveUp(r) \/ Exchange(r) \/ CheckClosed(r)
      PROVE  SlotsConserved' /\ SlotsBounded'
  <2>1. UNCHANGED <<pool, ready, closed, closer>>
    BY <1>4 DEF GiveUp, CheckClosed, Exchange, Dial, DialFails, Write, WriteFails,
                Read, ReadFails
  <2>2. \E l \in {"write", "rewrite", "read", "redial", "return", "put", "done"} :
           /\ pc' = [pc EXCEPT ![r] = l]
           /\ pc[r] \in {"start", "done"} <=> l = "done"
    BY <1>4 DEF GiveUp, CheckClosed, Exchange, Dial, DialFails, Write, WriteFails,
                Read, ReadFails, End, Goto
  <2>3. InUse' = InUse
    BY <1>0, <2>2 DEF InUse, HasSlot
  <2> QED
    BY <2>1, <2>3, SlotsStay DEF SlotsBounded
<1>5. CASE (\E k \in Conns : Respond(k)) \/ SetClosed \/ CloseStarts \/ UNCHANGED vars
  <2>1. /\ UNCHANGED <<pool, pc, ready>>
        /\ closed => closed'
        /\ closer' # "idle" => closed'
    BY <1>5 DEF Respond, SetClosed, CloseStarts, vars, SlotsBounded
  <2> QED
    BY <2>1, SlotsStay DEF InUse, HasSlot
<1>6. CASE Drain
  <2>1. CASE pool = << >>
    BY <1>6, <2>1, SlotsStay DEF Drain, InUse, HasSlot, SlotsBounded
  <2>2. CASE pool # << >>
    <3>1. /\ pool' = Tail(pool) /\ closed /\ UNCHANGED <<ready, closed, closer, pc>>
      BY <1>6, <2>2 DEF Drain, SlotsBounded
    <3>2. Len(pool') = Len(pool) - 1 /\ InUse' = InUse
      BY <1>0, <2>2, <3>1, TailOfPool DEF InUse, HasSlot
    <3>3. ready
      BY <2>2 DEF SlotsBounded
    <3>4. SlotsConserved'
      BY <3>1 DEF SlotsConserved
    <3>5. Cardinality(InUse') = Cardinality(InUse)
      BY <3>2
    <3>6. Len(pool') + Cardinality(InUse') <= Slots
      BY <1>0, <3>2, <3>5 DEF SlotsBounded
    <3>7. SlotsBounded'
      BY <3>1, <3>3, <3>6 DEF SlotsBounded
    <3> QED
      BY <3>4, <3>7
  <2> QED
    BY <2>1, <2>2
<1> QED
    BY <1>1, <1>2, <1>3, <1>4, <1>5, <1>6 DEF Next, ReqStep, CloseStep

-----------------------------------------------------------------------------
(* The conversations.                                                      *)

\* What request r has on connection k while it waits.
Asked(r)    == [Opened EXCEPT !.sent = {r}]
Answered(r) == [Opened EXCEPT !.inbox = <<r>>]

\* The records of a conversation, field by field.
LEMMA Fields ==
    ASSUME NEW s \in Socks, NEW x, NEW y
    PROVE  /\ [s EXCEPT !.sent = x] = [state |-> s.state, sent |-> x, inbox |-> s.inbox]
           /\ [s EXCEPT !.inbox = y] = [state |-> s.state, sent |-> s.sent, inbox |-> y]
           /\ [s EXCEPT !.sent = x, !.inbox = y]
              = [state |-> s.state, sent |-> x, inbox |-> y]
<1>1. [s EXCEPT !.sent = x] = [state |-> s.state, sent |-> x, inbox |-> s.inbox]
    BY DEF Socks
<1>2. [s EXCEPT !.inbox = y] = [state |-> s.state, sent |-> s.sent, inbox |-> y]
    BY DEF Socks
<1>3. [s EXCEPT !.sent = x, !.inbox = y] = [state |-> s.state, sent |-> x, inbox |-> y]
  <2> DEFINE t == [s EXCEPT !.sent = x]
  <2>1. t \in [state : {s.state}, sent : {x}, inbox : {s.inbox}]
    BY <1>1
  <2>2. [t EXCEPT !.inbox = y] = [state |-> t.state, sent |-> t.sent, inbox |-> y]
    <3> HIDE DEF t
    <3> QED
      BY <2>1
  <2>3. t.state = s.state /\ t.sent = x
    BY <1>1
  <2> QED
    BY <2>2, <2>3
<1> QED
    BY <1>1, <1>2, <1>3

LEMMA Conversations ==
    ASSUME NEW r
    PROVE  /\ Opened = [state |-> "open", sent |-> {}, inbox |-> << >>]
           /\ Asked(r) = [state |-> "open", sent |-> {r}, inbox |-> << >>]
           /\ Answered(r) = [state |-> "open", sent |-> {}, inbox |-> <<r>>]
           /\ <<r>> # << >> /\ Head(<<r>>) = r /\ Tail(<<r>>) = << >>
           /\ Append(<< >>, r) = <<r>>
<1>1. <<r>> # << >> /\ Head(<<r>>) = r /\ Tail(<<r>>) = << >> /\ Append(<< >>, r) = <<r>>
    OBVIOUS
<1>2. Opened \in Socks /\ Opened = [state |-> "open", sent |-> {}, inbox |-> << >>]
    BY SockTypes DEF Opened
<1>3. Asked(r) = [state |-> "open", sent |-> {r}, inbox |-> << >>]
    BY <1>2, Fields DEF Asked
<1>4. Answered(r) = [state |-> "open", sent |-> {}, inbox |-> <<r>>]
    BY <1>2, Fields DEF Answered
<1> QED
    BY <1>1, <1>2, <1>3, <1>4

\* A request that may write has a silent connection.
LEMMA SilentUnlessRead ==
    ASSUME TypeOK, HeldWhileUsed, OwnersDiffer, OpenIsOwned, OneConversation,
           NEW r \in Reqs, held[r] # Nil
    PROVE  /\ held[r] \in Conns
           /\ \/ sock[held[r]] = Opened
              \/ pc[r] = "read" /\ sock[held[r]] \in {Asked(r), Answered(r)}
<1>1. held[r] \in Conns
    BY DEF TypeOK
<1>2. sock[held[r]].state = "open"
    BY <1>1 DEF OpenIsOwned
<1>3. \/ sock[held[r]] = Opened
      \/ \E q \in Reqs : /\ pc[q] = "read" /\ held[q] = held[r]
                         /\ sock[held[r]] \in {Asked(q), Answered(q)}
    BY <1>1, <1>2 DEF OneConversation, Asked, Answered
<1> QED
    BY <1>1, <1>3 DEF OwnersDiffer

\* A request reads its own answer, and leaves a silent connection.
LEMMA ReadEffect ==
    ASSUME TypeOK, HeldWhileUsed, OwnersDiffer, OpenIsOwned, OneConversation,
           NEW r \in Reqs, Read(r)
    PROVE  /\ res' = [res EXCEPT ![r] = Answer(r)]
           /\ sock' = [sock EXCEPT ![held[r]] = Opened]
<1>1. /\ pc[r] = "read" /\ held[r] # Nil /\ sock[held[r]].inbox # << >>
      /\ sock' = [sock EXCEPT ![held[r]].inbox = Tail(sock[held[r]].inbox)]
      /\ res' = [res EXCEPT ![r] = Answer(Head(sock[held[r]].inbox))]
    BY DEF Read, End, HeldWhileUsed
<1>2. sock[held[r]] \in {Opened, Asked(r), Answered(r)}
    BY <1>1, SilentUnlessRead
<1>3. sock[held[r]] = Answered(r)
    BY <1>1, <1>2, Conversations
<1>4. sock[held[r]].inbox = <<r>>
    BY <1>3, Conversations
<1>5. res' = [res EXCEPT ![r] = Answer(r)]
    BY <1>1, <1>4, Conversations
<1>6. [sock[held[r]] EXCEPT !.inbox = << >>] = Opened
  <2>1. sock[held[r]] \in Socks
    BY <1>1 DEF TypeOK
  <2>2. [sock[held[r]] EXCEPT !.inbox = << >>]
        = [state |-> sock[held[r]].state, sent |-> sock[held[r]].sent, inbox |-> << >>]
    BY <2>1, Fields
  <2>3. sock[held[r]].state = "open" /\ sock[held[r]].sent = {}
    BY <1>3, Conversations
  <2> QED
    BY <2>2, <2>3, Conversations
<1>7. sock' = [sock EXCEPT ![held[r]] = Opened]
    BY <1>1, <1>4, <1>6, Conversations
<1> QED
    BY <1>5, <1>7

\* A conversation goes on where neither its connection nor its reader moves.
LEMMA ConversationStays ==
    ASSUME OneConversation, NEW k \in Conns,
           sock'[k] = sock[k] \/ sock'[k] = Opened \/ sock'[k].state # "open",
           \A q \in Reqs : pc[q] = "read" /\ held[q] = k /\ sock'[k] = sock[k] =>
                              pc'[q] = pc[q] /\ held'[q] = held[q]
    PROVE  sock'[k].state = "open" =>
               \/ sock'[k] = Opened
               \/ \E r \in Reqs :
                     /\ pc'[r] = "read" /\ held'[r] = k
                     /\ sock'[k] \in {[Opened EXCEPT !.sent = {r}],
                                      [Opened EXCEPT !.inbox = <<r>>]}
    BY DEF OneConversation

\* Every step preserves OneConversation.
LEMMA ConversationStep ==
    ASSUME TypeOK, HeldWhileUsed, OwnersDiffer, OpenIsOwned, OneConversation,
           [Next]_vars
    PROVE  OneConversation'
<1> DEFINE Good(k) == sock[k].state = "open" =>
               \/ sock[k] = Opened
               \/ \E r \in Reqs :
                     /\ pc[r] = "read" /\ held[r] = k
                     /\ sock[k] \in {[Opened EXCEPT !.sent = {r}],
                                     [Opened EXCEPT !.inbox = <<r>>]}
<1> SUFFICES ASSUME NEW k \in Conns PROVE Good(k)'
    BY DEF OneConversation
<1>0. /\ held \in [Reqs -> Conns \cup {Nil}]
      /\ DOMAIN pc = Reqs /\ DOMAIN sock = Conns
      /\ \A r \in Reqs : held[r] = k => held[r] # Nil /\ sock[k].state = "open"
    BY ConnsType DEF TypeOK, OpenIsOwned
<1>1. ASSUME NEW r \in Reqs, InitPool(r) \/ Take(r) \/ GiveUp(r) PROVE Good(k)'
  <2>1. sock' = sock /\ \A q \in Reqs : pc[q] = "read" => pc'[q] = pc[q] /\ held'[q] = held[q]
    BY <1>0, <1>1 DEF InitPool, Take, GiveUp, Goto
  <2> QED
    BY <2>1, ConversationStays
<1>2. ASSUME NEW r \in Reqs, Dial(r) \/ DialFails(r) \/ WriteFails(r) PROVE Good(k)'
  <2>1. \A q \in Reqs : pc[q] = "read" => pc'[q] = pc[q] /\ held'[q] = held[q]
    BY <1>0, <1>2 DEF Dial, DialFails, WriteFails, Goto, End
  <2>2. sock'[k] = sock[k] \/ sock'[k] = Opened \/ sock'[k].state # "open"
    BY <1>0, <1>2, SockTypes DEF Dial, DialFails, WriteFails
  <2> QED
    BY <2>1, <2>2, ConversationStays
<1>3. ASSUME NEW r \in Reqs, Write(r) PROVE Good(k)'
  <2>1. CASE held[r] # k
    <3>1. sock'[k] = sock[k]
      BY <1>0, <1>3, <2>1 DEF Write
    <3>2. \A q \in Reqs : pc[q] = "read" => pc'[q] = pc[q] /\ held'[q] = held[q]
      BY <1>0, <1>3 DEF Write, Goto
    <3> QED
      BY <3>1, <3>2, ConversationStays
  <2>2. CASE held[r] = k
    <3>1. pc[r] # "read" /\ pc'[r] = "read" /\ held'[r] = k
      BY <1>0, <1>3, <2>2 DEF Write, Goto
    <3>2. sock[k] = Opened
      BY <1>0, <2>2, <3>1, SilentUnlessRead
    <3>3. sock'[k] = [sock[k] EXCEPT !.sent = @ \cup {r}]
      BY <1>0, <1>3, <2>2 DEF Write
    <3>4. sock'[k] = [state |-> Opened.state, sent |-> Opened.sent \cup {r},
                      inbox |-> Opened.inbox]
      BY <3>2, <3>3, SockTypes, Fields
    <3>5. Opened.state = "open" /\ Opened.sent \cup {r} = {r} /\ Opened.inbox = << >>
      BY DEF Opened
    <3>6. sock'[k] = Asked(r)
      BY <3>4, <3>5, Conversations
    <3>7. sock'[k] = [Opened EXCEPT !.sent = {r}]
      BY <3>6 DEF Asked
    <3> QED
      BY <3>1, <3>7
  <2> QED
    BY <2>1, <2>2
<1>4. ASSUME NEW r \in Reqs, Read(r) PROVE Good(k)'
  <2>1. sock' = [sock EXCEPT ![held[r]] = Opened]
    BY <1>4, ReadEffect
  <2>2. \A q \in Reqs \ {r} : pc'[q] = pc[q] /\ held'[q] = held[q]
    BY <1>0, <1>4 DEF Read, End, Goto
  <2>3. CASE held[r] = k
    BY <1>0, <2>1, <2>3
  <2>4. CASE held[r] # k
    BY <1>0, <2>1, <2>2, <2>4, ConversationStays
  <2> QED
    BY <2>3, <2>4
<1>5. ASSUME NEW r \in Reqs, ReadFails(r) PROVE Good(k)'
  <2>1. sock' = [sock EXCEPT ![held[r]] = Shut]
    BY <1>5 DEF ReadFails
  <2>2. \A q \in Reqs \ {r} : pc'[q] = pc[q] /\ held'[q] = held[q]
    BY <1>0, <1>5 DEF ReadFails, End, Goto
  <2>3. CASE held[r] = k
    BY <1>0, <2>1, <2>3, SockTypes
  <2>4. CASE held[r] # k
    BY <1>0, <2>1, <2>2, <2>4, ConversationStays
  <2> QED
    BY <2>3, <2>4
<1>6. ASSUME NEW r \in Reqs, CheckClosed(r) \/ PutBack(r) PROVE Good(k)'
  <2>1. \A q \in Reqs : pc[q] = "read" => pc'[q] = pc[q] /\ held'[q] = held[q]
    BY <1>0, <1>6 DEF CheckClosed, PutBack, Goto
  <2>2. sock'[k] = sock[k] \/ sock'[k].state # "open"
    BY <1>0, <1>6, SockTypes DEF CheckClosed, PutBack
  <2> QED
    BY <2>1, <2>2, ConversationStays
<1>7. ASSUME NEW j \in Conns, Respond(j) PROVE Good(k)'
  <2>1. PICK q \in sock[j].sent :
            sock' = [sock EXCEPT ![j].sent = @ \ {q}, ![j].inbox = Append(@, q)]
    BY <1>7 DEF Respond
  <2>2. sock[j].state = "open" /\ UNCHANGED <<pc, held>>
    BY <1>7 DEF Respond
  <2>3. CASE j # k
    BY <1>0, <2>1, <2>2, <2>3, ConversationStays
  <2>4. CASE j = k
    <3>1. sock[k] # Opened
      BY <2>1, <2>4, Conversations
    <3>2. PICK r \in Reqs : /\ pc[r] = "read" /\ held[r] = k
                            /\ sock[k] \in {Asked(r), Answered(r)}
      BY <2>2, <2>4, <3>1 DEF OneConversation, Asked, Answered
    <3>3. sock[k] = Asked(r) /\ q = r
      BY <2>1, <2>4, <3>2, Conversations
    <3>4. sock'[k] = [sock[k] EXCEPT !.sent = @ \ {q}, !.inbox = Append(@, q)]
      BY <1>0, <2>1, <2>4
    <3>5. sock[k] \in Socks
      BY DEF TypeOK
    <3>6. sock'[k] = [state |-> sock[k].state, sent |-> sock[k].sent \ {q},
                      inbox |-> Append(sock[k].inbox, q)]
      BY <3>4, <3>5, Fields
    <3>7. sock'[k] = Answered(r)
      BY <3>3, <3>6, Conversations
    <3> QED
      BY <2>2, <3>2, <3>7 DEF Answered
  <2> QED
    BY <2>3, <2>4
<1>8. CASE CloseStep \/ UNCHANGED vars
  <2>1. UNCHANGED <<pc, held>>
    BY <1>8 DEF CloseStep, SetClosed, CloseStarts, Drain, vars
  <2>2. sock'[k] = sock[k] \/ sock'[k].state # "open"
    BY <1>0, <1>8, SockTypes DEF CloseStep, SetClosed, CloseStarts, Drain, vars
  <2> QED
    BY <2>1, <2>2, ConversationStays
<1> QED
    BY <1>1, <1>2, <1>3, <1>4, <1>5, <1>6, <1>7, <1>8 DEF Next, ReqStep, Exchange

\* Every step preserves NoCrossTalk: only Read returns an answer.
LEMMA NoCrossTalkStep ==
    ASSUME TypeOK, HeldWhileUsed, OwnersDiffer, OpenIsOwned, OneConversation,
           NoCrossTalk, [Next]_vars
    PROVE  NoCrossTalk'
<1>0. None.kind # "answer" /\ Error.kind # "answer" /\ DOMAIN res = Reqs
    BY DEF None, Error, TypeOK
<1>1. ASSUME NEW r \in Reqs, res' = [res EXCEPT ![r] = Answer(r)] PROVE NoCrossTalk'
    BY <1>0, <1>1 DEF NoCrossTalk
<1>2. ASSUME NEW r \in Reqs, res' = [res EXCEPT ![r] = Error] PROVE NoCrossTalk'
    BY <1>0, <1>2 DEF NoCrossTalk
<1>3. ASSUME UNCHANGED res PROVE NoCrossTalk'
    BY <1>3 DEF NoCrossTalk
<1>4. ASSUME NEW r \in Reqs, ReqStep(r)
      PROVE  \/ res' = [res EXCEPT ![r] = Answer(r)]
             \/ res' = [res EXCEPT ![r] = Error]
             \/ UNCHANGED res
  <2>1. CASE Read(r)
    BY <2>1, ReadEffect
  <2>2. CASE GiveUp(r) \/ DialFails(r) \/ WriteFails(r) \/ ReadFails(r)
    BY <2>2 DEF GiveUp, DialFails, WriteFails, ReadFails, End
  <2>3. CASE InitPool(r) \/ Take(r) \/ Dial(r) \/ Write(r) \/ CheckClosed(r) \/ PutBack(r)
    BY <2>3 DEF InitPool, Take, Dial, Write, CheckClosed, PutBack
  <2> QED
    BY <1>4, <2>1, <2>2, <2>3 DEF ReqStep, Exchange
<1>5. CASE (\E k \in Conns : Respond(k)) \/ CloseStep \/ UNCHANGED vars
    BY <1>3, <1>5 DEF Respond, CloseStep, SetClosed, CloseStarts, Drain, vars
<1> QED
    BY <1>1, <1>2, <1>3, <1>4, <1>5 DEF Next

-----------------------------------------------------------------------------
(* The theorems.                                                           *)

\* The initial state has no slots, no connections and no answers.
LEMMA InitInv == Init => PoolInv /\ NoCrossTalk
<1> SUFFICES ASSUME Init PROVE PoolInv /\ NoCrossTalk
    OBVIOUS
<1>1. TypeOK
    BY InitType
<1>2. pool = << >> /\ Len(pool) = 0 /\ 1 .. Len(pool) = {} /\ Pooled = {}
    BY EmptySeq DEF Init, Pooled
<1>3. InUse = {} /\ Cardinality(InUse) = 0
    BY FS_EmptySet DEF Init, InUse, HasSlot
<1>4. SlotsConserved /\ SlotsBounded
    BY <1>2, <1>3, PoolAssumption DEF Init, SlotsConserved, SlotsBounded
<1>5. HeldWhileUsed
    BY DEF Init, HeldWhileUsed
<1>6. OwnersDiffer
    BY <1>2 DEF Init, OwnersDiffer, SlotsDiffer
<1>7. OpenIsOwned /\ OneConversation
    BY <1>2, ConnsType, SockTypes DEF Init, OpenIsOwned, OneConversation
<1>8. NoCrossTalk
    BY DEF Init, NoCrossTalk, None
<1> QED
    BY <1>1, <1>4, <1>5, <1>6, <1>7, <1>8 DEF PoolInv

\* PoolInv holds in every reachable state (PoolInv of the run pool): slots are
\* neither lost nor made, connections have one owner each, and a connection
\* nobody reads from is silent.
THEOREM PoolInvariant == Spec => []PoolInv
<1>1. Init => PoolInv
    BY InitInv
<1>2. PoolInv /\ [Next]_vars => PoolInv'
  <2> SUFFICES ASSUME PoolInv, [Next]_vars PROVE PoolInv'
    OBVIOUS
  <2>1. /\ TypeOK /\ SlotsConserved /\ SlotsBounded
        /\ HeldWhileUsed /\ OwnersDiffer /\ OpenIsOwned /\ OneConversation
    BY DEF PoolInv
  <2>2. TypeOK' /\ HeldWhileUsed'
    BY <2>1, NextType, HeldWhileUsedStep
  <2>3. SlotsConserved' /\ SlotsBounded'
    BY <2>1, SlotsStep
  <2>4. OwnersDiffer' /\ OpenIsOwned'
    BY <2>1, OwnersStep
  <2>5. OneConversation'
    BY <2>1, ConversationStep
  <2> QED
    BY <2>2, <2>3, <2>4, <2>5 DEF PoolInv
<1> QED
    BY <1>1, <1>2, PTL DEF Spec

\* The variables have their types in every reachable state.
THEOREM TypeCorrect == Spec => []TypeOK
<1>1. PoolInv => TypeOK
    BY DEF PoolInv
<1> QED
    BY <1>1, PoolInvariant, PTL

\* An open connection has exactly one owner, a request or a slot of the pool,
\* and both own open connections only (tcp.go:71-130).
THEOREM OneOwnerHolds == Spec => []OneOwner
<1>1. PoolInv => OneOwner
  <2> SUFFICES ASSUME PoolInv, NEW k \in Conns
               PROVE  Cardinality({r \in InUse : held[r] = k})
                      + Cardinality({i \in 1 .. Len(pool) : pool[i] = k})
                      = IF sock[k].state = "open" THEN 1 ELSE 0
    BY DEF OneOwner
  <2> DEFINE R == {r \in InUse : held[r] = k}
             P == {i \in 1 .. Len(pool) : pool[i] = k}
  <2>1. k # Nil /\ HeldWhileUsed /\ OwnersDiffer /\ OpenIsOwned
    BY ConnsType DEF PoolInv
  <2>2. \A r \in Reqs : held[r] = k => r \in InUse
    BY <2>1 DEF HeldWhileUsed, InUse, HasSlot
  <2>3. R = {} \/ \E r \in R : R = {r}
    BY <2>1 DEF OwnersDiffer, InUse
  <2>4. P = {} \/ \E i \in P : P = {i}
    BY <2>1 DEF OwnersDiffer, SlotsDiffer
  <2>5. R = {} \/ P = {}
    BY <2>1 DEF OwnersDiffer, Pooled, InUse
  <2>6. sock[k].state = "open" <=> R # {} \/ P # {}
    <3>1. sock[k].state = "open" <=> k \in Pooled \/ \E r \in Reqs : held[r] = k
      BY <2>1 DEF OpenIsOwned
    <3>2. (\E r \in Reqs : held[r] = k) <=> R # {}
      BY <2>2 DEF InUse
    <3>3. k \in Pooled <=> P # {}
      BY DEF Pooled
    <3> QED
      BY <3>1, <3>2, <3>3
  <2>7. \A S : S = {} \/ (\E x \in S : S = {x}) =>
                  Cardinality(S) = (IF S = {} THEN 0 ELSE 1)
    <3>1. \A x : Cardinality({x}) = 1
      BY FS_Singleton
    <3>2. Cardinality({}) = 0
      BY FS_EmptySet
    <3> QED
      BY <3>1, <3>2
  <2>8. /\ Cardinality(R) = (IF R = {} THEN 0 ELSE 1)
        /\ Cardinality(P) = (IF P = {} THEN 0 ELSE 1)
    <3> HIDE DEF R, P
    <3> QED
      BY <2>3, <2>4, <2>7
  <2>9. Cardinality(R) + Cardinality(P) = IF sock[k].state = "open" THEN 1 ELSE 0
    <3> HIDE DEF R, P
    <3> QED
      BY <2>5, <2>6, <2>8
  <2> QED
    BY <2>9
<1> QED
    BY <1>1, PoolInvariant, PTL

\* A request gets the answer that was given to it, whatever the message IDs are
\* (tcp.go:118-130).
THEOREM NoCrossTalkHolds == Spec => []NoCrossTalk
<1>1. Init => PoolInv /\ NoCrossTalk
    BY InitInv
<1>2. PoolInv /\ NoCrossTalk /\ [Next]_vars => NoCrossTalk'
    BY NoCrossTalkStep DEF PoolInv
<1> QED
    BY <1>1, <1>2, PoolInvariant, PTL DEF Spec

\* When Close returns, the connections still open are those of requests in
\* flight (tcp.go:167-186).
THEOREM CloseDrainsHolds == Spec => CloseDrains
<1> DEFINE A == closer' = "done" /\ closer # "done" =>
                   \A k \in Conns : sock'[k].state = "open" =>
                       \E r \in Reqs : HasSlot(r) /\ held[r] = k
<1>1. ASSUME PoolInv, [Next]_vars PROVE [A]_vars
  <2> SUFFICES ASSUME closer' = "done", closer # "done",
                      NEW k \in Conns, sock'[k].state = "open"
               PROVE  \E r \in Reqs : HasSlot(r) /\ held[r] = k
    OBVIOUS
  <2>1. pool = << >> /\ sock' = sock
    <3>1. CASE CloseStarts
      BY <1>1, <3>1 DEF CloseStarts, PoolInv, SlotsBounded
    <3>2. CASE Drain
      BY <3>2 DEF Drain
    <3>3. ASSUME NEW r \in Reqs, ReqStep(r) PROVE closer' = closer
      BY <3>3 DEF ReqStep, Exchange, InitPool, Take, GiveUp, Dial, DialFails, Write,
                  WriteFails, Read, ReadFails, CheckClosed, PutBack
    <3>4. CASE (\E j \in Conns : Respond(j)) \/ SetClosed \/ UNCHANGED vars
      BY <3>4 DEF Respond, SetClosed, vars
    <3> QED
      BY <1>1, <3>1, <3>2, <3>3, <3>4 DEF Next, CloseStep
  <2>2. k \notin Pooled
    BY <2>1, EmptySeq DEF Pooled
  <2>3. PICK r \in Reqs : held[r] = k
    BY <1>1, <2>1, <2>2 DEF PoolInv, OpenIsOwned
  <2>4. HasSlot(r)
    BY <1>1, <2>3, ConnsType DEF PoolInv, HeldWhileUsed, HasSlot
  <2> QED
    BY <2>3, <2>4
<1> QED
    BY <1>1, PoolInvariant, PTL DEF Spec, CloseDrains
=============================================================================
