---------------------------- MODULE UpstreamRace ----------------------------
(***************************************************************************)
(* What one call of RaceResolve (internal/client/resolver.go) promises to  *)
(* its caller, with the channel, the goroutines and the receive loop left  *)
(* out: the upstreams of one group are asked at once, and the call is      *)
(* decided by what has been heard of them and by whether time has run out. *)
(* RaceResolve.tla is shown to implement this module; Router.tla uses it   *)
(* for the domestic and the overseas group.                                *)
(***************************************************************************)
EXTENDS Naturals

CONSTANTS Clients,     \* the upstreams of the group
          NoClient     \* stands for the nil *dns.Msg

VARIABLES heard,       \* heard[c]: the answer of upstream c, or "silent"
          expired,     \* the 5 s timer fired, or the caller's context ended
          verdict      \* what the call returned, kind "pending" before that

raceVars == <<heard, expired, verdict>>

\* "ok": NOERROR; "neg": any other response code; "fail": no response.
Kinds == {"ok", "neg", "fail"}

Pending  == [kind |-> "pending", from |-> NoClient]
Failed   == [kind |-> "fail", from |-> NoClient]
Reply(kind, c) == [kind |-> kind, from |-> c]

Verdicts == {Pending, Failed} \cup [kind : {"ok", "neg"}, from : Clients]

RaceTypeOK ==
    /\ heard \in [Clients -> Kinds \cup {"silent"}]
    /\ expired \in BOOLEAN
    /\ verdict \in Verdicts

AllHeard      == \A c \in Clients : heard[c] # "silent"
NoneHeard(ks) == \A c \in Clients : heard[c] \notin ks

RaceInit ==
    /\ heard = [c \in Clients |-> "silent"]
    /\ expired = FALSE
    /\ verdict = IF Clients = {} THEN Failed ELSE Pending

Hear(c, k) ==
    /\ heard[c] = "silent"
    /\ heard' = [heard EXCEPT ![c] = k]
    /\ UNCHANGED <<expired, verdict>>

Expire ==
    /\ ~expired
    /\ expired' = TRUE
    /\ UNCHANGED <<heard, verdict>>

Decide(v) ==
    /\ verdict = Pending
    /\ verdict' = v
    /\ UNCHANGED <<heard, expired>>

\* A NOERROR response decides the race at once.
Succeed(c) == heard[c] = "ok" /\ Decide(Reply("ok", c))

\* Another response is only a fallback: nobody is left who could do better,
\* or there is no time left.
FallBack(c) ==
    /\ heard[c] = "neg"
    /\ expired \/ (AllHeard /\ NoneHeard({"ok"}))
    /\ Decide(Reply("neg", c))

\* An error: there was nothing to return, or time ran out.
GiveUp ==
    /\ expired \/ (AllHeard /\ NoneHeard({"ok", "neg"}))
    /\ Decide(Failed)

RaceNext ==
    \/ \E c \in Clients, k \in Kinds : Hear(c, k)
    \/ Expire
    \/ \E c \in Clients : Succeed(c) \/ FallBack(c)
    \/ GiveUp

RaceSpec == RaceInit /\ [][RaceNext]_raceVars
=============================================================================
