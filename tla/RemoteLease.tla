----------------------------- MODULE RemoteLease -----------------------------
(***************************************************************************)
(* Leases over HTTP: the client (pkg/jobdb/runtime/remote/runtime.go), the *)
(* server (server.go) and its lease tokens (lease_token.go, and leaseauth) *)
(* in front of the SQLite runtime.  What the server knows of a lease is    *)
(* its row; what a client knows is the last token it was given.  A token   *)
(* carries the expiry and the duration that its lease had when the token   *)
(* was minted, and it is believed without a look at the row when a chapter *)
(* is written.  So the question is how far the two can drift apart while   *)
(* requests are slow, answers are lost and the server is restarted.        *)
(*                                                                         *)
(* One job is modelled.  Time is a clock in ticks that all parties read;   *)
(* any time may pass between two steps of a request.  The chapters of a    *)
(* completion and what a poll chooses are the subject of JobLease.         *)
(*                                                                         *)
(* An operator marked "Slip" is not the code: it is a plausible mistake in *)
(* the definition that follows it, kept to show which property notices it. *)
(***************************************************************************)
EXTENDS Integers

CONSTANTS
  Client,       \* users of the remote runtime (bound)
  LeaseId,      \* lease identifiers, each given out once (bound)
  Request,      \* places for requests in flight (bound)
  NoLease,
  NoClient,
  Term,         \* the lease duration that clients ask for, in ticks
  Second,       \* ticks in a second, the unit of a token's duration
  Skew,         \* leaseTokenExpirySkew in ticks
  MaxTime,      \* last moment (bound)
  MaxChapters,  \* chapters of the job (bound)
  MaxRestarts   \* restarts of the server (bound)

ASSUME RemoteAssumption ==
  /\ NoLease \notin LeaseId /\ NoClient \notin Client
  /\ Term \in Nat \ {0} /\ Second \in Nat \ {0} /\ Skew \in Nat \ {0}
  /\ MaxTime \in Nat /\ MaxChapters \in Nat /\ MaxRestarts \in Nat

VARIABLES
  now,     \* the clock
  key,     \* which signing key the running server has made
  row,     \* the lease columns of the job's row, and whether it is archived
  size,    \* number of chapters of the story
  hand,    \* the lease and token that each client has
  req,     \* requests in flight
  used,    \* history: leases given out
  over,    \* history: leases given back by their holder, or cancelled
  setBack, \* history: leases whose expiry was once moved to an earlier time
  overtaken \* history: leases with a renewal whose answer did not come before
           \* the next renewal, or not at all

vars == <<now, key, row, size, hand, req, used, over, setBack, overtaken>>
history == <<used, over, setBack, overtaken>>

Time == 0 .. MaxTime
Key == 0 .. MaxRestarts
\* A renewal adds a duration to the present.
RoundUp(d) == ((d + Second - 1) \div Second) * Second
Moment == 0 .. MaxTime + RoundUp(Term)
Duration == 0 .. RoundUp(Term)

\* leaseTokenClaims; the tenant and the job are those of the one job, and the
\* worker that of the lease.
Token == [lease : LeaseId \cup {NoLease}, key : Key, exp : Moment,
          dur : Duration]
NoToken == [lease |-> NoLease, key |-> 0, exp |-> 0, dur |-> 0]

Op == {"none", "poll", "keepalive", "put", "finish"}
PC == {"idle", "sent", "checked", "commit", "mint", "answer"}

\* at: the new expiry of a renewal, or the time at which a completion or a
\* reschedule has begun.
RequestState ==
  [op : Op, pc : PC, client : Client \cup {NoClient}, token : Token,
   at : Moment, ord : 0 .. MaxChapters]
Unused == [op |-> "none", pc |-> "idle", client |-> NoClient,
           token |-> NoToken, at |-> 0, ord |-> 0]

Init ==
  /\ now = 0 /\ key = 0
  /\ row = [lease |-> NoLease, expires |-> 0, archived |-> FALSE]
  /\ size = 0
  /\ hand = [c \in Client |-> NoToken]
  /\ req = [q \in Request |-> Unused]
  /\ used = {} /\ over = {} /\ setBack = {} /\ overtaken = {}

-----------------------------------------------------------------------------
(* Tokens                                                                  *)

\* leaseTokenExpiresAt: a little before the lease.
TokenExpiry(expires) ==
  LET left == expires - now
      skew == IF left > 2 * Skew THEN Skew
              ELSE IF left \div 10 > 0 THEN left \div 10 ELSE 1
  IN  IF left > 0 THEN expires - skew ELSE now

\* Slip: a whole second is added to what remains.
TokenDurationPlusOne(expires, ttl) ==
  RoundUp(IF expires > now THEN expires - now ELSE ttl) + Second

\* Slip: what remains is rounded down, as a conversion does by itself.
TokenDurationRoundedDown(expires, ttl) ==
  ((IF expires > now THEN expires - now ELSE ttl) \div Second) * Second

\* LeaseDurationSeconds of mintForLeaseExpiry
TokenDuration(expires, ttl) ==
  RoundUp(IF expires > now THEN expires - now ELSE ttl)

\* validateAndParse; leaseauth.Authorize looks at the time once more.
Valid(t) == t.lease # NoLease /\ t.key = key /\ now < t.exp

-----------------------------------------------------------------------------
(* The client                                                              *)

\* A request is put on the wire with the token that the client has.
Send(q, c, op) ==
  /\ req[q].pc = "idle"
  /\ req' = [req EXCEPT ![q] =
       [op |-> op, pc |-> "sent", client |-> c, token |-> hand[c], at |-> 0,
        ord |-> IF op = "put" THEN size ELSE 0]]

Renewing(q, l) == req[q].op = "keepalive" /\ req[q].token.lease = l

\* KeepAlive of remoteExecutionLease: its lock guards the token, not the call,
\* so that a renewal may begin while an earlier one is still on its way.
KeepAlive(q, c) ==
  /\ hand[c].lease # NoLease
  /\ Send(q, c, "keepalive")
  /\ overtaken' = overtaken \cup
       {l \in {hand[c].lease} : \E p \in Request : Renewing(p, l)}
  /\ UNCHANGED <<now, key, row, size, hand, used, over, setBack>>

\* PutChapter, at the ordinal that is next for the client.
PutChapter(q, c) ==
  /\ hand[c].lease # NoLease
  /\ Send(q, c, "put")
  /\ UNCHANGED <<now, key, row, size, hand, history>>

\* Complete, Reschedule
FinishLease(q, c) ==
  /\ hand[c].lease # NoLease
  /\ Send(q, c, "finish")
  /\ UNCHANGED <<now, key, row, size, hand, history>>

\* executionLeaseFromAPI, or the end of KeepAlive: the token is kept.
ReceiveToken(q) ==
  LET r == req[q] IN
  /\ r.pc = "answer"
  /\ hand' = [hand EXCEPT ![r.client] =
       IF r.op = "poll" \/ @.lease = r.token.lease THEN r.token ELSE @]
  /\ req' = [req EXCEPT ![q] = Unused]
  /\ UNCHANGED <<now, key, row, size, history>>

\* The answer is lost on its way, or its client has stopped to wait for it.
LoseAnswer(q) ==
  /\ req[q].pc = "answer"
  /\ overtaken' = overtaken \cup {l \in LeaseId : Renewing(q, l)}
  /\ req' = [req EXCEPT ![q] = Unused]
  /\ UNCHANGED <<now, key, row, size, hand, used, over, setBack>>

-----------------------------------------------------------------------------
(* The server                                                              *)

\* The request ends, with an error or an answer that carries no token.
Done(q) == req' = [req EXCEPT ![q] = Unused]

\* A request that the server refuses.
Refuse(q) == Done(q) /\ UNCHANGED <<row, size, history>>

Live(l, t) == ~row.archived /\ row.lease = l /\ row.expires > t

\* pollWorkOnce, GetJobLease, and the poll of the runtime behind the server: the
\* row is free, or its lease has expired.  What brings the request to the server
\* carries no state.
GrantLease(q, c) ==
  /\ req[q].pc = "idle"
  /\ ~row.archived
  /\ row.lease = NoLease \/ row.expires <= now
  /\ \E l \in LeaseId \ used :
       /\ row' = [row EXCEPT !.lease = l, !.expires = now + Term]
       /\ used' = used \cup {l}
       /\ req' = [req EXCEPT ![q] =
            [Unused EXCEPT !.op = "poll", !.pc = "mint", !.client = c,
                           !.at = now + Term,
                           !.token = [NoToken EXCEPT !.lease = l,
                                                     !.dur = RoundUp(Term)]]]
  /\ UNCHANGED <<now, key, size, hand, over, setBack, overtaken>>

\* validatedLeaseClaims
CheckToken(q) ==
  LET r == req[q] IN
  /\ r.pc = "sent"
  /\ IF Valid(r.token)
     THEN /\ req' = [req EXCEPT ![q].pc = "checked"]
          /\ UNCHANGED <<row, size, history>>
     ELSE Refuse(q)
  /\ UNCHANGED <<now, key, hand>>

\* Slip: a renewal adds to what the lease has.
ReadClockAddsToLease(q) ==
  LET r == req[q] IN
  /\ r.op \in {"keepalive", "finish"} /\ r.pc = "checked"
  /\ req' = [req EXCEPT ![q] =
       [@ EXCEPT !.pc = "commit",
                 !.at = IF r.op = "keepalive" THEN row.expires + r.token.dur
                                              ELSE now]]
  /\ UNCHANGED <<now, key, row, size, hand, history>>

\* KeepAliveLeaseByIDWithExpiry reads the clock before its transaction, and so
\* do CompleteJobWithLeaseByID and RescheduleJobWithLeaseByID.
ReadClock(q) ==
  LET r == req[q] IN
  /\ r.op \in {"keepalive", "finish"} /\ r.pc = "checked"
  /\ req' = [req EXCEPT ![q] =
       [@ EXCEPT !.pc = "commit",
                 !.at = IF r.op = "keepalive" THEN now + r.token.dur ELSE now]]
  /\ UNCHANGED <<now, key, row, size, hand, history>>

\* Slip: the row is updated without a look at it.
ExtendLeaseBlindly(q) ==
  LET r == req[q]
      l == r.token.lease IN
  /\ r.op = "keepalive" /\ r.pc = "commit"
  /\ IF ~row.archived
     THEN /\ row' = [row EXCEPT !.lease = l, !.expires = r.at]
          /\ setBack' = setBack \cup {m \in {l} : row.lease = l /\ r.at < row.expires}
          /\ req' = [req EXCEPT ![q].pc = "mint"]
          /\ UNCHANGED <<size, used, over, overtaken>>
     ELSE Refuse(q)
  /\ UNCHANGED <<now, key, hand>>

\* The transaction of a renewal.
ExtendLease(q) ==
  LET r == req[q]
      l == r.token.lease IN
  /\ r.op = "keepalive" /\ r.pc = "commit"
  /\ IF Live(l, now)
     THEN /\ row' = [row EXCEPT !.expires = r.at]
          /\ setBack' = setBack \cup {m \in {l} : r.at < row.expires}
          /\ req' = [req EXCEPT ![q].pc = "mint"]
          /\ UNCHANGED <<size, used, over, overtaken>>
     ELSE Refuse(q)
  /\ UNCHANGED <<now, key, hand>>

\* mintForLeaseExpiry: a token for the lease, as its expiry was set.
MintToken(q) ==
  LET r == req[q] IN
  /\ r.pc = "mint"
  /\ req' = [req EXCEPT ![q] =
       [@ EXCEPT !.pc = "answer", !.at = 0,
                 !.token = [lease |-> r.token.lease, key |-> key,
                            exp |-> TokenExpiry(r.at),
                            dur |-> TokenDuration(r.at, r.token.dur)]]]
  /\ UNCHANGED <<now, key, row, size, hand, history>>

\* The transaction of a completion or of a reschedule.
ReleaseLease(q) ==
  LET r == req[q] IN
  /\ r.op = "finish" /\ r.pc = "commit"
  /\ IF Live(r.token.lease, r.at)
     THEN /\ \E done \in BOOLEAN :
               row' = [lease |-> NoLease, expires |-> 0, archived |-> done]
          /\ over' = over \cup {r.token.lease}
          /\ Done(q)
          /\ UNCHANGED <<size, used, setBack, overtaken>>
     ELSE Refuse(q)
  /\ UNCHANGED <<now, key, hand>>

\* PutChapter of the runtime: the claims of the token stand for the lease.  They
\* are authorized once more after CheckToken, and any time may pass before the
\* chapter is saved.
AppendChapter(q) ==
  LET r == req[q] IN
  /\ r.op = "put" /\ r.pc = "checked"
  /\ size < MaxChapters
  /\ IF r.ord = size
     THEN /\ size' = size + 1
          /\ Done(q)
          /\ UNCHANGED <<row, history>>
     ELSE Refuse(q)
  /\ UNCHANGED <<now, key, hand>>

CancelJob ==
  /\ ~row.archived
  /\ row' = [lease |-> NoLease, expires |-> 0, archived |-> TRUE]
  /\ over' = over \cup ({row.lease} \ {NoLease})
  /\ UNCHANGED <<now, key, size, hand, req, used, setBack, overtaken>>

\* NewServer makes a new signing key; requests in flight get no answer.
RestartServer ==
  /\ key < MaxRestarts
  /\ key' = key + 1
  /\ req' = [q \in Request |-> Unused]
  /\ UNCHANGED <<now, row, size, hand, history>>

Tick ==
  /\ now < MaxTime
  /\ now' = now + 1
  /\ UNCHANGED <<key, row, size, hand, req, history>>

Next ==
  \/ \E q \in Request :
       \/ \E c \in Client :
            GrantLease(q, c) \/ KeepAlive(q, c) \/ PutChapter(q, c)
              \/ FinishLease(q, c)
       \/ ReceiveToken(q)
       \/ LoseAnswer(q)
       \/ CheckToken(q)
       \/ ReadClock(q)
       \/ ExtendLease(q)
       \/ MintToken(q)
       \/ ReleaseLease(q)
       \/ AppendChapter(q)
  \/ CancelJob
  \/ RestartServer
  \/ Tick

Spec == Init /\ [][Next]_vars

-----------------------------------------------------------------------------
(* Properties                                                              *)

\* Every variable keeps its shape (leaseTokenClaims, remoteExecutionLease).
TypeOK ==
  /\ now \in Time /\ key \in Key
  /\ row \in [lease : LeaseId \cup {NoLease}, expires : Moment,
              archived : BOOLEAN]
  /\ size \in 0 .. MaxChapters
  /\ hand \in [Client -> Token]
  /\ DOMAIN req = Request /\ \A q \in Request : req[q] \in RequestState
  /\ used \subseteq LeaseId /\ over \subseteq used
  /\ setBack \subseteq used /\ overtaken \subseteq used

\* Tokens that a client has, or that are on their way to one.
Minted == {hand[c] : c \in Client}
            \cup {req[q].token : q \in {p \in Request : req[p].pc = "answer"}}

\* A token that the server accepts stands for a lease that is in the row for at
\* least as long, however late the token was minted or received, with two
\* exceptions: the lease was given back or cancelled before its time, or a
\* renewal has moved its expiry to an earlier time.  (Chapters are written on
\* the word of the token: leaseauth.Authorize.)
TokenBacked ==
  \A t \in Minted : Valid(t) =>
    \/ Live(t.lease, now) /\ t.exp <= row.expires
    \/ t.lease \in over \cup setBack

\* A renewal can only move the expiry of a lease to an earlier time when the
\* answer of an earlier renewal was lost or overtaken: a client that has all its
\* answers before it asks again never loses time by a renewal, however slow the
\* calls are (KeepAliveLeaseByIDWithExpiry computes the expiry from the duration
\* in the token, which was computed from an earlier clock and rounded).
SetBackNeedsOvertaking == setBack \subseteq overtaken

\* Rounding does not creep: however often a lease is renewed, with whatever
\* delays, its job is free at most one rounded term after its holder has gone.
LeaseBounded ==
  /\ row.expires <= now + RoundUp(Term)
  /\ \A t \in Minted : t.dur <= RoundUp(Term)
=============================================================================
