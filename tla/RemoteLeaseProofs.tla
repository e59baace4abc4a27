-------------------------- MODULE RemoteLeaseProofs --------------------------
(***************************************************************************)
(* Proofs about RemoteLease, for any number of clients, requests, leases   *)
(* and restarts, any term, second and skew.  They rest on what a token and *)
(* a request in flight say of the row (TokenSound, RequestSound).          *)
(***************************************************************************)
EXTENDS RemoteLease, TLAPS

-----------------------------------------------------------------------------
(* The inductive invariant                                                 *)

\* The row has the lease until e at least, unless it was given back, cancelled
\* or set back, or e has come.
Backed(l, e) ==
  \/ l \in over \cup setBack
  \/ row.lease = l /\ e <= row.expires
  \/ e <= now

TokenSound(t) ==
  t.lease # NoLease =>
    t.lease \in used /\ t.key <= key /\ Backed(t.lease, t.exp)

\* A request is made with a token; a renewal that has read the clock, and a lease
\* that has no token yet, end within one rounded term.
RequestSound(r) ==
  /\ r.pc = "idle" => r = Unused
  /\ r.pc # "idle" =>
       /\ r.op # "none"
       /\ r.client \in Client
       /\ r.token.lease \in used
       /\ TokenSound(r.token)
       /\ r.op = "poll" => r.pc \in {"mint", "answer"}
       /\ r.pc = "checked" => r.token.key = key
       /\ r.pc = "commit" /\ r.op = "keepalive" => r.at <= now + RoundUp(Term)
       /\ r.pc = "mint" => r.at <= now + RoundUp(Term) /\ Backed(r.token.lease, r.at)
       /\ r.pc \in {"mint", "answer"} => r.op \in {"poll", "keepalive"}

RowSound ==
  /\ row.lease \in used \cup {NoLease}
  /\ row.archived => row.lease = NoLease
  /\ row.expires <= now + RoundUp(Term)

\* A lease is with one client, which is the one that renews it, or on its way to
\* its client.
HeldOnce ==
  /\ \A c, d \in Client :
       hand[c].lease = hand[d].lease /\ hand[c].lease # NoLease => c = d
  /\ \A q \in Request : req[q].op = "poll" =>
       /\ \A c \in Client : hand[c].lease # req[q].token.lease
       /\ \A p \in Request \ {q} :
            req[p].op \in {"poll", "keepalive"} =>
              req[p].token.lease # req[q].token.lease
  /\ \A q \in Request : req[q].op = "keepalive" =>
       \A c \in Client : hand[c].lease = req[q].token.lease => c = req[q].client

\* As long as no renewal of a lease was overtaken, it has one renewal in flight at
\* most, made with the token that its client has.
OneRenewal ==
  \A q \in Request : req[q].op = "keepalive" /\ req[q].token.lease \notin overtaken =>
    /\ \A p \in Request : Renewing(p, req[q].token.lease) => p = q
    /\ \A c \in Client :
         hand[c].lease = req[q].token.lease /\ req[q].pc # "answer" =>
           hand[c] = req[q].token

\* A renewal that begins now reaches the expiry in the row.
Reaches(t) == now + t.dur >= row.expires

\* What such a lease is renewed with reaches the expiry in the row, unless the
\* server has been restarted.
InTime ==
  /\ \A q \in Request :
       LET r == req[q] IN
       /\ r.op \in {"keepalive", "poll"}
       /\ r.token.lease = row.lease /\ row.lease \notin overtaken
       => /\ r.pc \in {"sent", "checked"} /\ r.token.key = key => Reaches(r.token)
          /\ r.pc \in {"commit", "mint"} => r.at >= row.expires
          /\ r.pc = "answer" => Reaches(r.token)
  /\ \A c \in Client :
       /\ hand[c].lease = row.lease /\ row.lease # NoLease
       /\ row.lease \notin overtaken /\ hand[c].key = key
       /\ \A q \in Request : ~Renewing(q, row.lease)
       => Reaches(hand[c])

IInv ==
  /\ TypeOK
  /\ RowSound
  /\ \A c \in Client : TokenSound(hand[c])
  /\ \A q \in Request : RequestSound(req[q])
  /\ HeldOnce
  /\ OneRenewal
  /\ InTime
  /\ SetBackNeedsOvertaking

-----------------------------------------------------------------------------
(* Arithmetic                                                              *)

\* Division by a second, as the tokens do it
LEMMA Division ==
  ASSUME NEW n \in Nat
  PROVE  /\ n \div Second \in Nat
         /\ (n \div Second) * Second <= n
         /\ n < (n \div Second) * Second + Second
  BY RemoteAssumption

\* A duration is rounded up to whole seconds, and one that has been rounded is not
\* exceeded by rounding again what is left of it.
LEMMA RoundUpBounds ==
  ASSUME NEW d \in Nat
  PROVE  /\ RoundUp(d) \in Nat
         /\ d <= RoundUp(d)
         /\ \A e \in Nat : e <= RoundUp(d) => RoundUp(e) <= RoundUp(d)
<1> DEFINE k == (d + Second - 1) \div Second
<1>1. d + Second - 1 \in Nat
  BY RemoteAssumption
<1>2. k \in Nat /\ k * Second <= d + Second - 1 /\ d + Second - 1 < k * Second + Second
  BY <1>1, Division
<1>3. RoundUp(d) = k * Second
  BY DEF RoundUp
<1>4. k * Second \in Nat
  BY <1>2, RemoteAssumption
<1>5. ASSUME NEW e \in Nat, e <= k * Second
      PROVE  RoundUp(e) <= k * Second
  <2> DEFINE m == (e + Second - 1) \div Second
  <2>1. e + Second - 1 \in Nat
    BY RemoteAssumption
  <2>2. m \in Nat /\ m * Second <= e + Second - 1
    BY <2>1, Division
  <2>3. m * Second \in Nat /\ m * Second <= k * Second + Second - 1
    BY <2>2, <1>4, <1>5, RemoteAssumption
  <2>4. ASSUME m > k PROVE FALSE
    <3>1. m * Second >= (k + 1) * Second
      BY <2>4, <2>2, <1>2, RemoteAssumption
    <3>2. (k + 1) * Second = k * Second + Second
      BY <1>2, RemoteAssumption
    <3> QED
      BY <3>1, <3>2, <2>3, <1>4, RemoteAssumption
  <2>5. m <= k
    BY <2>4, <2>2, <1>2
  <2>6. m * Second <= k * Second
    BY <2>5, <2>2, <1>2, RemoteAssumption
  <2>7. QED
    BY <2>6 DEF RoundUp
<1>6. QED
  BY <1>1, <1>2, <1>3, <1>4, <1>5, RemoteAssumption

LEMMA TermBounds ==
  /\ RoundUp(Term) \in Nat /\ Term <= RoundUp(Term)
  /\ \A e \in Nat : e <= RoundUp(Term) => RoundUp(e) \in 0 .. RoundUp(Term)
<1>1. Term \in Nat
  BY RemoteAssumption
<1>2. \A e \in Nat : RoundUp(e) \in Nat
  BY RoundUpBounds
<1> QED
  BY <1>1, <1>2, RoundUpBounds

\* A token ends before its lease, or at once.
LEMMA TokenExpiryBounds ==
  ASSUME NEW e \in Nat, now \in Nat
  PROVE  /\ TokenExpiry(e) \in Nat
         /\ TokenExpiry(e) <= e \/ TokenExpiry(e) <= now
         /\ e > now => TokenExpiry(e) <= e
         /\ e <= now => TokenExpiry(e) = now
<1> DEFINE left == e - now
           skew == IF left > 2 * Skew THEN Skew
                   ELSE IF left \div 10 > 0 THEN left \div 10 ELSE 1
<1>1. CASE e > now
  <2>1. left \in Nat /\ left > 0
    BY <1>1
  <2>2. skew \in Nat /\ skew <= left
    BY <2>1, RemoteAssumption
  <2>3. TokenExpiry(e) = e - skew
    BY <2>1 DEF TokenExpiry
  <2> HIDE DEF skew, left
  <2>4. left <= e
    BY <1>1 DEF left
  <2> QED
    BY <2>1, <2>2, <2>3, <2>4, <1>1
<1>2. CASE e <= now
  BY <1>2 DEF TokenExpiry
<1> QED
  BY <1>1, <1>2

\* The duration in a new token is at most one rounded term.
LEMMA TokenDurationBounds ==
  ASSUME NEW e \in Nat, NEW d \in 0 .. RoundUp(Term),
         now \in Nat, e <= now + RoundUp(Term)
  PROVE  TokenDuration(e, d) \in 0 .. RoundUp(Term)
<1>1. CASE e > now
  <2>1. e - now \in Nat /\ e - now <= RoundUp(Term)
    BY <1>1, TermBounds
  <2> QED
    BY <1>1, <2>1, TermBounds DEF TokenDuration
<1>2. CASE ~(e > now)
  BY <1>2, TermBounds DEF TokenDuration
<1> QED
  BY <1>1, <1>2

-----------------------------------------------------------------------------
(* What holds of tokens and requests stays so                              *)

\* Leases in use stay in use, and what backs a token keeps doing so.
Later ==
  /\ used \subseteq used' /\ key <= key'
  /\ \A l \in LeaseId, e \in Moment : Backed(l, e) => Backed(l, e)'

LEMMA Types ==
  ASSUME TypeOK
  PROVE  /\ now \in Nat /\ key \in Nat /\ row.expires \in Nat
         /\ Moment \subseteq Nat /\ Duration = 0 .. RoundUp(Term)
         /\ now \in Moment /\ 0 \in Moment
         /\ \A c \in Client : hand[c] \in Token
         /\ \A q \in Request : req[q] \in RequestState
         /\ \A t \in Token : /\ t.lease \in LeaseId \cup {NoLease}
                             /\ t.key \in Key /\ t.exp \in Moment
                             /\ t.dur \in Duration
         /\ NoToken \in Token /\ Unused \in RequestState
  BY TermBounds, RemoteAssumption
  DEF TypeOK, Time, Key, Moment, Duration, Token, NoToken, RequestState, Unused,
      Op, PC

LEMMA TokenStays ==
  ASSUME TypeOK, Later, key' \in Nat, NEW t \in Token, TokenSound(t)
  PROVE  TokenSound(t)'
  BY Types DEF TokenSound, Later, Key

LEMMA RequestStays ==
  ASSUME TypeOK, Later, key' = key, now' \in Nat, now <= now',
         NEW r \in RequestState, RequestSound(r)
  PROVE  RequestSound(r)'
<1>1. r.token \in Token /\ r.at \in Moment
  BY DEF RequestState
<1>2. TokenSound(r.token) => TokenSound(r.token)'
  BY <1>1, Types, TokenStays
<1>3. r.token.lease \in used => r.token.lease \in LeaseId /\ r.token.lease \in used'
  BY DEF TypeOK, Later
<1>4. r.token.lease \in used /\ Backed(r.token.lease, r.at)
        => Backed(r.token.lease, r.at)'
  BY <1>1, <1>3 DEF Later
<1>5. r.at <= now + RoundUp(Term) => r.at <= now' + RoundUp(Term)
  BY <1>1, Types, TermBounds
<1> QED
  BY <1>2, <1>3, <1>4, <1>5 DEF RequestSound

\* Nothing that is backed depends on what a step leaves alone.
LEMMA LaterIfSame ==
  ASSUME TypeOK, UNCHANGED <<row, used, over, setBack, key>>,
         now' \in Nat, now <= now'
  PROVE  Later
  BY Types DEF Later, Backed

\* The conditions on a request that goes on with the renewal, or ends it.
GoesOn(q, r) ==
  /\ r.op \in {"keepalive", "poll"} =>
       /\ r.op = req[q].op /\ r.client = req[q].client
       /\ r.token.lease = req[q].token.lease
  /\ r.op = "keepalive" =>
       r.pc = "answer" \/ (r.token = req[q].token /\ req[q].pc # "answer")
  /\ /\ r.op \in {"keepalive", "poll"}
     /\ r.token.lease = row.lease /\ row.lease \notin overtaken'
     => /\ r.pc \in {"sent", "checked"} /\ r.token.key = key => Reaches(r.token)
        /\ r.pc \in {"commit", "mint"} => r.at >= row.expires
        /\ r.pc = "answer" => Reaches(r.token)
  /\ Renewing(q, row.lease) /\ r.op # "keepalive" /\ row.lease \notin overtaken' =>
       \A c \in Client : hand[c].lease = row.lease /\ hand[c].key = key
                           => Reaches(hand[c])

\* Steps that change nothing but one request.
LEMMA MoveKeeps ==
  ASSUME IInv, NEW q \in Request, NEW r \in RequestState,
         req' = [req EXCEPT ![q] = r],
         UNCHANGED <<now, key, row, hand, used, over, setBack>>,
         size' \in 0 .. MaxChapters,
         overtaken \subseteq overtaken', overtaken' \subseteq used,
         RequestSound(r), GoesOn(q, r)
  PROVE  IInv'
<1>1. TypeOK /\ TypeOK'
  BY DEF IInv, TypeOK, Time, Moment
<1>2. /\ req'[q] = r /\ DOMAIN req = Request
      /\ \A p \in Request \ {q} : req'[p] = req[p]
  BY <1>1 DEF TypeOK
<1>3. RowSound'
  BY DEF IInv, RowSound
<1>4. Later
  BY <1>1, Types, LaterIfSame
<1>5. \A c \in Client : TokenSound(hand[c])'
  BY DEF IInv, TokenSound, Backed
<1>6. \A p \in Request : RequestSound(req[p])'
  BY <1>2 DEF IInv, RequestSound, TokenSound, Backed
<1>7. HeldOnce'
  BY <1>2 DEF IInv, HeldOnce, GoesOn
<1>8. OneRenewal'
  BY <1>2 DEF IInv, OneRenewal, GoesOn, Renewing
<1>9. InTime'
  <2>1. \A p \in Request : Renewing(p, row.lease) /\ p # q => Renewing(p, row.lease)'
    BY <1>2 DEF Renewing
  <2>2. Renewing(q, row.lease) /\ r.op = "keepalive" => Renewing(q, row.lease)'
    BY <1>2 DEF Renewing, GoesOn
  <2> QED
    BY <2>1, <2>2, <1>2 DEF IInv, InTime, GoesOn, Reaches
<1>10. SetBackNeedsOvertaking'
  BY DEF IInv, SetBackNeedsOvertaking
<1> QED
  BY <1>1, <1>3, <1>5, <1>6, <1>7, <1>8, <1>9, <1>10 DEF IInv

\* An unused place for a request is fine.
LEMMA UnusedSound == RequestSound(Unused)
  BY DEF RequestSound, Unused

\* Steps that end a request which holds no renewal up.
LEMMA EndKeeps ==
  ASSUME IInv, NEW q \in Request, req[q].pc # "idle",
         Done(q), UNCHANGED <<now, key, row, hand, used, over, setBack>>,
         size' \in 0 .. MaxChapters,
         overtaken \subseteq overtaken', overtaken' \subseteq used,
         Renewing(q, row.lease) /\ row.lease \notin overtaken' =>
           \A c \in Client : hand[c].lease = row.lease /\ hand[c].key = key
                               => Reaches(hand[c])
  PROVE  IInv'
<1>1. TypeOK
  BY DEF IInv
<1>2. GoesOn(q, Unused)
  BY DEF GoesOn, Unused
<1> QED
  BY <1>1, <1>2, Types, UnusedSound, MoveKeeps DEF Done

-----------------------------------------------------------------------------
(* The client                                                              *)

LEMMA SendState ==
  ASSUME IInv, NEW q \in Request, NEW c \in Client, hand[c].lease # NoLease,
         NEW op \in {"keepalive", "put", "finish"}, Send(q, c, op)
  PROVE  \E r \in RequestState :
           /\ r.op = op /\ r.pc = "sent" /\ r.client = c /\ r.token = hand[c]
           /\ req' = [req EXCEPT ![q] = r]
           /\ RequestSound(r)
           /\ req[q] = Unused
<1> DEFINE r == [op |-> op, pc |-> "sent", client |-> c, token |-> hand[c],
                 at |-> 0, ord |-> IF op = "put" THEN size ELSE 0]
<1>1. TypeOK
  BY DEF IInv
<1>2. r \in RequestState
  BY <1>1, Types, RemoteAssumption DEF TypeOK, RequestState, Op, PC
<1>3. RequestSound(r)
  BY DEF IInv, RequestSound, TokenSound
<1>4. req[q] = Unused
  BY DEF Send, IInv, RequestSound
<1> QED
  BY <1>2, <1>3, <1>4 DEF Send

LEMMA SendKeeps ==
  ASSUME IInv, NEW q \in Request, NEW c \in Client,
         PutChapter(q, c) \/ FinishLease(q, c)
  PROVE  IInv'
<1>1. PICK op \in {"put", "finish"} : hand[c].lease # NoLease /\ Send(q, c, op)
  BY DEF PutChapter, FinishLease
<1>2. PICK r \in RequestState :
        /\ r.op = op /\ req' = [req EXCEPT ![q] = r]
        /\ RequestSound(r) /\ req[q] = Unused
  BY <1>1, SendState
<1>3. GoesOn(q, r)
  BY <1>2 DEF GoesOn, Renewing, Unused
<1>4. UNCHANGED <<now, key, row, size, hand, history>>
  BY DEF PutChapter, FinishLease
<1> QED
  BY <1>2, <1>3, <1>4, MoveKeeps DEF history, IInv, TypeOK

LEMMA KeepAliveKeeps ==
  ASSUME IInv, NEW q \in Request, NEW c \in Client, KeepAlive(q, c)
  PROVE  IInv'
<1> DEFINE l == hand[c].lease
<1>1. TypeOK /\ l # NoLease /\ Send(q, c, "keepalive")
  BY DEF IInv, KeepAlive
<1>2. PICK r \in RequestState :
        /\ r.op = "keepalive" /\ r.pc = "sent" /\ r.client = c
        /\ r.token = hand[c]
        /\ req' = [req EXCEPT ![q] = r]
        /\ RequestSound(r) /\ req[q] = Unused
  BY <1>1, SendState
<1>3. /\ UNCHANGED <<now, key, row, size, hand, used, over, setBack>>
      /\ overtaken' = overtaken \cup {m \in {l} : \E p \in Request : Renewing(p, m)}
  BY DEF KeepAlive
<1>4. l \in used
  BY <1>1 DEF IInv, TokenSound
<1>5. overtaken \subseteq overtaken' /\ overtaken' \subseteq used
  BY <1>1, <1>3, <1>4 DEF TypeOK
<1>6. TypeOK'
  BY <1>1, <1>2, <1>3, <1>5 DEF TypeOK
<1>7. /\ req'[q] = r /\ DOMAIN req = Request
      /\ \A p \in Request \ {q} : req'[p] = req[p]
      /\ req[q].op = "none"
  BY <1>1, <1>2 DEF TypeOK, Unused
<1>8. RowSound' /\ \A d \in Client : TokenSound(hand[d])'
  BY <1>3 DEF IInv, RowSound, TokenSound, Backed
<1>9. \A p \in Request : RequestSound(req[p])'
  BY <1>2, <1>3, <1>7 DEF IInv, RequestSound, TokenSound, Backed
<1>10. HeldOnce'
  BY <1>1, <1>2, <1>3, <1>7 DEF IInv, HeldOnce
<1>11. l \notin overtaken' => \A p \in Request : ~Renewing(p, l)
  BY <1>3
<1>12. \A p \in Request \ {q} : \A m : Renewing(p, m)' <=> Renewing(p, m)
  BY <1>7 DEF Renewing
<1>13. \A m : Renewing(q, m)' <=> m = l
  BY <1>2, <1>7 DEF Renewing
<1>14. \A m : ~Renewing(q, m)
  BY <1>7 DEF Renewing
<1>15. OneRenewal'
  <2> SUFFICES ASSUME NEW p \in Request, req'[p].op = "keepalive",
                      req'[p].token.lease \notin overtaken'
               PROVE  /\ \A s \in Request : Renewing(s, req[p].token.lease)' => s = p
                      /\ \A d \in Client :
                           hand'[d].lease = req'[p].token.lease /\ req'[p].pc # "answer"
                             => hand'[d] = req'[p].token
    BY DEF OneRenewal, Renewing
  <2>1. CASE p = q
    <3>1. req'[p].token = hand[c]
      BY <2>1, <1>2, <1>7
    <3>2. \A s \in Request : Renewing(s, l)' => s = q
      BY <1>3, <1>11, <1>12, <2>1, <3>1
    <3> QED
      BY <2>1, <3>1, <3>2, <1>1, <1>3 DEF IInv, HeldOnce, Renewing
  <2>2. CASE p # q
    <3>1. req'[p] = req[p] /\ Renewing(p, req[p].token.lease)
      BY <2>2, <1>7 DEF Renewing
    <3>2. req[p].token.lease # l
      BY <3>1, <1>11
    <3>3. \A s \in Request : Renewing(s, req[p].token.lease)' => s = p
      BY <3>1, <3>2, <1>5, <1>12, <1>13 DEF IInv, OneRenewal, Renewing
    <3> QED
      BY <3>1, <3>3, <1>3, <1>5 DEF IInv, OneRenewal, Renewing
  <2> QED
    BY <2>1, <2>2
<1>16. InTime'
  <2>1. ASSUME l = row.lease, l \notin overtaken', hand[c].key = key
        PROVE  Reaches(hand[c])
    BY <2>1, <1>1, <1>5, <1>11 DEF IInv, InTime
  <2>2. \A m : (\A p \in Request : ~Renewing(p, m)') => \A p \in Request : ~Renewing(p, m)
    BY <1>12, <1>14
  <2>3. ASSUME NEW p \in Request,
               req'[p].op \in {"keepalive", "poll"},
               req'[p].token.lease = row.lease, row.lease \notin overtaken'
        PROVE  /\ req'[p].pc \in {"sent", "checked"} /\ req'[p].token.key = key
                    => Reaches(req'[p].token)
               /\ req'[p].pc \in {"commit", "mint"} => req'[p].at >= row.expires
               /\ req'[p].pc = "answer" => Reaches(req'[p].token)
    BY <2>1, <2>3, <1>2, <1>5, <1>7 DEF IInv, InTime
  <2>4. ASSUME NEW d \in Client,
               hand[d].lease = row.lease, row.lease # NoLease,
               row.lease \notin overtaken', hand[d].key = key,
               \A p \in Request : ~Renewing(p, row.lease)'
        PROVE  Reaches(hand[d])
    BY <2>2, <2>4, <1>3, <1>5 DEF IInv, InTime
  <2> QED
    BY <2>3, <2>4, <1>3 DEF InTime, Reaches
<1>17. SetBackNeedsOvertaking'
  BY <1>3, <1>5 DEF IInv, SetBackNeedsOvertaking
<1> QED
  BY <1>6, <1>8, <1>9, <1>10, <1>15, <1>16, <1>17 DEF IInv

LEMMA ReceiveKeeps ==
  ASSUME IInv, NEW q \in Request, ReceiveToken(q)
  PROVE  IInv'
<1> DEFINE r == req[q]
           d == r.client
           l == r.token.lease
           takes == r.op = "poll" \/ hand[d].lease = l
<1>1. TypeOK /\ r.pc = "answer" /\ RequestSound(r) /\ r \in RequestState
  BY Types DEF IInv, ReceiveToken
<1>2. /\ d \in Client /\ l \in used /\ l \in LeaseId /\ l # NoLease
      /\ TokenSound(r.token) /\ r.op \in {"poll", "keepalive"}
      /\ r.token \in Token
  BY <1>1, RemoteAssumption DEF RequestSound, TypeOK, RequestState
<1>3. /\ UNCHANGED <<now, key, row, size, used, over, setBack, overtaken>>
      /\ req' = [req EXCEPT ![q] = Unused]
  BY DEF ReceiveToken, history
<1>4. /\ req'[q] = Unused /\ DOMAIN req = Request
      /\ \A p \in Request \ {q} : req'[p] = req[p]
  BY <1>1, <1>3 DEF TypeOK
<1>5. /\ hand'[d] = IF takes THEN r.token ELSE hand[d]
      /\ \A c \in Client \ {d} : hand'[c] = hand[c]
      /\ hand' \in [Client -> Token]
  BY <1>1, <1>2 DEF ReceiveToken, TypeOK
<1> HIDE DEF takes
<1>6. TypeOK'
  BY <1>1, <1>3, <1>4, <1>5, Types DEF TypeOK
<1>7. RowSound' /\ \A c \in Client : TokenSound(hand[c])'
  BY <1>2, <1>3, <1>5 DEF IInv, RowSound, TokenSound, Backed
<1>8. \A p \in Request : RequestSound(req[p])'
  BY <1>3, <1>4 DEF IInv, RequestSound, TokenSound, Backed, Unused
<1>9. HeldOnce'
  <2>1. CASE r.op = "poll"
    <3>1. hand'[d] = r.token
      BY <2>1, <1>5 DEF takes
    <3>2. \A c \in Client : hand[c].lease # l
      BY <2>1 DEF IInv, HeldOnce
    <3>3. \A p \in Request \ {q} :
            req[p].op \in {"poll", "keepalive"} => req[p].token.lease # l
      BY <2>1 DEF IInv, HeldOnce
    <3> QED
      BY <3>1, <3>2, <3>3, <1>4, <1>5 DEF IInv, HeldOnce, Unused
  <2>2. CASE r.op # "poll"
    <3>1. \A c \in Client : hand'[c].lease = hand[c].lease
      BY <2>2, <1>5 DEF takes
    <3> QED
      BY <3>1, <1>4 DEF IInv, HeldOnce, Unused
  <2> QED
    BY <2>1, <2>2
<1>10. \A p \in Request \ {q} : req[p].op = "keepalive" /\ req[p].token.lease \notin overtaken
         => req[p].token.lease # l
  BY <1>2 DEF IInv, HeldOnce, OneRenewal, Renewing
<1>11. \A c \in Client : hand'[c] = hand[c] \/ hand'[c].lease = l
  BY <1>5
<1>12. OneRenewal'
  BY <1>3, <1>4, <1>10, <1>11 DEF IInv, OneRenewal, Renewing, Unused
<1>13. InTime'
  <2>1. ASSUME NEW c \in Client,
               hand'[c].lease = row.lease, row.lease # NoLease,
               row.lease \notin overtaken, hand'[c].key = key,
               \A p \in Request : ~(req'[p].op = "keepalive" /\ req'[p].token.lease = row.lease)
        PROVE  Reaches(hand'[c])
    <3>1. CASE row.lease = l
      <4>1. Reaches(r.token)
        BY <3>1, <2>1, <1>1, <1>2 DEF IInv, InTime
      <4>2. CASE c = d /\ takes
        BY <4>1, <4>2, <1>5
      <4>3. CASE ~(c = d /\ takes)
        <5>1. hand'[c] = hand[c] /\ hand[c].lease = l
          BY <4>3, <1>5, <2>1, <3>1
        <5>2. r.op = "keepalive"
          BY <5>1, <1>2 DEF IInv, HeldOnce
        <5>3. d # c
          BY <4>3, <5>1 DEF takes
        <5> QED
          BY <5>1, <5>2, <5>3 DEF IInv, HeldOnce
      <4> QED
        BY <4>2, <4>3
    <3>2. CASE row.lease # l
      BY <3>2, <2>1, <1>4, <1>11 DEF IInv, InTime, Renewing
    <3> QED
      BY <3>1, <3>2
  <2> QED
    BY <2>1, <1>3, <1>4 DEF IInv, InTime, Reaches, Renewing, Unused
<1>14. SetBackNeedsOvertaking'
  BY <1>3 DEF IInv, SetBackNeedsOvertaking
<1> QED
  BY <1>6, <1>7, <1>8, <1>9, <1>12, <1>13, <1>14 DEF IInv

LEMMA LoseKeeps ==
  ASSUME IInv, NEW q \in Request, LoseAnswer(q)
  PROVE  IInv'
<1>1. TypeOK /\ RequestSound(req[q]) /\ req[q].pc = "answer"
  BY DEF IInv, LoseAnswer
<1>2. overtaken' \subseteq used
  BY <1>1 DEF LoseAnswer, Renewing, RequestSound, TypeOK
<1>3. Renewing(q, row.lease) => row.lease \in overtaken'
  BY <1>1 DEF LoseAnswer, Renewing, RequestSound, TypeOK
<1> QED
  BY <1>1, <1>2, <1>3, EndKeeps DEF LoseAnswer, Done, TypeOK

-----------------------------------------------------------------------------
(* The server                                                              *)

LEMMA RefuseKeeps ==
  ASSUME IInv, NEW q \in Request, req[q].pc # "idle",
         Refuse(q), UNCHANGED <<now, key, hand>>,
         Renewing(q, row.lease) /\ row.lease \notin overtaken =>
           \A c \in Client : hand[c].lease = row.lease /\ hand[c].key = key
                               => Reaches(hand[c])
  PROVE  IInv'
  BY EndKeeps DEF Refuse, history, IInv, TypeOK

\* A renewal that fails before it has changed the row was made with the token
\* that the client still has.
LEMMA HandOfRenewal ==
  ASSUME IInv, NEW q \in Request, Renewing(q, row.lease),
         row.lease \notin overtaken, req[q].pc # "answer",
         NEW c \in Client, hand[c].lease = row.lease
  PROVE  hand[c] = req[q].token
  BY DEF IInv, OneRenewal, Renewing

\* A request that a step of the server works on, for the lemmas below
LEMMA InFlight ==
  ASSUME IInv, NEW q \in Request, req[q].pc # "idle"
  PROVE  /\ TypeOK /\ req[q] \in RequestState /\ RequestSound(req[q])
         /\ req[q].token \in Token /\ req[q].at \in Moment
         /\ req[q].token.lease \in used /\ req[q].token.lease \in LeaseId
         /\ req[q].token.lease # NoLease
         /\ req[q].client \in Client
  BY Types, RemoteAssumption DEF IInv, RequestSound, RequestState, TypeOK

LEMMA CheckTokenKeeps ==
  ASSUME IInv, NEW q \in Request, CheckToken(q)
  PROVE  IInv'
<1> DEFINE r == [req[q] EXCEPT !.pc = "checked"]
<1>1. req[q].pc = "sent"
  BY DEF CheckToken
<1>2. /\ TypeOK /\ req[q] \in RequestState /\ RequestSound(req[q])
      /\ req[q].token \in Token
  BY <1>1, InFlight
<1>3. CASE Valid(req[q].token)
  <2>1. /\ req' = [req EXCEPT ![q] = r]
        /\ UNCHANGED <<now, key, row, size, hand, used, over, setBack, overtaken>>
    BY <1>3, <1>2 DEF CheckToken, history, TypeOK
  <2>2. /\ r \in RequestState /\ r.pc = "checked"
        /\ r.op = req[q].op /\ r.client = req[q].client
        /\ r.token = req[q].token /\ r.at = req[q].at
    BY <1>2 DEF RequestState, PC
  <2> HIDE DEF r
  <2>3. RequestSound(r)
    BY <1>1, <1>2, <1>3, <2>2 DEF RequestSound, Valid
  <2>4. GoesOn(q, r)
    BY <1>1, <2>1, <2>2 DEF GoesOn, IInv, InTime, Renewing
  <2> QED
    BY <2>1, <2>2, <2>3, <2>4, <1>2, MoveKeeps DEF TypeOK
<1>4. CASE ~Valid(req[q].token)
  <2>1. Refuse(q) /\ UNCHANGED <<now, key, hand>>
    BY <1>4 DEF CheckToken
  <2>2. ASSUME Renewing(q, row.lease), row.lease \notin overtaken,
               NEW c \in Client, hand[c].lease = row.lease, hand[c].key = key
        PROVE  Reaches(hand[c])
    <3>1. hand[c] = req[q].token
      BY <2>2, <1>1, HandOfRenewal
    <3> QED
      BY <3>1, <2>2, <1>1 DEF IInv, InTime, Renewing
  <2> QED
    BY <2>1, <2>2, <1>1, RefuseKeeps
<1> QED
  BY <1>3, <1>4

LEMMA ReadClockKeeps ==
  ASSUME IInv, NEW q \in Request, ReadClock(q)
  PROVE  IInv'
<1> DEFINE t == IF req[q].op = "keepalive" THEN now + req[q].token.dur ELSE now
           r == [req[q] EXCEPT !.pc = "commit", !.at = t]
<1>1. req[q].pc = "checked" /\ req[q].op \in {"keepalive", "finish"}
  BY DEF ReadClock
<1>2. /\ TypeOK /\ req[q] \in RequestState /\ RequestSound(req[q])
      /\ req[q].token \in Token
  BY <1>1, InFlight
<1>3. t \in Moment /\ t <= now + RoundUp(Term)
  <2>1. now \in 0 .. MaxTime /\ req[q].token.dur \in 0 .. RoundUp(Term)
    BY <1>2, Types DEF TypeOK, Time
  <2> QED
    BY <2>1, TermBounds, RemoteAssumption DEF Moment
<1>4. /\ req' = [req EXCEPT ![q] = r]
      /\ UNCHANGED <<now, key, row, size, hand, used, over, setBack, overtaken>>
  BY DEF ReadClock, history
<1>5. /\ r \in RequestState /\ r.pc = "commit" /\ r.at = t
      /\ r.op = req[q].op /\ r.client = req[q].client /\ r.token = req[q].token
  BY <1>2, <1>3 DEF RequestState, PC
<1>6. r.op = "keepalive" => t = now + r.token.dur
  BY <1>5
<1> HIDE DEF r, t
<1>7. RequestSound(r)
  BY <1>1, <1>2, <1>3, <1>5 DEF RequestSound
<1>8. req[q].token.key = key
  BY <1>1, <1>2 DEF RequestSound
<1>9. GoesOn(q, r)
  BY <1>1, <1>4, <1>5, <1>6, <1>8 DEF GoesOn, IInv, InTime, Renewing, Reaches
<1> QED
  BY <1>2, <1>4, <1>5, <1>7, <1>9, MoveKeeps DEF TypeOK

LEMMA MintTokenKeeps ==
  ASSUME IInv, NEW q \in Request, MintToken(q)
  PROVE  IInv'
<1> DEFINE e == req[q].at
           l == req[q].token.lease
           d == TokenDuration(e, req[q].token.dur)
           t == [lease |-> l, key |-> key, exp |-> TokenExpiry(e), dur |-> d]
           r == [req[q] EXCEPT !.pc = "answer", !.at = 0, !.token = t]
<1>1. req[q].pc = "mint"
  BY DEF MintToken
<1>2. /\ TypeOK /\ req[q] \in RequestState /\ RequestSound(req[q])
      /\ req[q].token \in Token /\ e \in Moment
      /\ l \in used /\ l \in LeaseId
  BY <1>1, InFlight
<1>3. /\ e <= now + RoundUp(Term) /\ Backed(l, e)
      /\ req[q].op \in {"poll", "keepalive"} /\ req[q].client \in Client
  BY <1>1, <1>2 DEF RequestSound
<1>4. /\ now \in Nat /\ e \in Nat /\ now \in Moment /\ row.expires \in Nat
      /\ req[q].token.dur \in 0 .. RoundUp(Term)
  BY <1>2, Types
<1>5. /\ TokenExpiry(e) \in Nat
      /\ TokenExpiry(e) <= e \/ TokenExpiry(e) <= now
  BY <1>4, TokenExpiryBounds
<1>6. TokenExpiry(e) \in Moment
  BY <1>2, <1>4, <1>5, TermBounds, RemoteAssumption DEF Moment
<1>7. d \in 0 .. RoundUp(Term)
  BY <1>3, <1>4, TokenDurationBounds
<1>8. t \in Token
  BY <1>2, <1>6, <1>7, Types DEF Token, TypeOK
<1>9. Backed(l, TokenExpiry(e))
  BY <1>3, <1>4, <1>5 DEF Backed
<1>10. e >= row.expires => now + d >= row.expires
  <2>1. CASE e > now
    <3>1. e - now \in Nat /\ d = RoundUp(e - now)
      BY <2>1, <1>4 DEF TokenDuration
    <3>2. d \in Nat /\ e - now <= d
      BY <3>1, RoundUpBounds
    <3> QED
      BY <3>2, <1>4
  <2>2. CASE ~(e > now)
    BY <2>2, <1>4, <1>7, TermBounds
  <2> QED
    BY <2>1, <2>2
<1>11. /\ req' = [req EXCEPT ![q] = r]
       /\ UNCHANGED <<now, key, row, size, hand, used, over, setBack, overtaken>>
  BY DEF MintToken, history
<1>12. /\ r \in RequestState /\ r.pc = "answer" /\ r.op = req[q].op
       /\ r.client = req[q].client /\ r.token = t
       /\ t.lease = l /\ t.key = key /\ t.exp = TokenExpiry(e) /\ t.dur = d
  BY <1>2, <1>4, <1>8, Types DEF RequestState, PC
<1>13. key \in Nat
  BY <1>2, Types
<1> HIDE DEF r, t, d
<1>14. RequestSound(r)
  BY <1>2, <1>3, <1>9, <1>12, <1>13 DEF RequestSound, TokenSound
<1>15. GoesOn(q, r)
  BY <1>1, <1>3, <1>10, <1>11, <1>12 DEF GoesOn, IInv, InTime, Renewing, Reaches
<1> QED
  BY <1>2, <1>11, <1>12, <1>14, <1>15, MoveKeeps DEF TypeOK

LEMMA AppendChapterKeeps ==
  ASSUME IInv, NEW q \in Request, AppendChapter(q)
  PROVE  IInv'
<1>1. req[q].pc # "idle" /\ ~Renewing(q, row.lease) /\ TypeOK
  BY DEF AppendChapter, Renewing, IInv
<1>2. CASE req[q].ord = size
  <2>1. /\ Done(q) /\ size' \in 0 .. MaxChapters
        /\ UNCHANGED <<now, key, row, hand, used, over, setBack, overtaken>>
    BY <1>1, <1>2, RemoteAssumption DEF AppendChapter, history, TypeOK
  <2> QED
    BY <2>1, <1>1, EndKeeps DEF TypeOK
<1>3. CASE req[q].ord # size
  BY <1>1, <1>3, RefuseKeeps DEF AppendChapter
<1> QED
  BY <1>2, <1>3

\* The row changes and its lease keeps being the same.
LEMMA ExtendLeaseKeeps ==
  ASSUME IInv, NEW q \in Request, ExtendLease(q)
  PROVE  IInv'
<1> DEFINE l == req[q].token.lease
<1>1. req[q].pc = "commit" /\ req[q].op = "keepalive"
  BY DEF ExtendLease
<1>2. /\ TypeOK /\ req[q] \in RequestState /\ RequestSound(req[q])
      /\ req[q].at \in Moment /\ l \in used /\ l \in LeaseId /\ l # NoLease
  BY <1>1, InFlight
<1>3. CASE ~Live(l, now)
  <2>1. Refuse(q) /\ UNCHANGED <<now, key, hand>>
    BY <1>3 DEF ExtendLease
  <2>2. Renewing(q, row.lease) => row.lease = l /\ row.expires <= now
    BY <1>2, <1>3, Types DEF Renewing, Live, IInv, RowSound
  <2>3. ASSUME Renewing(q, row.lease), NEW c \in Client
        PROVE  Reaches(hand[c])
    <3>1. hand[c].dur \in 0 .. RoundUp(Term) /\ now \in Nat /\ row.expires \in Nat
      BY <1>2, Types
    <3>2. row.expires <= now
      BY <2>2, <2>3
    <3> QED
      BY <3>1, <3>2, TermBounds DEF Reaches
  <2> QED
    BY <2>1, <2>3, <1>1, RefuseKeeps
<1>4. CASE Live(l, now)
  <2>1. /\ row' = [row EXCEPT !.expires = req[q].at]
        /\ setBack' = setBack \cup {m \in {l} : req[q].at < row.expires}
        /\ req' = [req EXCEPT ![q] = [req[q] EXCEPT !.pc = "mint"]]
        /\ UNCHANGED <<now, key, size, hand, used, over, overtaken>>
        /\ row.lease = l /\ ~row.archived
    BY <1>4, <1>2 DEF ExtendLease, Live, TypeOK
  <2>2. /\ row'.lease = l /\ row'.expires = req[q].at /\ ~row'.archived
        /\ row' \in [lease : LeaseId \cup {NoLease}, expires : Moment,
                     archived : BOOLEAN]
    BY <2>1, <1>2 DEF TypeOK
  <2>3. PICK r \in RequestState :
          /\ req' = [req EXCEPT ![q] = r]
          /\ r.pc = "mint" /\ r.op = "keepalive" /\ r.at = req[q].at
          /\ r.client = req[q].client /\ r.token = req[q].token
    <3> DEFINE s == [req[q] EXCEPT !.pc = "mint"]
    <3>1. /\ s \in RequestState
          /\ s.pc = "mint" /\ s.op = "keepalive" /\ s.at = req[q].at
          /\ s.client = req[q].client /\ s.token = req[q].token
      BY <1>1, <1>2 DEF RequestState, PC
    <3> QED
      BY <3>1, <2>1
  <2>4. /\ req'[q] = r /\ DOMAIN req = Request /\ DOMAIN req' = Request
        /\ \A p \in Request \ {q} : req'[p] = req[p]
    BY <2>3, <1>2 DEF TypeOK
  <2>5. TypeOK'
    BY <2>1, <2>2, <2>3, <2>4, <1>2 DEF TypeOK
  <2>6. RowSound'
    BY <2>1, <2>2, <1>1, <1>2 DEF RowSound, RequestSound
  <2>7. Later
    <3> SUFFICES ASSUME NEW m \in LeaseId, NEW e \in Moment, Backed(m, e)
                 PROVE  Backed(m, e)'
      BY <2>1, <1>2, Types DEF Later
    <3>1. CASE m = l /\ row.lease = m /\ e <= row.expires
      <4>1. CASE req[q].at < row.expires
        BY <3>1, <4>1, <2>1 DEF Backed
      <4>2. CASE ~(req[q].at < row.expires)
        BY <3>1, <4>2, <2>2, <1>2, Types DEF Backed
      <4> QED
        BY <4>1, <4>2
    <3>2. CASE ~(m = l /\ row.lease = m /\ e <= row.expires)
      BY <3>2, <2>1 DEF Backed
    <3> QED
      BY <3>1, <3>2
  <2>8. \A c \in Client : TokenSound(hand[c])'
    BY <2>1, <2>7, <1>2, Types, TokenStays DEF IInv, TokenSound
  <2>9. \A p \in Request : RequestSound(req[p])'
    <3>1. RequestSound(r)'
      <4>1. TokenSound(r.token)'
        BY <2>1, <2>3, <2>7, <1>1, <1>2, Types, TokenStays, InFlight
        DEF RequestSound, TokenSound
      <4>2. Backed(r.token.lease, r.at)'
        BY <2>2, <2>3, <1>2, Types DEF Backed
      <4> QED
        BY <4>1, <4>2, <2>1, <2>3, <1>1, <1>2 DEF RequestSound
    <3>2. \A p \in Request \ {q} : RequestSound(req[p])'
      <4> SUFFICES ASSUME NEW p \in Request \ {q}
                   PROVE  RequestSound(req[p])'
        OBVIOUS
      <4>1. now \in Nat /\ now <= now' /\ now' \in Nat
        BY <2>1, <1>2, Types
      <4>2. \A s \in RequestState : RequestSound(s) => RequestSound(s)'
        BY <4>1, <2>1, <2>7, <1>2, RequestStays
      <4> QED
        BY <4>2, <2>4, <1>2, Types DEF IInv, RequestSound, TokenSound, Backed
    <3> QED
      BY <3>1, <3>2, <2>4 DEF RequestSound, TokenSound, Backed
  <2>10. HeldOnce'
    BY <2>1, <2>3, <2>4, <1>1 DEF IInv, HeldOnce
  <2>11. OneRenewal'
    BY <2>1, <2>3, <2>4, <1>1 DEF IInv, OneRenewal, Renewing
  <2>12. InTime'
    <3>1. \A p \in Request \ {q} :
            req[p].op \in {"keepalive", "poll"} /\ l \notin overtaken
              => req[p].token.lease # l
      BY <1>1 DEF IInv, HeldOnce, OneRenewal, Renewing
    <3>2. Renewing(q, l)'
      BY <2>3, <2>4 DEF Renewing
    <3>3. r.at >= row'.expires
      BY <2>2, <2>3, <1>2, Types
    <3> QED
      BY <3>1, <3>2, <3>3, <2>1, <2>2, <2>3, <2>4 DEF InTime, Renewing
  <2>13. SetBackNeedsOvertaking'
    <3>1. req[q].at < row.expires => l \in overtaken
      BY <2>1, <1>1, <1>2, Types DEF IInv, InTime
    <3> QED
      BY <3>1, <2>1 DEF IInv, SetBackNeedsOvertaking
  <2> QED
    BY <2>5, <2>6, <2>8, <2>9, <2>10, <2>11, <2>12, <2>13 DEF IInv
<1> QED
  BY <1>3, <1>4

\* Steps that take the lease from the row: a completion, a reschedule, a
\* cancellation.
LEMMA FreeKeeps ==
  ASSUME IInv,
         NEW done \in BOOLEAN,
         row' = [lease |-> NoLease, expires |-> 0, archived |-> done],
         over' = over \cup ({row.lease} \ {NoLease}),
         DOMAIN req' = Request,
         \A p \in Request : req'[p] \in {req[p], Unused},
         UNCHANGED <<now, key, size, hand, used, setBack, overtaken>>
  PROVE  IInv'
<1>1. /\ TypeOK /\ now \in Nat /\ key \in Nat /\ 0 \in Moment
  BY Types DEF IInv
<1>2. row'.lease = NoLease /\ row'.expires = 0
  OBVIOUS
<1>3. \A p \in Request : req'[p] = req[p] \/ req'[p] = Unused
  OBVIOUS
<1>4. TypeOK'
  BY <1>1, <1>3, Types DEF TypeOK, IInv, RowSound
<1>5. RowSound'
  BY <1>1, <1>2, TermBounds DEF RowSound
<1>6. Later
  BY <1>1, Types, RemoteAssumption DEF Later, Backed
<1>7. \A c \in Client : TokenSound(hand[c])'
  BY <1>1, <1>6, Types, TokenStays DEF IInv, TokenSound
<1>8. \A p \in Request : RequestSound(req[p])'
  <2> SUFFICES ASSUME NEW p \in Request
               PROVE  RequestSound(req[p])'
    OBVIOUS
  <2>1. \A r \in RequestState : RequestSound(r) => RequestSound(r)'
    BY <1>1, <1>6, RequestStays
  <2>2. CASE req'[p] = req[p]
    BY <2>1, <2>2, <1>1, Types DEF IInv, RequestSound, TokenSound, Backed
  <2>3. CASE req'[p] = Unused
    BY <2>3 DEF RequestSound, Unused
  <2> QED
    BY <2>2, <2>3, <1>3
<1>9. HeldOnce'
  BY <1>3 DEF IInv, HeldOnce, Unused
<1>10. OneRenewal'
  BY <1>3 DEF IInv, OneRenewal, Renewing, Unused
<1>11. \A p \in Request :
         req'[p].op \in {"keepalive", "poll"} => req'[p].token.lease # NoLease
  BY <1>1, <1>3, RemoteAssumption DEF IInv, RequestSound, TypeOK, Unused
<1>12. InTime'
  BY <1>2, <1>11 DEF InTime
<1>13. SetBackNeedsOvertaking'
  BY DEF IInv, SetBackNeedsOvertaking
<1> QED
  BY <1>4, <1>5, <1>7, <1>8, <1>9, <1>10, <1>12, <1>13 DEF IInv

LEMMA ReleaseLeaseKeeps ==
  ASSUME IInv, NEW q \in Request, ReleaseLease(q)
  PROVE  IInv'
<1>1. req[q].pc = "commit" /\ req[q].op = "finish"
  BY DEF ReleaseLease
<1>2. TypeOK /\ req[q].token.lease # NoLease
  BY <1>1, InFlight
<1>3. CASE ~Live(req[q].token.lease, req[q].at)
  BY <1>1, <1>3, RefuseKeeps DEF ReleaseLease, Renewing
<1>4. CASE Live(req[q].token.lease, req[q].at)
  <2>1. /\ \E done \in BOOLEAN :
             row' = [lease |-> NoLease, expires |-> 0, archived |-> done]
        /\ over' = over \cup {req[q].token.lease}
        /\ req' = [req EXCEPT ![q] = Unused]
        /\ UNCHANGED <<now, key, size, hand, used, setBack, overtaken>>
    BY <1>4 DEF ReleaseLease, Done
  <2>2. req[q].token.lease = row.lease
    BY <1>4 DEF Live
  <2>3. over' = over \cup ({row.lease} \ {NoLease})
    BY <2>1, <2>2, <1>2
  <2>4. DOMAIN req' = Request /\ \A p \in Request : req'[p] \in {req[p], Unused}
    BY <2>1, <1>2 DEF TypeOK
  <2> QED
    BY <2>1, <2>3, <2>4, FreeKeeps
<1> QED
  BY <1>3, <1>4

LEMMA CancelKeeps ==
  ASSUME IInv, CancelJob
  PROVE  IInv'
<1>1. DOMAIN req' = Request /\ \A p \in Request : req'[p] \in {req[p], Unused}
  BY DEF CancelJob, IInv, TypeOK
<1> QED
  BY <1>1, FreeKeeps DEF CancelJob

\* A lease is only given when no token of an earlier one counts any more.
LEMMA GrantKeeps ==
  ASSUME IInv, NEW q \in Request, NEW c \in Client, GrantLease(q, c)
  PROVE  IInv'
<1>1. PICK l \in LeaseId \ used :
        /\ row' = [row EXCEPT !.lease = l, !.expires = now + Term]
        /\ used' = used \cup {l}
        /\ req' = [req EXCEPT ![q] =
             [Unused EXCEPT !.op = "poll", !.pc = "mint", !.client = c,
                            !.at = now + Term,
                            !.token = [NoToken EXCEPT !.lease = l,
                                                      !.dur = RoundUp(Term)]]]
  BY DEF GrantLease
<1>2. /\ UNCHANGED <<now, key, size, hand, over, setBack, overtaken>>
      /\ ~row.archived
      /\ row.lease = NoLease \/ row.expires <= now
  BY DEF GrantLease
<1>3. TypeOK /\ now \in Nat /\ key \in Nat /\ now \in 0 .. MaxTime
  BY Types DEF IInv, TypeOK, Time
<1>4. now + Term \in Moment /\ now + Term <= now + RoundUp(Term) /\ 0 \in Moment
  BY <1>3, TermBounds, RemoteAssumption DEF Moment
<1>5. PICK r \in RequestState :
        /\ req' = [req EXCEPT ![q] = r]
        /\ r.op = "poll" /\ r.pc = "mint" /\ r.client = c /\ r.at = now + Term
        /\ r.token.lease = l /\ r.token.key = 0 /\ r.token.exp = 0
  <2> DEFINE t == [NoToken EXCEPT !.lease = l, !.dur = RoundUp(Term)]
             s == [Unused EXCEPT !.op = "poll", !.pc = "mint", !.client = c,
                                 !.at = now + Term, !.token = t]
  <2>1. NoToken \in Token /\ NoToken.key = 0 /\ NoToken.exp = 0
    BY <1>3, Types DEF NoToken
  <2>2. RoundUp(Term) \in Duration
    BY TermBounds DEF Duration
  <2>3. t \in Token /\ t.lease = l /\ t.key = 0 /\ t.exp = 0
    BY <2>1, <2>2 DEF Token
  <2> HIDE DEF t
  <2>4. Unused \in RequestState
    BY <1>3, Types
  <2>5. /\ s \in RequestState
        /\ s.op = "poll" /\ s.pc = "mint" /\ s.client = c /\ s.at = now + Term
        /\ s.token = t
    BY <2>3, <2>4, <1>4 DEF RequestState, Op, PC
  <2>6. req' = [req EXCEPT ![q] = s]
    BY <1>1 DEF t
  <2> QED
    BY <2>3, <2>5, <2>6
<1>6. /\ req'[q] = r /\ DOMAIN req = Request /\ DOMAIN req' = Request
      /\ \A p \in Request \ {q} : req'[p] = req[p]
  BY <1>3, <1>5 DEF TypeOK
<1>7. /\ row'.lease = l /\ row'.expires = now + Term /\ ~row'.archived
      /\ row' \in [lease : LeaseId \cup {NoLease}, expires : Moment,
                   archived : BOOLEAN]
  BY <1>1, <1>2, <1>3, <1>4 DEF TypeOK
<1>8. TypeOK'
  BY <1>1, <1>2, <1>3, <1>5, <1>6, <1>7 DEF TypeOK
<1>9. RowSound'
  BY <1>1, <1>2, <1>4, <1>7 DEF RowSound
<1>10. Later
  <2> SUFFICES ASSUME NEW m \in LeaseId, NEW e \in Moment, Backed(m, e)
               PROVE  Backed(m, e)'
    BY <1>1, <1>2, <1>3 DEF Later
  <2>1. row.lease = m /\ e <= row.expires => e <= now
    BY <1>2, <1>3, Types, RemoteAssumption
  <2> QED
    BY <2>1, <1>2 DEF Backed
<1>11. \A d \in Client : TokenSound(hand[d])'
  BY <1>2, <1>3, <1>10, Types, TokenStays DEF IInv, TokenSound
<1>12. \A p \in Request : RequestSound(req[p])'
  <2>1. RequestSound(req[q])'
    <3>1. Backed(l, now + Term)' /\ Backed(l, 0)'
      BY <1>2, <1>3, <1>7, TermBounds, RemoteAssumption DEF Backed
    <3>2. TokenSound(r.token)'
      BY <3>1, <1>1, <1>2, <1>3, <1>5 DEF TokenSound
    <3> QED
      BY <3>1, <3>2, <1>1, <1>2, <1>4, <1>5, <1>6
      DEF RequestSound, TokenSound, Backed
  <2>2. ASSUME NEW p \in Request \ {q}
        PROVE  RequestSound(req[p])'
    <3>1. \A s \in RequestState : RequestSound(s) => RequestSound(s)'
      BY <1>2, <1>3, <1>10, RequestStays
    <3> QED
      BY <3>1, <1>3, <1>6, Types DEF IInv, RequestSound, TokenSound, Backed
  <2> QED
    BY <2>1, <2>2
<1>13. /\ l # NoLease
       /\ \A d \in Client : hand[d].lease # l
       /\ \A p \in Request : req[p].op # "none" => req[p].token.lease # l
  BY <1>1, <1>3, RemoteAssumption DEF IInv, TokenSound, RequestSound, Unused
<1>14. HeldOnce'
  BY <1>2, <1>5, <1>6, <1>13 DEF IInv, HeldOnce
<1>15. OneRenewal'
  BY <1>2, <1>5, <1>6 DEF IInv, OneRenewal, Renewing
<1>16. InTime'
  <2>1. r.at >= row'.expires
    BY <1>3, <1>5, <1>7, RemoteAssumption
  <2> QED
    BY <2>1, <1>2, <1>5, <1>6, <1>7, <1>13 DEF InTime, Renewing
<1>17. SetBackNeedsOvertaking'
  BY <1>2 DEF IInv, SetBackNeedsOvertaking
<1> QED
  BY <1>8, <1>9, <1>11, <1>12, <1>14, <1>15, <1>16, <1>17 DEF IInv

\* A token that was signed with an earlier key is not accepted any more.
LEMMA RestartKeeps ==
  ASSUME IInv, RestartServer
  PROVE  IInv'
<1>1. TypeOK /\ key \in Nat /\ now \in Nat
  BY Types DEF IInv
<1>2. /\ key < MaxRestarts /\ key' = key + 1
      /\ req' = [q \in Request |-> Unused]
      /\ UNCHANGED <<now, row, size, hand, used, over, setBack, overtaken>>
  BY DEF RestartServer, history
<1>3. key' \in Nat /\ key' \in Key
  BY <1>1, <1>2, RemoteAssumption DEF Key
<1>4. DOMAIN req' = Request /\ \A q \in Request : req'[q] = Unused
  BY <1>2
<1>5. TypeOK'
  BY <1>1, <1>2, <1>3, <1>4, Types DEF TypeOK
<1>6. RowSound'
  BY <1>2 DEF IInv, RowSound
<1>7. \A c \in Client : hand[c].lease # NoLease => hand[c].key \in Nat /\ hand[c].key <= key
  BY <1>1, Types DEF IInv, TokenSound, Key
<1>8. \A c \in Client : TokenSound(hand[c])'
  BY <1>1, <1>2, <1>7 DEF IInv, TokenSound, Backed
<1>9. \A q \in Request : RequestSound(req[q])'
  BY <1>4 DEF RequestSound, Unused
<1>10. HeldOnce' /\ OneRenewal'
  BY <1>2, <1>4 DEF IInv, HeldOnce, OneRenewal, Unused
<1>11. \A c \in Client : hand[c].lease # NoLease => hand[c].key # key'
  BY <1>1, <1>2, <1>7
<1>12. InTime'
  BY <1>2, <1>4, <1>11 DEF InTime, Unused
<1>13. SetBackNeedsOvertaking'
  BY <1>2 DEF IInv, SetBackNeedsOvertaking
<1> QED
  BY <1>5, <1>6, <1>8, <1>9, <1>10, <1>12, <1>13 DEF IInv

LEMMA TickKeeps ==
  ASSUME IInv, Tick
  PROVE  IInv'
<1>1. TypeOK /\ now \in Nat /\ key \in Nat
  BY Types DEF IInv
<1>2. /\ now < MaxTime /\ now' = now + 1
      /\ UNCHANGED <<key, row, size, hand, req, used, over, setBack, overtaken>>
  BY DEF Tick, history
<1>3. now' \in Nat /\ now' \in Time /\ now <= now'
  BY <1>1, <1>2, RemoteAssumption DEF Time
<1>4. TypeOK'
  BY <1>1, <1>2, <1>3 DEF TypeOK
<1>5. RowSound'
  BY <1>1, <1>2, Types, TermBounds DEF IInv, RowSound
<1>6. Later
  BY <1>1, <1>2, <1>3, LaterIfSame
<1>7. \A c \in Client : TokenSound(hand[c])'
  BY <1>1, <1>2, <1>6, Types, TokenStays DEF IInv, TokenSound
<1>8. \A q \in Request : RequestSound(req[q])'
  <2>1. \A r \in RequestState : RequestSound(r) => RequestSound(r)'
    BY <1>1, <1>2, <1>3, <1>6, RequestStays
  <2> QED
    BY <2>1, <1>1, <1>2, Types DEF IInv, RequestSound, TokenSound, Backed
<1>9. HeldOnce' /\ OneRenewal' /\ SetBackNeedsOvertaking'
  BY <1>2 DEF IInv, HeldOnce, OneRenewal, Renewing, SetBackNeedsOvertaking
<1>10. \A t \in Token : now + t.dur >= row.expires => now' + t.dur >= row.expires
  BY <1>1, <1>2, Types, TermBounds
<1>11. /\ \A c \in Client : hand[c] \in Token
       /\ \A q \in Request : req[q].token \in Token
  BY <1>1, Types DEF RequestState
<1>12. InTime'
  BY <1>2, <1>10, <1>11 DEF IInv, InTime, Renewing, Reaches
<1> QED
  BY <1>4, <1>5, <1>7, <1>8, <1>9, <1>12 DEF IInv

-----------------------------------------------------------------------------
(* The theorems                                                            *)

LEMMA InitHolds ==
  ASSUME Init PROVE IInv
<1>1. TypeOK
  <2>1. /\ 0 \in Time /\ 0 \in Key /\ 0 \in Moment /\ 0 \in Duration
        /\ 0 \in 0 .. MaxChapters
    BY TermBounds, RemoteAssumption DEF Time, Key, Moment, Duration
  <2>2. NoToken \in Token
    BY <2>1 DEF NoToken, Token
  <2>3. Unused \in RequestState
    BY <2>1, <2>2 DEF Unused, RequestState, Op, PC
  <2> QED
    BY <2>1, <2>2, <2>3 DEF Init, TypeOK
<1>2. RowSound
  BY TermBounds DEF Init, RowSound
<1>3. /\ \A c \in Client : hand[c].lease = NoLease
      /\ \A q \in Request : req[q] = Unused
      /\ row.lease = NoLease /\ setBack = {}
  BY DEF Init, NoToken
<1>4. Unused.op = "none"
  BY DEF Unused
<1>5. \A c \in Client : TokenSound(hand[c])
  BY <1>3 DEF TokenSound
<1>6. \A q \in Request : RequestSound(req[q])
  BY <1>3, UnusedSound
<1>7. HeldOnce /\ OneRenewal /\ InTime /\ SetBackNeedsOvertaking
  BY <1>3, <1>4 DEF HeldOnce, OneRenewal, InTime, SetBackNeedsOvertaking
<1> QED
  BY <1>1, <1>2, <1>5, <1>6, <1>7 DEF IInv

LEMMA StepKeeps ==
  ASSUME IInv, [Next]_vars PROVE IInv'
<1>1. ASSUME NEW q \in Request, NEW c \in Client,
             \/ GrantLease(q, c) \/ KeepAlive(q, c) \/ PutChapter(q, c)
             \/ FinishLease(q, c)
      PROVE  IInv'
  BY <1>1, GrantKeeps, KeepAliveKeeps, SendKeeps
<1>2. ASSUME NEW q \in Request, ReceiveToken(q) \/ LoseAnswer(q)
      PROVE  IInv'
  BY <1>2, ReceiveKeeps, LoseKeeps
<1>3. ASSUME NEW q \in Request,
             CheckToken(q) \/ ReadClock(q) \/ ExtendLease(q) \/ MintToken(q)
      PROVE  IInv'
  BY <1>3, CheckTokenKeeps, ReadClockKeeps, ExtendLeaseKeeps, MintTokenKeeps
<1>4. ASSUME NEW q \in Request, ReleaseLease(q) \/ AppendChapter(q)
      PROVE  IInv'
  BY <1>4, ReleaseLeaseKeeps, AppendChapterKeeps
<1>5. CASE CancelJob \/ RestartServer \/ Tick
  BY <1>5, CancelKeeps, RestartKeeps, TickKeeps
<1>6. CASE UNCHANGED vars
  BY <1>6 DEF IInv, TypeOK, RowSound, TokenSound, RequestSound, HeldOnce,
              OneRenewal, InTime, SetBackNeedsOvertaking, Backed, Reaches,
              Renewing, vars
<1> QED
  BY <1>1, <1>2, <1>3, <1>4, <1>5, <1>6 DEF Next

\* The inductive invariant holds, whatever is slow, lost or restarted.
THEOREM Inductive == Spec => []IInv
<1>1. Init => IInv
  BY InitHolds
<1>2. IInv /\ [Next]_vars => IInv'
  BY StepKeeps
<1> QED
  BY <1>1, <1>2, PTL DEF Spec

\* Every variable keeps its shape: in particular the duration in a token
\* (mintForLeaseExpiry) never grows beyond one rounded term.
THEOREM TypeCorrect == Spec => []TypeOK
<1>1. IInv => TypeOK
  BY DEF IInv
<1> QED
  BY <1>1, Inductive, PTL

\* What leaseauth.Authorize may conclude from a token without a look at the row:
\* a token that is accepted stands for a lease that is in the row for at least as
\* long, unless the lease was given back, cancelled or set back.
THEOREM TokensBacked == Spec => []TokenBacked
<1>1. ASSUME IInv, NEW t \in Minted, Valid(t)
      PROVE  \/ Live(t.lease, now) /\ t.exp <= row.expires
             \/ t.lease \in over \cup setBack
  <2>1. TypeOK
    BY <1>1 DEF IInv
  <2>2. t \in Token /\ TokenSound(t)
    BY <1>1, <2>1, Types DEF IInv, Minted, RequestSound, RequestState
  <2>3. t.lease # NoLease /\ now < t.exp
    BY <1>1 DEF Valid
  <2>4. now \in Nat /\ row.expires \in Nat /\ t.exp \in Nat
    BY <2>1, <2>2, Types
  <2>5. Backed(t.lease, t.exp)
    BY <2>2, <2>3 DEF TokenSound
  <2>6. CASE row.lease = t.lease /\ t.exp <= row.expires
    BY <2>3, <2>4, <2>6, <1>1 DEF Live, IInv, RowSound
  <2>7. CASE t.lease \in over \cup setBack
    BY <2>7
  <2> QED
    BY <2>3, <2>4, <2>5, <2>6, <2>7 DEF Backed
<1>2. IInv => TokenBacked
  BY <1>1 DEF TokenBacked
<1> QED
  BY <1>2, Inductive, PTL

\* KeepAliveLeaseByIDWithExpiry moves an expiry to an earlier time only when the
\* answer of an earlier renewal was lost or overtaken.
THEOREM NoSetBack == Spec => []SetBackNeedsOvertaking
<1>1. IInv => SetBackNeedsOvertaking
  BY DEF IInv
<1> QED
  BY <1>1, Inductive, PTL

\* Rounding up to whole seconds (leaseTokenClaims.LeaseDurationSeconds) does not
\* add up over the renewals of a lease.
THEOREM Bounded == Spec => []LeaseBounded
<1>1. ASSUME IInv PROVE LeaseBounded
  <2>1. TypeOK /\ row.expires <= now + RoundUp(Term)
    BY <1>1 DEF IInv, RowSound
  <2>2. ASSUME NEW t \in Minted PROVE t.dur <= RoundUp(Term)
    <3>1. t \in Token
      BY <2>1, <2>2, Types DEF Minted, RequestState
    <3>2. t.dur \in 0 .. RoundUp(Term)
      BY <3>1, <2>1, Types
    <3> QED
      BY <3>2, TermBounds
  <2> QED
    BY <2>1, <2>2 DEF LeaseBounded
<1> QED
  BY <1>1, Inductive, PTL
=============================================================================
