------------------------ MODULE ScheduleControlProofs ------------------------
(***************************************************************************)
(* Proofs about ScheduleControl, for any schedule, clock and callers.  An  *)
(* occurrence carries, from the moment it is filed, all that later         *)
(* decisions rest on: its generation, its predecessor and the outcomes of  *)
(* the ones before that.  What is filed does not change and what is over   *)
(* stays over, so whatever a preflight has found out still holds when its  *)
(* caller acts on it (Evolves).                                            *)
(***************************************************************************)
EXTENDS ScheduleControl, TLAPS, SequenceTheorems

-----------------------------------------------------------------------------
(* The inductive invariant                                                 *)

Known(i) == job[i].status # "none"

\* The occurrence before i, if it has one, is over.
Past(i) == job[i].occ.prev # NoId => Closed(job[i].occ.prev)

\* An occurrence that may be worked on
Due(i) == Known(i) /\ job[i].occ.at <= now /\ Past(i)

\* What WorkHasSuccessor asks for
Succeeded(i) ==
  \/ \E k \in Id : job[k].status # "none" /\ job[k].occ.prev = i
  \/ NextFire(job[i].occ.trigger, now) = {}

\* The window, if there is one, is long enough for the policy.
Windowed == given.failures <= 1 \/ given.failures <= given.window

\* An occurrence and those before it, as far as the policy looks
Chain ==
  {p \in [0 .. given.failures -> Id \cup {NoId}] :
     /\ \A n \in 0 .. given.failures : p[n] # NoId => Known(p[n])
     /\ \A n \in 1 .. given.failures :
          p[n] = IF p[n - 1] = NoId THEN NoId ELSE job[p[n - 1]].occ.prev
     /\ \A n \in 0 .. given.failures : \A m \in 0 .. n : p[n] # NoId => p[m] # NoId}

Success(i) == job[i].status = "success"

\* bits tells of the last n occurrences before j, the latest last.
Tells(bits, j, n) ==
  Windowed =>
    \A p \in Chain : p[0] = j =>
      \A m \in 1 .. n : p[m] # NoId =>
        m <= Len(bits) /\ (bits[Len(bits) - m + 1] <=> Success(p[m]))

\* One of the occurrences that the policy looks at succeeded, or there are not so
\* many.
Judged(j) ==
  given.failures > 0 /\ Windowed =>
    \A p \in Chain : p[0] = j =>
      \E m \in 1 .. given.failures : p[m] = NoId \/ Success(p[m])

\* A generation of a filed occurrence, or of one that is being filed
Current(g, i) ==
  /\ g \in 1 .. sched.gen
  /\ i.req = NoRequest /\ g = sched.gen => sched.state = "active"

FiledSound(i) ==
  Known(i) =>
    /\ Current(job[i].occ.gen, i)
    /\ story[i].content # "none"
    /\ job[i].occ.prev # NoId => Known(job[i].occ.prev) /\ Past(job[i].occ.prev)
    /\ Tells(job[i].occ.bits, job[i].occ.prev, given.failures - 1)

StartedSound(i) ==
  /\ story[i].content \in {"work", "refused", "rework"} => Due(i)
  /\ story[i].content = "work" => Succeeded(i) /\ Judged(i)

LeaseSound(i) == job[i].lease # NoWorker => job[i].status = "open"

Filing(k) == k.pc \in {"story", "row"}

CallSound(k) ==
  /\ k.pc \in {"count", "check", "history", "refuse", "archive", "granted"}
       => k.job # NoId
  /\ Filing(k) =>
       /\ k.id # NoId
       /\ Current(k.occ.gen, k.id)
       /\ k.occ.prev = k.job
       /\ Tells(k.occ.bits, k.job, given.failures - 1)
       /\ k.pc = "row" => story[k.id].content # "none"
  /\ k.job # NoId /\ k.pc # "idle" =>
       /\ Due(k.job)
       /\ ~k.fresh => ~Wanted(job[k.job].occ)
       /\ k.pc = "history" \/ Filing(k) =>
            /\ k.fresh
            /\ job[k.job].occ.gen = sched.gen => sched.state = "active"
       /\ Filing(k) => Judged(k.job)
       /\ k.pc = "granted" /\ story[k.job].content = "start" =>
            k.fresh /\ Succeeded(k.job) /\ Judged(k.job)

IInv ==
  /\ TypeOK
  /\ sched.exists => sched.gen >= 1
  /\ \A i \in Id : FiledSound(i) /\ StartedSound(i) /\ LeaseSound(i)
  /\ \A c \in Caller, k \in CallState : call[c] = k => CallSound(k)

-----------------------------------------------------------------------------
(* Operators                                                               *)

\* Fire times do not come back: what is past the end stays past the end.
LEMMA BoundaryGrows ==
  ASSUME NEW t \in Nat, NEW u \in Nat, t <= u
  PROVE  BoundaryAfter(t) \in Nat /\ BoundaryAfter(t) <= BoundaryAfter(u)
<1> DEFINE q == t \div Every
           r == u \div Every
<1>1. Every \in Nat \ {0}
  BY ScheduleAssumption
<1>2. /\ q \in Nat /\ Every * q <= t /\ t < Every * q + Every
      /\ r \in Nat /\ Every * r <= u /\ u < Every * r + Every
  BY <1>1
<1> HIDE DEF q, r
<1>3. q <= r
  <2> SUFFICES ASSUME r + 1 <= q
               PROVE  FALSE
    BY <1>2
  <2>1. Every * (r + 1) <= Every * q
    BY <1>1, <1>2
  <2>2. Every * (r + 1) = Every * r + Every
    BY <1>1, <1>2
  <2> QED
    BY <1>1, <1>2, <2>1, <2>2
<1>4. (q + 1) * Every <= (r + 1) * Every /\ (q + 1) * Every \in Nat
  BY <1>1, <1>2, <1>3
<1> QED
  BY <1>4 DEF BoundaryAfter, q, r

LEMMA FireEnds ==
  ASSUME NEW k, NEW t \in Nat, NEW u \in Nat, t <= u, given.end \in Nat,
         NextFire(k, t) = {}
  PROVE  NextFire(k, u) = {}
<1>1. \A v \in Nat : UpToEnd(v) = {} <=> v > given.end
  BY DEF UpToEnd
<1>2. Every \in Nat
  BY ScheduleAssumption
<1>3. CASE k = "interval"
  BY <1>1, <1>2, <1>3 DEF NextFire
<1>4. CASE k # "interval"
  <2>1. /\ BoundaryAfter(t) \in Nat /\ BoundaryAfter(u) \in Nat
        /\ BoundaryAfter(t) <= BoundaryAfter(u)
    BY BoundaryGrows
  <2> QED
    BY <1>1, <1>4, <2>1 DEF NextFire
<1> QED
  BY <1>3, <1>4

\* h are the bits, with one more; w is the size of the window.
Extends(h, bits, ok, w) ==
  /\ h \in Bits
  /\ Len(h) = IF w > 0 /\ Len(bits) + 1 > w THEN w ELSE Len(bits) + 1
  /\ \A n \in 1 .. Len(h) :
       h[n] = IF n = Len(h) THEN ok ELSE bits[Len(bits) - Len(h) + 1 + n]

LEMMA AppendBitFacts ==
  ASSUME NEW bits \in Bits, NEW ok \in BOOLEAN, NEW w \in Nat
  PROVE  Extends(AppendBit(bits, ok, w), bits, ok, w)
<1> DEFINE b == Append(bits, ok)
           n == Len(bits)
           s == SubSeq(b, n + 1 - w + 1, n + 1)
<1>1. /\ b \in Seq(BOOLEAN) /\ n \in Nat /\ Len(b) = n + 1
      /\ \A i \in 1 .. n : b[i] = bits[i]
      /\ b[n + 1] = ok
  BY AppendProperties, LenProperties DEF Bits
<1> HIDE DEF b, n
<1>2. CASE w > 0 /\ n + 1 > w
  <2>1. \A i \in n + 1 - w + 1 .. n + 1 : b[i] \in BOOLEAN
    BY <1>1, <1>2, ElementOfSeq
  <2>2. /\ s \in Seq(BOOLEAN)
        /\ Len(s) = IF n + 1 - w + 1 <= n + 1 THEN n + 1 - (n + 1 - w + 1) + 1 ELSE 0
        /\ \A i \in 1 .. n + 1 - (n + 1 - w + 1) + 1 : s[i] = b[n + 1 - w + 1 + i - 1]
    BY <1>1, <2>1, SubSeqProperties
  <2> HIDE DEF s
  <2>3. Len(s) = w /\ \A i \in 1 .. w : s[i] = b[n + 1 - w + i]
    BY <1>1, <1>2, <2>2
  <2>4. ASSUME NEW i \in 1 .. w
        PROVE  s[i] = IF i = w THEN ok ELSE bits[n - w + 1 + i]
    <3>1. CASE i = w
      BY <1>1, <2>3, <3>1
    <3>2. CASE i # w
      <4>1. n + 1 - w + i \in 1 .. n /\ n + 1 - w + i = n - w + 1 + i
        BY <1>1, <1>2, <3>2
      <4>2. s[i] = b[n + 1 - w + i] /\ b[n + 1 - w + i] = bits[n + 1 - w + i]
        BY <1>1, <2>3, <4>1
      <4> QED
        BY <3>2, <4>1, <4>2
    <3> QED
      BY <3>1, <3>2
  <2>5. AppendBit(bits, ok, w) = s
    BY <1>1, <1>2 DEF AppendBit, b, n, s
  <2>6. s \in Bits
    BY <2>2 DEF Bits
  <2>7. /\ Len(s) = IF w > 0 /\ n + 1 > w THEN w ELSE n + 1
        /\ \A i \in 1 .. Len(s) : s[i] = IF i = Len(s) THEN ok ELSE bits[n - Len(s) + 1 + i]
    BY <1>2, <2>3, <2>4
  <2> QED
    BY <1>1, <2>5, <2>6, <2>7 DEF n, Extends
<1>3. CASE ~(w > 0 /\ n + 1 > w)
  <2>1. AppendBit(bits, ok, w) = b
    BY <1>1, <1>3 DEF AppendBit, b, n
  <2>2. \A i \in 1 .. n + 1 : b[i] = IF i = n + 1 THEN ok ELSE bits[n - (n + 1) + 1 + i]
    BY <1>1
  <2> QED
    BY <1>1, <1>3, <2>1, <2>2 DEF Bits, n, Extends
<1> QED
  BY <1>2, <1>3

-----------------------------------------------------------------------------
(* What a step leaves                                                      *)

\* Every step is like that: a change of the schedule takes a new generation, what
\* is filed stays as it is, what is over stays over, and what is filed newly
\* follows something that is filed.
Evolves ==
  /\ given' = given /\ now <= now'
  /\ sched' = sched \/ sched.gen < sched'.gen
  /\ \A i \in Id :
       /\ Known(i) => /\ Known(i)' /\ job'[i].occ = job[i].occ
                      /\ Closed(i) => job'[i].status = job[i].status
       /\ ~Known(i) /\ Known(i)' /\ job'[i].occ.prev # NoId => Known(job'[i].occ.prev)
       /\ story[i].content # "none" => story'[i].content # "none"
       /\ story'[i].content = "start" => story[i].content \in {"none", "start"}

LEMMA CaseFacts ==
  ASSUME TypeOK
  PROVE  /\ given.failures \in Nat /\ given.window \in Nat
         /\ given.end \in 0 .. MaxTime /\ given.generations \in 0 .. MaxGeneration
         /\ now \in Nat /\ now \in Time /\ sched.gen \in Nat
  BY ScheduleAssumption DEF TypeOK, Case, Time, ScheduleRow, Generation

LEMMA JobShape ==
  ASSUME TypeOK, NEW i \in Id
  PROVE  /\ job[i] \in JobRow /\ job[i].occ \in Occurrences
         /\ job[i].occ.prev \in Id \cup {NoId} /\ job[i].occ.bits \in Bits
         /\ job[i].occ.gen \in Nat /\ job[i].occ.at \in Nat
         /\ story[i] \in [content : Content, prev : Id \cup {NoId}]
  BY ScheduleAssumption DEF TypeOK, JobRow, Occurrences, Generation, Time

LEMMA ChainShape ==
  ASSUME TypeOK, NEW p \in Chain
  PROVE  /\ \A n \in 0 .. given.failures : p[n] \in Id \cup {NoId}
         /\ \A n \in 0 .. given.failures : p[n] # NoId => Known(p[n]) /\ p[n] \in Id
         /\ \A n \in 1 .. given.failures :
              /\ n - 1 \in 0 .. given.failures
              /\ p[n] = IF p[n - 1] = NoId THEN NoId ELSE job[p[n - 1]].occ.prev
         /\ \A n \in 0 .. given.failures : \A m \in 0 .. n : p[n] # NoId => p[m] # NoId
<1>1. given.failures \in Nat
  BY CaseFacts
<1>2. /\ p \in [0 .. given.failures -> Id \cup {NoId}]
      /\ \A n \in 0 .. given.failures : p[n] # NoId => Known(p[n])
      /\ \A n \in 1 .. given.failures :
           p[n] = IF p[n - 1] = NoId THEN NoId ELSE job[p[n - 1]].occ.prev
      /\ \A n \in 0 .. given.failures : \A m \in 0 .. n : p[n] # NoId => p[m] # NoId
  BY DEF Chain
<1>3. \A n \in 1 .. given.failures : n - 1 \in 0 .. given.failures
  BY <1>1
<1> QED
  BY <1>2, <1>3

\* The occurrences before one that is being looked at are over.
LEMMA ChainOver ==
  ASSUME TypeOK, \A i \in Id : FiledSound(i), NEW p \in Chain, p[0] # NoId => Past(p[0]),
         NEW m \in 1 .. given.failures, p[m] # NoId
  PROVE  p[m] \in Id /\ Closed(p[m])
<1>1. /\ given.failures \in Nat /\ m \in 0 .. given.failures /\ m - 1 \in 0 .. given.failures
      /\ p[m] \in Id /\ p[m - 1] # NoId /\ p[m] = job[p[m - 1]].occ.prev
      /\ p[m - 1] \in Id /\ Known(p[m - 1])
  BY CaseFacts, ChainShape
<1>2. CASE m = 1
  BY <1>1, <1>2 DEF Past
<1>3. CASE m # 1
  <2>1. m - 1 \in 1 .. given.failures
    BY <1>1, <1>3
  <2>2. PICK n \in 1 .. given.failures : n = m - 1
    BY <2>1
  <2>3. /\ p[n - 1] # NoId /\ p[n - 1] \in Id /\ Known(p[n - 1])
        /\ p[n] = job[p[n - 1]].occ.prev
    BY <1>1, <2>2, ChainShape
  <2>4. Past(p[n])
    BY <1>1, <2>2, <2>3 DEF FiledSound
  <2> QED
    BY <1>1, <2>2, <2>4 DEF Past
<1> QED
  BY <1>2, <1>3

\* No step puts an occurrence in between.
LEMMA ChainStays ==
  ASSUME TypeOK, TypeOK', Evolves, \A i \in Id : FiledSound(i),
         NEW p, p \in Chain', p[0] = NoId \/ Known(p[0])
  PROVE  p \in Chain
<1>1. given.failures \in Nat /\ given' = given
  BY CaseFacts DEF Evolves
<1>2. /\ p \in [0 .. given.failures -> Id \cup {NoId}]
      /\ \A n \in 0 .. given.failures : p[n] # NoId => Known(p[n])'
      /\ \A n \in 1 .. given.failures :
           p[n] = IF p[n - 1] = NoId THEN NoId ELSE job'[p[n - 1]].occ.prev
      /\ \A n \in 0 .. given.failures : \A m \in 0 .. n : p[n] # NoId => p[m] # NoId
  BY <1>1 DEF Chain, Known
<1>3. ASSUME NEW n \in 1 .. given.failures, p[n] # NoId
      PROVE  Known(p[n])
  <2>1. /\ n - 1 \in 0 .. given.failures /\ p[n - 1] # NoId
        /\ p[n - 1] \in Id /\ p[n] = job'[p[n - 1]].occ.prev
    BY <1>1, <1>2, <1>3
  <2>2. PICK i \in Id : i = p[n - 1]
    BY <2>1
  <2>3. Known(i)'
    BY <1>2, <2>1, <2>2
  <2>4. CASE Known(i)
    <3>1. p[n] = job[i].occ.prev
      BY <2>1, <2>2, <2>4 DEF Evolves
    <3> QED
      BY <1>3, <2>4, <3>1 DEF FiledSound
  <2>5. CASE ~Known(i)
    BY <1>3, <2>1, <2>2, <2>3, <2>5 DEF Evolves
  <2> QED
    BY <2>4, <2>5
<1>4. \A n \in 0 .. given.failures : p[n] # NoId => Known(p[n])
  <2> SUFFICES ASSUME NEW n \in 0 .. given.failures, p[n] # NoId
               PROVE  Known(p[n])
    OBVIOUS
  <2> QED
    BY <1>1, <1>3
<1>5. ASSUME NEW n \in 1 .. given.failures
      PROVE  p[n] = IF p[n - 1] = NoId THEN NoId ELSE job[p[n - 1]].occ.prev
  <2>1. n - 1 \in 0 .. given.failures
    BY <1>1
  <2>2. CASE p[n - 1] = NoId
    BY <1>2, <2>2
  <2>3. CASE p[n - 1] # NoId
    <3>1. p[n - 1] \in Id /\ Known(p[n - 1])
      BY <1>2, <1>4, <2>1, <2>3
    <3> QED
      BY <1>2, <2>3, <3>1 DEF Evolves
  <2> QED
    BY <2>2, <2>3
<1> QED
  BY <1>2, <1>4, <1>5 DEF Chain

\* What is known of the occurrences before one that is leased stays so.
LEMMA BeforeStays ==
  ASSUME TypeOK, TypeOK', Evolves, \A i \in Id : FiledSound(i),
         NEW j, j # NoId => j \in Id /\ Known(j) /\ Past(j),
         NEW p, p \in Chain', p[0] = j
  PROVE  /\ p \in Chain
         /\ \A m \in 1 .. given.failures : p[m] # NoId => Success(p[m])' = Success(p[m])
<1>1. p \in Chain
  BY ChainStays
<1>2. ASSUME NEW m \in 1 .. given.failures, p[m] # NoId
      PROVE  Success(p[m])' = Success(p[m])
  <2>1. p[m] \in Id /\ Closed(p[m])
    BY <1>1, <1>2, ChainOver
  <2>2. Known(p[m])
    BY <2>1 DEF Closed, Known, Outcome
  <2>3. job'[p[m]].status = job[p[m]].status
    BY <2>1, <2>2 DEF Evolves
  <2> QED
    BY <2>3 DEF Success
<1> QED
  BY <1>1, <1>2

LEMMA TellsStays ==
  ASSUME TypeOK, TypeOK', Evolves, \A i \in Id : FiledSound(i),
         NEW j, j # NoId => j \in Id /\ Known(j) /\ Past(j),
         NEW bits, Tells(bits, j, given.failures - 1)
  PROVE  Tells(bits, j, given.failures - 1)'
<1>1. given' = given /\ given.failures \in Nat
  BY CaseFacts DEF Evolves
<1> SUFFICES ASSUME Windowed, NEW p, p \in Chain', p[0] = j,
                    NEW m \in 1 .. given.failures - 1, p[m] # NoId
             PROVE  m <= Len(bits) /\ (bits[Len(bits) - m + 1] <=> Success(p[m])')
  BY <1>1 DEF Tells, Windowed, Success
<1>2. m \in 1 .. given.failures
  BY <1>1
<1>3. p \in Chain /\ Success(p[m])' = Success(p[m])
  BY <1>2, BeforeStays
<1>4. m <= Len(bits) /\ (bits[Len(bits) - m + 1] <=> Success(p[m]))
  BY <1>3 DEF Tells
<1> QED
  BY <1>3, <1>4

LEMMA JudgedStays ==
  ASSUME TypeOK, TypeOK', Evolves, \A i \in Id : FiledSound(i),
         NEW j \in Id, Known(j), Past(j), Judged(j)
  PROVE  Judged(j)'
<1>1. given' = given /\ given.failures \in Nat
  BY CaseFacts DEF Evolves
<1> SUFFICES ASSUME given.failures > 0, Windowed, NEW p, p \in Chain', p[0] = j
             PROVE  \E m \in 1 .. given.failures : p[m] = NoId \/ Success(p[m])'
  BY <1>1 DEF Judged, Windowed, Success
<1>2. p \in Chain
        /\ \A m \in 1 .. given.failures : p[m] # NoId => Success(p[m])' = Success(p[m])
  BY BeforeStays
<1>3. PICK m \in 1 .. given.failures : p[m] = NoId \/ Success(p[m])
  BY <1>2 DEF Judged
<1> QED
  BY <1>2, <1>3

LEMMA DueStays ==
  ASSUME TypeOK, TypeOK', Evolves, NEW i \in Id, FiledSound(i), Known(i)
  PROVE  /\ Past(i) => Past(i)'
         /\ Due(i) => Due(i)'
         /\ Succeeded(i) => Succeeded(i)'
<1>1. /\ Known(i)' /\ job'[i].occ = job[i].occ
      /\ given' = given /\ now <= now'
  BY DEF Evolves
<1>2. Past(i) => Past(i)'
  <2>1. PICK o \in Occurrences : o = job[i].occ /\ o = job'[i].occ
    BY <1>1, JobShape
  <2>2. ASSUME Past(i), o.prev # NoId
        PROVE  Closed(o.prev)'
    <3>1. o.prev \in Id /\ Known(o.prev) /\ Closed(o.prev)
      BY <2>1, <2>2, JobShape DEF Past, FiledSound
    <3> QED
      BY <3>1 DEF Evolves, Closed
  <2> QED
    BY <2>1, <2>2 DEF Past, Closed
<1>3. now \in Nat /\ now' \in Nat /\ job[i].occ.at \in Nat /\ given.end \in Nat
  BY CaseFacts, JobShape DEF TypeOK
<1>4. Due(i) => Due(i)'
  BY <1>1, <1>2, <1>3 DEF Due
<1>5. Succeeded(i) => Succeeded(i)'
  <2>1. ASSUME NEW k \in Id, job[k].status # "none", job[k].occ.prev = i
        PROVE  Succeeded(i)'
    BY <2>1 DEF Succeeded, Evolves, Known
  <2>2. ASSUME NextFire(job[i].occ.trigger, now) = {}
        PROVE  Succeeded(i)'
    <3>1. PICK t : t = job[i].occ.trigger /\ t = job'[i].occ.trigger
      BY <1>1
    <3>2. PICK u \in Nat : u = now' /\ now <= u
      BY <1>1, <1>3
    <3>3. NextFire(t, u) = {}
      BY <1>3, <2>2, <3>1, <3>2, FireEnds
    <3>4. NextFire(t, u)' = NextFire(t, u)
      BY <1>1 DEF NextFire, UpToEnd
    <3> QED
      BY <3>1, <3>2, <3>3, <3>4 DEF Succeeded, NextFire, UpToEnd, BoundaryAfter
  <2> QED
    BY <2>1, <2>2 DEF Succeeded
<1> QED
  BY <1>2, <1>4, <1>5

LEMMA CurrentStays ==
  ASSUME TypeOK, TypeOK', Evolves, NEW i, NEW g \in Nat, Current(g, i)
  PROVE  Current(g, i)'
  BY CaseFacts DEF Current, Evolves, TypeOK, ScheduleRow, Generation

LEMMA FiledStays ==
  ASSUME TypeOK, TypeOK', Evolves, \A i \in Id : FiledSound(i), NEW i \in Id, Known(i)
  PROVE  FiledSound(i)'
<1>1. PICK o \in Occurrences : o = job[i].occ /\ o = job'[i].occ
  BY JobShape DEF Evolves
<1>2. o.prev \in Id \cup {NoId} /\ o.gen \in Nat
  BY <1>1, JobShape
<1>3. FiledSound(i)
  OBVIOUS
<1>4. /\ Current(o.gen, i)
      /\ o.prev # NoId => Known(o.prev) /\ Past(o.prev)
      /\ Tells(o.bits, o.prev, given.failures - 1)
  BY <1>1, <1>3 DEF FiledSound
<1>5. Current(o.gen, i)'
  BY <1>2, <1>4, CurrentStays
<1>6. o.prev # NoId => Known(o.prev)' /\ Past(o.prev)'
  BY <1>2, <1>4, DueStays DEF Evolves
<1>7. Tells(o.bits, o.prev, given.failures - 1)'
  BY <1>2, <1>4, TellsStays
<1>8. story'[i].content # "none"
  BY <1>3 DEF FiledSound, Evolves
<1> QED
  BY <1>1, <1>5, <1>6, <1>7, <1>8 DEF FiledSound, Current, Known, Past, Closed, Tells,
     Windowed, Chain, Success

LEMMA IdleFacts ==
  /\ Idle \in CallState /\ CallSound(Idle) /\ Idle.pc = "idle" /\ Idle.job = NoId
  /\ NoOccurrence \in Occurrences
<1>1. NoOccurrence \in Occurrences
  <2>1. 0 \in Generation /\ 0 \in Time
    BY ScheduleAssumption DEF Generation, Time
  <2>2. <<>> \in Bits
    BY DEF Bits
  <2> QED
    BY <2>1, <2>2 DEF NoOccurrence, Occurrence, Occurrences
<1>2. Idle \in CallState
  BY <1>1 DEF Idle, CallState, PC
<1> QED
  BY <1>1, <1>2 DEF Idle, CallSound, Filing

\* What a caller has found out still holds when it goes on.
LEMMA CallStays ==
  ASSUME TypeOK, TypeOK', Evolves, \A i \in Id : FiledSound(i), NEW k \in CallState,
         CallSound(k)
  PROVE  CallSound(k)'
<1>1. /\ k.job \in Id \cup {NoId} /\ k.id \in Id \cup {NoId} /\ k.occ.gen \in Nat
      /\ sched.gen \in Nat /\ sched'.gen \in Nat /\ given' = given
  BY CaseFacts, ScheduleAssumption
     DEF CallState, Occurrences, Generation, TypeOK, ScheduleRow, Evolves
<1>2. Filing(k) =>
        /\ Current(k.occ.gen, k.id)'
        /\ Tells(k.occ.bits, k.job, given.failures - 1)'
        /\ k.pc = "row" => story'[k.id].content # "none"
  <2> SUFFICES ASSUME Filing(k)
               PROVE  /\ Current(k.occ.gen, k.id)'
                      /\ Tells(k.occ.bits, k.job, given.failures - 1)'
                      /\ k.pc = "row" => story'[k.id].content # "none"
    OBVIOUS
  <2>1. /\ Current(k.occ.gen, k.id) /\ Tells(k.occ.bits, k.job, given.failures - 1)
        /\ k.pc # "idle" /\ k.id \in Id
        /\ k.pc = "row" => story[k.id].content # "none"
    BY <1>1 DEF CallSound, Filing
  <2>2. k.job # NoId => k.job \in Id /\ Known(k.job) /\ Past(k.job)
    BY <1>1, <2>1 DEF CallSound, Due
  <2>3. Current(k.occ.gen, k.id)'
    BY <1>1, <2>1, CurrentStays
  <2>4. Tells(k.occ.bits, k.job, given.failures - 1)'
    BY <2>1, <2>2, TellsStays
  <2> QED
    BY <2>1, <2>3, <2>4 DEF Evolves
<1>3. ASSUME k.job # NoId, k.pc # "idle"
      PROVE  /\ Due(k.job)'
             /\ ~k.fresh => ~Wanted(job[k.job].occ)'
             /\ k.pc = "history" \/ Filing(k) =>
                  /\ k.fresh
                  /\ (job[k.job].occ.gen = sched.gen => sched.state = "active")'
             /\ Filing(k) => Judged(k.job)'
             /\ (k.pc = "granted" /\ story[k.job].content = "start" =>
                   k.fresh /\ Succeeded(k.job) /\ Judged(k.job))'
  <2>1. PICK j \in Id : j = k.job
    BY <1>1, <1>3
  <2>2. Due(j) /\ Known(j) /\ Past(j) /\ FiledSound(j)
    BY <1>3, <2>1 DEF CallSound, Due
  <2>3. PICK o \in Occurrences : o = job[j].occ /\ o = job'[j].occ
    BY <2>2, JobShape DEF Evolves
  <2>4. o.gen \in Nat /\ o.gen <= sched.gen
    BY <1>1, <2>2, <2>3 DEF FiledSound, Current
  <2>5. Due(j)'
    BY <2>2, DueStays
  <2>6. ~k.fresh => ~Wanted(o)'
    BY <1>1, <1>3, <2>1, <2>3, <2>4 DEF CallSound, Wanted, Evolves
  <2>7. k.pc = "history" \/ Filing(k) =>
          k.fresh /\ (o.gen = sched'.gen => sched'.state = "active")
    BY <1>1, <1>3, <2>1, <2>3, <2>4 DEF CallSound, Evolves
  <2>8. Judged(j) => Judged(j)'
    BY <2>2, JudgedStays
  <2>9. Filing(k) => Judged(j)
    BY <1>3, <2>1 DEF CallSound
  <2>10. story'[j].content = "start" => story[j].content = "start"
    BY <2>2 DEF FiledSound, Evolves
  <2>11. k.pc = "granted" /\ story'[j].content = "start" =>
           k.fresh /\ Succeeded(j)' /\ Judged(j)'
    <3> SUFFICES ASSUME k.pc = "granted", story'[j].content = "start"
                 PROVE  k.fresh /\ Succeeded(j)' /\ Judged(j)'
      OBVIOUS
    <3>1. k.fresh /\ Succeeded(j) /\ Judged(j)
      BY <1>3, <2>1, <2>10 DEF CallSound
    <3> QED
      BY <2>2, <2>8, <3>1, DueStays
  <2> QED
    BY <2>1, <2>3, <2>5, <2>6, <2>7, <2>8, <2>9, <2>11 DEF Wanted
<1>4. /\ k.pc \in {"count", "check", "history", "refuse", "archive", "granted"}
           => k.job # NoId
      /\ Filing(k) => k.id # NoId /\ k.occ.prev = k.job
  BY DEF CallSound
<1> QED
  BY <1>1, <1>2, <1>3, <1>4 DEF CallSound, Wanted

\* One caller goes on, and knows what its new place asks for.
Moves ==
  \/ call' = call
  \/ \E c \in Caller, k \in CallState :
       /\ call' = [call EXCEPT ![c] = k]
       /\ CallSound(k) \/ CallSound(k)'

LEMMA TypeHolds ==
  ASSUME TypeOK, Moves, given' = given, now' \in 0 .. given.end, sched' \in ScheduleRow,
         story' \in [Id -> [content : Content, prev : Id \cup {NoId}]],
         DOMAIN job' = Id, \A i \in Id : job'[i] \in JobRow
  PROVE  TypeOK'
<1>1. DOMAIN call' = Caller /\ \A c \in Caller : call'[c] \in CallState
  BY DEF TypeOK, Moves
<1> QED
  BY <1>1 DEF TypeOK

LEMMA StepHolds ==
  ASSUME IInv, TypeOK', Evolves, Moves, sched'.exists => sched'.gen >= 1,
         \A i \in Id : ~Known(i) /\ Known(i)' => FiledSound(i)',
         \A i \in Id : story'[i] = story[i] \/ StartedSound(i)',
         \A i \in Id : LeaseSound(i)'
  PROVE  IInv'
<1>1. TypeOK /\ (\A i \in Id : FiledSound(i) /\ StartedSound(i))
        /\ \A c \in Caller : CallSound(call[c])
  BY DEF IInv, TypeOK
<1>2. ASSUME NEW i \in Id
      PROVE  FiledSound(i)'
  <2>1. CASE Known(i)
    BY <1>1, <2>1, FiledStays
  <2>2. CASE ~Known(i) /\ Known(i)'
    BY <2>2
  <2>3. CASE ~Known(i)'
    BY <2>3 DEF FiledSound
  <2> QED
    BY <2>1, <2>2, <2>3
<1>3. ASSUME NEW i \in Id
      PROVE  StartedSound(i)'
  <2>1. CASE story'[i] = story[i]
    <3> SUFFICES ASSUME story[i].content \in {"work", "refused", "rework"}
                 PROVE  Due(i)' /\ (story[i].content = "work" => Succeeded(i)' /\ Judged(i)')
      BY <2>1 DEF StartedSound
    <3>1. Due(i) /\ Known(i) /\ Past(i) /\ FiledSound(i)
      BY <1>1 DEF StartedSound, Due
    <3>2. story[i].content = "work" => Succeeded(i) /\ Judged(i)
      BY <1>1 DEF StartedSound
    <3> QED
      BY <1>1, <3>1, <3>2, DueStays, JudgedStays
  <2>2. CASE StartedSound(i)'
    BY <2>2
  <2> QED
    BY <2>1, <2>2
<1>4. ASSUME NEW c \in Caller, NEW k \in CallState, call'[c] = k
      PROVE  CallSound(k)'
  <2>1. k = call[c] \/ CallSound(k) \/ CallSound(k)'
    BY <1>1, <1>4 DEF Moves, TypeOK
  <2> QED
    BY <1>1, <2>1, CallStays
<1> QED
  BY <1>2, <1>3, <1>4 DEF IInv

\* A caller that reads, or ends
LEMMA ReadHolds ==
  ASSUME IInv, NEW c \in Caller, NEW k \in CallState, CallSound(k),
         call' = [call EXCEPT ![c] = k], UNCHANGED <<given, now, sched, story, job>>
  PROVE  IInv'
<1>1. TypeOK /\ (\A i \in Id : LeaseSound(i)) /\ (sched.exists => sched.gen >= 1)
  BY DEF IInv
<1>2. Moves
  BY DEF Moves
<1>3. TypeOK'
  BY <1>1, <1>2 DEF TypeOK, Moves
<1>4. Evolves
  BY <1>1, CaseFacts DEF Evolves, Known, Closed
<1>5. (\A i \in Id : LeaseSound(i)') /\ \A i \in Id : ~(~Known(i) /\ Known(i)')
  BY <1>1 DEF LeaseSound, Known
<1> QED
  BY <1>1, <1>2, <1>3, <1>4, <1>5, StepHolds

LEMMA FailHolds ==
  ASSUME IInv, NEW c \in Caller, Fail(c), UNCHANGED <<given, now, sched, story, job>>
  PROVE  IInv'
  BY IdleFacts, ReadHolds DEF Fail

\* What holds of a caller
LEMMA CallerFacts ==
  ASSUME IInv, NEW c \in Caller
  PROVE  /\ TypeOK /\ call[c] \in CallState /\ CallSound(call[c])
         /\ call[c].job \in Id \cup {NoId} /\ call[c].id \in Id \cup {NoId}
         /\ call[c].occ \in Occurrences /\ call[c].fresh \in BOOLEAN
  BY DEF IInv, TypeOK, CallState

LEMMA GotoFacts ==
  ASSUME IInv, NEW c \in Caller, NEW pc \in PC, Goto(c, pc)
  PROVE  \E k \in CallState :
           /\ call' = [call EXCEPT ![c] = k]
           /\ k.pc = pc /\ k.job = call[c].job /\ k.id = call[c].id
           /\ k.occ = call[c].occ /\ k.fresh = call[c].fresh
<1> DEFINE w == [call[c] EXCEPT !.pc = pc]
<1>1. /\ w \in CallState
      /\ w.pc = pc /\ w.job = call[c].job /\ w.id = call[c].id
      /\ w.occ = call[c].occ /\ w.fresh = call[c].fresh
  BY CallerFacts DEF CallState
<1>2. call' = [call EXCEPT ![c] = w]
  BY DEF Goto
<1> QED
  BY <1>1, <1>2

-----------------------------------------------------------------------------
(* The preflight of a lease                                                *)

LEMMA CountHolds ==
  ASSUME IInv, NEW w \in Worker, CountChapters(w)
  PROVE  IInv'
<1> DEFINE pc == IF story[call[w].job].content = "start" THEN "check" ELSE "granted"
<1>1. w \in Caller /\ pc \in PC /\ Goto(w, pc) /\ call[w].pc = "count"
  BY DEF CountChapters, Caller, PC
<1>2. PICK k \in CallState :
        /\ call' = [call EXCEPT ![w] = k]
        /\ k.pc = pc /\ k.job = call[w].job /\ k.fresh = call[w].fresh
  BY <1>1, GotoFacts
<1>3. CallSound(k)
  BY <1>1, <1>2, CallerFacts DEF CallSound, Filing
<1> QED
  BY <1>1, <1>2, <1>3, ReadHolds DEF CountChapters

LEMMA LoadHolds ==
  ASSUME IInv, NEW w \in Worker, LoadSchedule(w)
  PROVE  IInv'
<1> DEFINE pc == IF Wanted(job[call[w].job].occ) THEN "history" ELSE "refuse"
<1>1. w \in Caller /\ pc \in PC /\ Goto(w, pc) /\ call[w].pc = "check"
  BY DEF LoadSchedule, Caller, PC
<1>2. PICK k \in CallState :
        /\ call' = [call EXCEPT ![w] = k]
        /\ k.pc = pc /\ k.job = call[w].job /\ k.fresh = call[w].fresh
  BY <1>1, GotoFacts
<1>3. /\ call[w].job # NoId /\ Due(call[w].job)
      /\ ~call[w].fresh => ~Wanted(job[call[w].job].occ)
  BY <1>1, CallerFacts DEF CallSound
<1>4. CASE Wanted(job[call[w].job].occ)
  <2>1. k.fresh /\ sched.state = "active"
    BY <1>2, <1>3, <1>4 DEF Wanted
  <2>2. CallSound(k)
    BY <1>2, <1>3, <1>4, <2>1 DEF CallSound, Filing
  <2> QED
    BY <1>1, <1>2, <2>2, ReadHolds DEF LoadSchedule
<1>5. CASE ~Wanted(job[call[w].job].occ)
  <2>1. CallSound(k)
    BY <1>2, <1>3, <1>5 DEF CallSound, Filing
  <2> QED
    BY <1>1, <1>2, <2>1, ReadHolds DEF LoadSchedule
<1> QED
  BY <1>4, <1>5

\* Seen from the occurrence before, the chain is one shorter.
LEMMA ChainTail ==
  ASSUME TypeOK, \A i \in Id : FiledSound(i), NEW p \in Chain, p[1] # NoId,
         given.failures >= 1
  PROVE  \E q \in Chain : \A n \in 1 .. given.failures : q[n - 1] = p[n]
<1> DEFINE f == given.failures
           last == IF p[f] = NoId THEN NoId ELSE job[p[f]].occ.prev
           q == [n \in 0 .. f |-> IF n < f THEN p[n + 1] ELSE last]
<1>1. f \in Nat /\ f >= 1 /\ f \in 0 .. f
  BY CaseFacts
<1>2. /\ \A n \in 0 .. f : p[n] \in Id \cup {NoId}
      /\ \A n \in 0 .. f : p[n] # NoId => Known(p[n]) /\ p[n] \in Id
      /\ \A n \in 1 .. f : p[n] = IF p[n - 1] = NoId THEN NoId ELSE job[p[n - 1]].occ.prev
      /\ \A n \in 0 .. f : \A m \in 0 .. n : p[n] # NoId => p[m] # NoId
  BY ChainShape
<1>3. last \in Id \cup {NoId} /\ (last # NoId => Known(last) /\ p[f] # NoId)
  <2>1. CASE p[f] = NoId
    BY <2>1
  <2>2. CASE p[f] # NoId
    BY <1>1, <1>2, <2>2, JobShape DEF FiledSound
  <2> QED
    BY <2>1, <2>2
<1>4. \A n \in 0 .. f : q[n] = IF n < f THEN p[n + 1] ELSE last
  OBVIOUS
<1>5. \A n \in 1 .. f : q[n - 1] = p[n]
  BY <1>1, <1>4
<1>6. \A n \in 0 .. f : n < f => n + 1 \in 0 .. f /\ n + 1 \in 1 .. f
  BY <1>1
<1>7. /\ q \in [0 .. f -> Id \cup {NoId}]
      /\ \A n \in 0 .. f : q[n] # NoId => Known(q[n])
  BY <1>2, <1>3, <1>6
<1>8. \A n \in 1 .. f : q[n] = IF q[n - 1] = NoId THEN NoId ELSE job[q[n - 1]].occ.prev
  <2> SUFFICES ASSUME NEW n \in 1 .. f
               PROVE  q[n] = IF q[n - 1] = NoId THEN NoId ELSE job[q[n - 1]].occ.prev
    OBVIOUS
  <2> HIDE DEF q
  <2>3. ASSUME q[n] = IF p[n] = NoId THEN NoId ELSE job[p[n]].occ.prev
        PROVE  q[n] = IF q[n - 1] = NoId THEN NoId ELSE job[q[n - 1]].occ.prev
    BY <1>5, <2>3
  <2>1. CASE n < f
    <3>1. q[n] = p[n + 1] /\ n + 1 \in 1 .. f /\ (n + 1) - 1 = n
      BY <1>1, <1>4, <2>1
    <3> QED
      BY <1>2, <2>3, <3>1
  <2>2. CASE n = f
    BY <1>1, <1>4, <2>2, <2>3
  <2> QED
    BY <1>1, <2>1, <2>2
<1>9. \A n \in 0 .. f : \A m \in 0 .. n : q[n] # NoId => q[m] # NoId
  <2> SUFFICES ASSUME NEW n \in 0 .. f, NEW m \in 0 .. n, q[n] # NoId
               PROVE  q[m] # NoId
    OBVIOUS
  <2>1. CASE n < f
    <3>1. n + 1 \in 0 .. f /\ m + 1 \in 0 .. n + 1 /\ m < f /\ m \in 0 .. f
      BY <1>1, <2>1
    <3> QED
      BY <1>2, <1>4, <2>1, <3>1
  <2>2. CASE n = f /\ m < f
    <3>1. m + 1 \in 0 .. f /\ m \in 0 .. f /\ p[f] # NoId
      BY <1>1, <1>3, <1>4, <2>2
    <3> QED
      BY <1>1, <1>2, <1>4, <2>2, <3>1
  <2>3. CASE n = f /\ m = f
    BY <2>3
  <2> QED
    BY <1>1, <2>1, <2>2, <2>3
<1> HIDE DEF q
<1>10. q \in Chain
  BY <1>7, <1>8, <1>9 DEF Chain
<1> QED
  BY <1>5, <1>10

\* With the outcome of the previous occurrence, the history tells of one more.
LEMMA HistoryTells ==
  ASSUME TypeOK, \A i \in Id : FiledSound(i), NEW j \in Id, Known(j)
  PROVE  /\ History(job[j].occ) \in Bits
         /\ Tells(History(job[j].occ), j, given.failures)
<1> DEFINE o == job[j].occ
           h == History(o)
           w == WindowSize(o.bits)
<1>1. /\ given.failures \in Nat /\ given.window \in Nat
      /\ o.bits \in Bits /\ o.prev \in Id \cup {NoId} /\ Len(o.bits) \in Nat
  BY CaseFacts, JobShape, LenProperties DEF Bits
<1>2. Tells(o.bits, o.prev, given.failures - 1)
  BY DEF FiledSound
<1>3. CASE o.prev = NoId
  <2>1. h = o.bits
    BY <1>3 DEF History
  <2>2. ASSUME NEW p \in Chain, p[0] = j, NEW m \in 1 .. given.failures
        PROVE  p[m] = NoId
    <3>1. /\ 1 \in 1 .. given.failures /\ m \in 0 .. given.failures /\ 1 \in 0 .. m
          /\ 0 \in 0 .. given.failures
      BY <1>1
    <3>2. p[1] = NoId
      BY <1>3, <2>2, <3>1 DEF Chain
    <3> QED
      BY <3>1, <3>2, ChainShape
  <2> QED
    BY <1>1, <2>1, <2>2 DEF Tells
<1>4. CASE o.prev # NoId
  <2> DEFINE ok == job[o.prev].status = "success"
  <2>1. h = AppendBit(o.bits, ok, w) /\ ok \in BOOLEAN
    BY <1>4 DEF History
  <2>2. w \in Nat /\ w = IF given.window > 0 THEN given.window ELSE Len(o.bits)
    BY <1>1 DEF WindowSize
  <2> HIDE DEF w, h, o, ok
  <2>3. /\ h \in Bits
        /\ Len(h) = IF w > 0 /\ Len(o.bits) + 1 > w THEN w ELSE Len(o.bits) + 1
        /\ \A n \in 1 .. Len(h) :
             h[n] = IF n = Len(h) THEN ok ELSE o.bits[Len(o.bits) - Len(h) + 1 + n]
    <3>1. Extends(AppendBit(o.bits, ok, w), o.bits, ok, w)
      BY <1>1, <2>1, <2>2, AppendBitFacts
    <3> QED
      BY <2>1, <3>1 DEF Extends
  <2>4. Len(h) \in Nat /\ Len(h) >= 1
    BY <1>1, <2>2, <2>3
  <2>5. ASSUME Windowed, NEW p \in Chain, p[0] = j, NEW m \in 1 .. given.failures,
               p[m] # NoId
        PROVE  m <= Len(h) /\ (h[Len(h) - m + 1] <=> Success(p[m]))
    <3>1. /\ given.failures >= 1 /\ 1 \in 1 .. given.failures /\ m \in 0 .. given.failures
          /\ 0 \in 0 .. given.failures
      BY <1>1
    <3>2. p[1] = o.prev
      BY <2>5, <3>1, ChainShape DEF o
    <3>3. CASE m = 1
      <4>1. h[Len(h)] = ok
        BY <2>3, <2>4
      <4>2. Len(h) - m + 1 = Len(h)
        BY <2>4, <3>3
      <4>3. h[Len(h) - m + 1] = ok
        BY <4>1, <4>2
      <4>4. ok <=> Success(p[m])
        BY <3>2, <3>3 DEF ok, Success
      <4> QED
        BY <2>4, <3>3, <4>3, <4>4
    <3>4. CASE m # 1
      <4>1. PICK q \in Chain : \A n \in 1 .. given.failures : q[n - 1] = p[n]
        BY <1>4, <3>1, <3>2, ChainTail
      <4>2. q[0] = o.prev /\ q[m - 1] = p[m]
        BY <3>1, <3>2, <4>1
      <4>3. m - 1 \in 1 .. given.failures - 1
        BY <1>1, <3>4
      <4>4. PICK l \in 1 .. given.failures - 1 : l = m - 1
        BY <4>3
      <4>5. l <= Len(o.bits) /\ (o.bits[Len(o.bits) - l + 1] <=> Success(q[l]))
        BY <1>2, <2>5, <4>2, <4>4 DEF Tells, o
      <4>6. given.window >= given.failures /\ w = given.window
        BY <1>1, <2>2, <2>5, <3>4 DEF Windowed
      <4>7. m <= Len(h) /\ m <= Len(o.bits) + 1
        BY <1>1, <2>2, <2>3, <4>4, <4>5, <4>6
      <4>8. PICK a \in Nat, b \in Nat : a = Len(h) /\ b = Len(o.bits)
        BY <1>1, <2>4
      <4>9. m \in Nat /\ m <= a /\ m > 1 /\ l = m - 1 /\ l <= b
        BY <1>1, <3>4, <4>4, <4>5, <4>7, <4>8
      <4>10. /\ a - m + 1 \in 1 .. a /\ a - m + 1 # a
             /\ b - a + 1 + (a - m + 1) = b - l + 1
        BY <4>9
      <4>11. h[a - m + 1] = o.bits[b - a + 1 + (a - m + 1)]
        BY <2>3, <4>8, <4>10
      <4>12. h[a - m + 1] = o.bits[b - l + 1]
        BY <4>10, <4>11
      <4> QED
        BY <4>2, <4>4, <4>5, <4>7, <4>8, <4>12
    <3> QED
      BY <3>3, <3>4
  <2>6. Tells(h, j, given.failures)
    BY <2>5 DEF Tells
  <2> QED
    BY <2>3, <2>6 DEF h, o
<1> QED
  BY <1>3, <1>4

\* A history that does not violate the policy knows a success, or the chain is
\* too short.
LEMMA HistoryJudges ==
  ASSUME TypeOK, NEW j, NEW h \in Bits, Tells(h, j, given.failures), ~PolicyViolated(h)
  PROVE  Judged(j)
<1>1. given.failures \in Nat /\ Len(h) \in Nat /\ h \in Seq(BOOLEAN)
  BY CaseFacts, LenProperties DEF Bits
<1> SUFFICES ASSUME given.failures > 0, Windowed, NEW p \in Chain, p[0] = j,
                    \A m \in 1 .. given.failures : p[m] # NoId /\ ~Success(p[m])
             PROVE  FALSE
  BY DEF Judged
<1>2. \A m \in 1 .. given.failures : m <= Len(h) /\ ~h[Len(h) - m + 1]
  BY DEF Tells
<1>3. given.failures <= Len(h)
  BY <1>1, <1>2
<1>4. ASSUME NEW i \in Len(h) - given.failures + 1 .. Len(h)
      PROVE  ~h[i]
  <2>1. Len(h) - i + 1 \in 1 .. given.failures
    BY <1>1
  <2>2. PICK m \in 1 .. given.failures : m = Len(h) - i + 1
    BY <2>1
  <2>3. Len(h) - m + 1 = i
    BY <1>1, <2>2
  <2> QED
    BY <1>2, <2>2, <2>3
<1> QED
  BY <1>1, <1>3, <1>4 DEF PolicyViolated

LEMMA IdFacts ==
  /\ \A g \in 1 .. MaxGeneration, t \in Time : RunId(g, t) \in Id
  /\ \A r \in Request : ManualId(r) \in Id
  /\ NoId \notin Id
  BY NoIdAssumption DEF Id

LEMMA TriggerFacts ==
  ASSUME TypeOK, NEW k, NEW t \in Nat
  PROVE  NextFire(k, t) \subseteq Time /\ InitialFire(k, t) \subseteq Time
<1>1. given.end \in 0 .. MaxTime /\ MaxTime \in Nat
  BY CaseFacts, ScheduleAssumption
<1>2. \A v : UpToEnd(v) \subseteq Time
  BY <1>1 DEF UpToEnd, Time
<1> QED
  BY <1>2 DEF NextFire, InitialFire

LEMMA JudgeHolds ==
  ASSUME IInv, NEW w \in Worker, JudgeHistory(w)
  PROVE  IInv'
<1> DEFINE j == call[w].job
           o == job[j].occ
           next == NextFire(o.trigger, now)
<1>1. /\ w \in Caller /\ call[w].pc = "history"
      /\ TypeOK /\ (\A i \in Id : FiledSound(i) /\ StartedSound(i))
      /\ UNCHANGED <<given, now, sched, story, job>>
  BY DEF JudgeHistory, Caller, IInv
<1>2. /\ j \in Id /\ j # NoId /\ Due(j) /\ call[w].fresh
      /\ o.gen = sched.gen => sched.state = "active"
      /\ call[w] \in CallState
  BY <1>1, CallerFacts DEF CallSound
<1>3. Known(j) /\ FiledSound(j)
  BY <1>1, <1>2 DEF Due
<1>4. History(o) \in Bits /\ Tells(History(o), j, given.failures)
  BY <1>1, <1>2, <1>3, HistoryTells
<1>5. CASE PolicyViolated(History(o))
  <2>1. Goto(w, "refuse")
    BY <1>5 DEF JudgeHistory
  <2>2. PICK k \in CallState :
          call' = [call EXCEPT ![w] = k] /\ k.pc = "refuse" /\ k.job = j /\ k.fresh = call[w].fresh
    BY <1>1, <2>1, GotoFacts DEF PC
  <2>3. CallSound(k)
    BY <1>2, <2>2 DEF CallSound, Filing
  <2> QED
    BY <1>1, <2>2, <2>3, ReadHolds
<1>6. CASE ~PolicyViolated(History(o)) /\ next = {}
  <2>1. Goto(w, "granted")
    BY <1>6 DEF JudgeHistory
  <2>2. PICK k \in CallState :
          call' = [call EXCEPT ![w] = k] /\ k.pc = "granted" /\ k.job = j /\ k.fresh = call[w].fresh
    BY <1>1, <2>1, GotoFacts DEF PC
  <2>3. Judged(j)
    BY <1>1, <1>4, <1>6, HistoryJudges
  <2>4. Succeeded(j)
    BY <1>6 DEF Succeeded
  <2>5. CallSound(k)
    BY <1>2, <2>2, <2>3, <2>4 DEF CallSound, Filing
  <2> QED
    BY <1>1, <2>2, <2>5, ReadHolds
<1>7. CASE ~PolicyViolated(History(o)) /\ next # {}
  <2>1. PICK t \in next :
          call' = [call EXCEPT ![w] =
            [@ EXCEPT !.pc = "story", !.id = RunId(o.gen, t),
               !.occ = Occurrence(o.gen, o.trigger, t, j, History(o))]]
    BY <1>7 DEF JudgeHistory
  <2> DEFINE n == Occurrence(o.gen, o.trigger, t, j, History(o))
             k == [call[w] EXCEPT !.pc = "story", !.id = RunId(o.gen, t), !.occ = n]
  <2>2. t \in Time
    BY <1>1, CaseFacts, TriggerFacts
  <2>3. o.gen \in 1 .. MaxGeneration /\ o.gen \in Generation /\ Current(o.gen, RunId(o.gen, t))
    <3>1. o.gen \in 1 .. sched.gen /\ sched.gen \in 0 .. MaxGeneration
      BY <1>1, <1>3 DEF FiledSound, Current, TypeOK, ScheduleRow, Generation
    <3> QED
      BY <1>2, <3>1, ScheduleAssumption DEF Current, Generation
  <2>4. /\ n \in Occurrences /\ RunId(o.gen, t) \in Id
        /\ n.gen = o.gen /\ n.prev = j /\ n.bits = History(o)
    BY <1>1, <1>2, <1>4, <2>2, <2>3, IdFacts, JobShape DEF Occurrence, Occurrences
  <2> HIDE DEF n
  <2>5. /\ k \in CallState /\ k.pc = "story" /\ k.id = RunId(o.gen, t) /\ k.occ = n
        /\ k.job = j /\ k.fresh = call[w].fresh
    BY <1>2, <2>4 DEF CallState, PC
  <2>6. call' = [call EXCEPT ![w] = k]
    BY <2>1 DEF n
  <2> HIDE DEF k
  <2>7. Judged(j)
    BY <1>1, <1>4, <1>7, HistoryJudges
  <2>8. Tells(n.bits, j, given.failures - 1)
    BY <1>1, <1>4, <2>4, CaseFacts DEF Tells
  <2>9. CallSound(k)
    BY <1>2, <2>3, <2>4, <2>5, <2>7, <2>8, IdFacts DEF CallSound, Filing
  <2> QED
    BY <1>1, <2>5, <2>6, <2>9, ReadHolds
<1> QED
  BY <1>5, <1>6, <1>7

-----------------------------------------------------------------------------
(* Filing                                                                  *)

LEMMA CreateHolds ==
  ASSUME IInv, NEW c \in Caller, CreateStory(c)
  PROVE  IInv'
<1>1. PICK k \in CallState : k = call[c]
  BY CallerFacts
<1>2. /\ TypeOK /\ (\A i \in Id : FiledSound(i) /\ LeaseSound(i))
      /\ sched.exists => sched.gen >= 1
      /\ CallSound(k) /\ k.pc = "story" /\ k.occ.prev \in Id \cup {NoId}
      /\ UNCHANGED <<given, now, sched, job>>
  BY <1>1, CallerFacts DEF CreateStory, IInv, CallState, Occurrences
<1>3. PICK i \in Id : i = k.id
  BY <1>1, <1>2, CallerFacts DEF CallSound, Filing
<1>4. CASE story[i].content = "none"
  <2>1. /\ story' = [story EXCEPT ![i] = [content |-> "start", prev |-> k.occ.prev]]
        /\ Goto(c, "row")
    BY <1>1, <1>3, <1>4 DEF CreateStory
  <2>2. PICK n \in CallState :
          /\ call' = [call EXCEPT ![c] = n]
          /\ n.pc = "row" /\ n.job = k.job /\ n.id = k.id /\ n.occ = k.occ /\ n.fresh = k.fresh
    BY <1>1, <2>1, GotoFacts DEF PC
  <2>3. /\ story' \in [Id -> [content : Content, prev : Id \cup {NoId}]]
        /\ story'[i].content = "start" /\ \A d \in Id \ {i} : story'[d] = story[d]
    BY <1>2, <2>1 DEF TypeOK, Content
  <2>4. TypeOK'
    <3>1. DOMAIN call' = Caller /\ \A d \in Caller : call'[d] \in CallState
      BY <1>2, <2>2 DEF TypeOK
    <3> QED
      BY <1>2, <2>3, <3>1 DEF TypeOK
  <2>5. Evolves
    BY <1>2, <1>4, <2>3, CaseFacts DEF Evolves, Known, Closed
  <2>6. CallSound(k)'
    BY <1>2, <2>4, <2>5, CallStays
  <2>7. CallSound(n)'
    BY <1>2, <1>3, <2>2, <2>3, <2>6 DEF CallSound, Filing
  <2>8. Moves
    BY <2>2, <2>7 DEF Moves
  <2>9. \A d \in Id : story'[d] = story[d] \/ StartedSound(d)'
    BY <2>3 DEF StartedSound
  <2>10. \A d \in Id : LeaseSound(d)' /\ ~(~Known(d) /\ Known(d)')
    BY <1>2 DEF LeaseSound, Known
  <2> QED
    BY <1>2, <2>4, <2>5, <2>8, <2>9, <2>10, StepHolds
<1>5. CASE story[i].content # "none" /\ story[i].prev = k.occ.prev
  <2>1. UNCHANGED story /\ Goto(c, "row")
    BY <1>1, <1>3, <1>5 DEF CreateStory
  <2>2. PICK n \in CallState :
          /\ call' = [call EXCEPT ![c] = n]
          /\ n.pc = "row" /\ n.job = k.job /\ n.id = k.id /\ n.occ = k.occ /\ n.fresh = k.fresh
    BY <1>1, <2>1, GotoFacts DEF PC
  <2>3. CallSound(n)
    BY <1>2, <1>3, <1>5, <2>2 DEF CallSound, Filing
  <2> QED
    BY <1>2, <2>1, <2>2, <2>3, ReadHolds
<1>6. CASE story[i].content # "none" /\ story[i].prev # k.occ.prev
  BY <1>1, <1>2, <1>3, <1>6, FailHolds DEF CreateStory
<1> QED
  BY <1>4, <1>5, <1>6

LEMMA GrantFacts ==
  ASSUME IInv, NEW c \in Caller, Grant(c)
  PROVE  \E k \in CallState :
           /\ call' = [call EXCEPT ![c] = k]
           /\ k.pc = "granted" /\ k.job = call[c].job /\ k.fresh = call[c].fresh
<1> DEFINE w == [call[c] EXCEPT !.pc = "granted", !.id = NoId, !.occ = NoOccurrence]
<1>1. w \in CallState /\ w.pc = "granted" /\ w.job = call[c].job /\ w.fresh = call[c].fresh
  BY CallerFacts, IdleFacts DEF CallState, PC
<1>2. call' = [call EXCEPT ![c] = w]
  BY DEF Grant
<1> QED
  BY <1>1, <1>2

LEMMA EnsureHolds ==
  ASSUME IInv, NEW c \in Caller, EnsureRow(c)
  PROVE  IInv'
<1>1. PICK k \in CallState : k = call[c]
  BY CallerFacts
<1>2. /\ TypeOK /\ (\A i \in Id : FiledSound(i) /\ LeaseSound(i))
      /\ sched.exists => sched.gen >= 1
      /\ CallSound(k) /\ k.pc = "row" /\ k.occ \in Occurrences
      /\ k.occ.prev \in Id \cup {NoId} /\ k.occ.gen \in Nat
      /\ UNCHANGED <<given, now, sched, story>>
  BY <1>1, CallerFacts, ScheduleAssumption
     DEF EnsureRow, IInv, CallState, Occurrences, Generation
<1>3. PICK i \in Id : i = k.id
  BY <1>1, <1>2, CallerFacts DEF CallSound, Filing
<1>4. /\ Current(k.occ.gen, i) /\ k.occ.prev = k.job
      /\ Tells(k.occ.bits, k.job, given.failures - 1) /\ story[i].content # "none"
      /\ k.job # NoId => /\ k.job \in Id /\ Due(k.job) /\ Known(k.job) /\ Past(k.job)
                         /\ k.fresh /\ Judged(k.job)
  BY <1>2, <1>3 DEF CallSound, Filing, Due
<1>5. CASE job[i].status = "none"
  <2>1. /\ job' = [job EXCEPT ![i] = [status |-> "open", occ |-> k.occ, lease |-> NoWorker]]
        /\ Filed(c)
    BY <1>1, <1>3, <1>5 DEF EnsureRow
  <2>2. /\ DOMAIN job' = Id /\ (\A d \in Id \ {i} : job'[d] = job[d])
        /\ job'[i].status = "open" /\ job'[i].occ = k.occ /\ job'[i].lease = NoWorker
        /\ job'[i] \in JobRow
    BY <1>2, <2>1 DEF TypeOK, JobRow
  <2>3. Evolves
    BY <1>2, <1>4, <1>5, <2>2, CaseFacts DEF Evolves, Known, Closed
  <2>4. DOMAIN call' = Caller /\ \A d \in Caller : call'[d] \in CallState
    <3>1. \E n \in CallState : call' = [call EXCEPT ![c] = n]
      BY <2>1, IdleFacts, GrantFacts DEF Filed, Fail
    <3> QED
      BY <1>2, <3>1 DEF TypeOK
  <2>5. TypeOK'
    BY <1>2, <2>2, <2>4 DEF TypeOK
  <2>6. k.job # NoId => Due(k.job)' /\ Known(k.job)' /\ Past(k.job)' /\ Judged(k.job)'
    BY <1>2, <1>4, <2>3, <2>5, DueStays, JudgedStays DEF Due
  <2>7. Moves
    <3>1. CASE k.job = NoId
      BY <1>1, <2>1, <3>1, IdleFacts DEF Moves, Filed, Fail
    <3>2. CASE k.job # NoId
      <4>1. PICK n \in CallState :
              call' = [call EXCEPT ![c] = n] /\ n.pc = "granted" /\ n.job = k.job /\ n.fresh = k.fresh
        BY <1>1, <2>1, <3>2, GrantFacts DEF Filed
      <4>2. PICK j \in Id : j = k.job
        BY <1>4, <3>2
      <4>3. Succeeded(j)'
        BY <1>4, <2>2, <4>2 DEF Succeeded
      <4>4. CallSound(n)'
        BY <1>4, <2>6, <3>2, <4>1, <4>2, <4>3 DEF CallSound, Filing
      <4> QED
        BY <4>1, <4>4 DEF Moves
    <3> QED
      BY <3>1, <3>2
  <2>8. FiledSound(i)'
    <3>1. Current(k.occ.gen, i)'
      BY <1>2, <1>4, <2>3, <2>5, CurrentStays
    <3>2. Tells(k.occ.bits, k.job, given.failures - 1)'
      BY <1>2, <1>4, <2>3, <2>5, TellsStays
    <3>3. PICK o \in Occurrences : o = k.occ
      BY <1>2
    <3>4. Current(o.gen, i)' /\ Tells(o.bits, o.prev, given.failures - 1)'
      BY <1>4, <3>1, <3>2, <3>3
    <3>5. o.prev # NoId => Known(o.prev)' /\ Past(o.prev)'
      BY <1>4, <2>6, <3>3
    <3>6. o = job'[i].occ
      BY <2>2, <3>3
    <3> QED
      BY <1>2, <1>4, <3>4, <3>5, <3>6 DEF FiledSound, Current, Known, Past, Closed, Tells,
         Windowed, Chain, Success
  <2>9. \A d \in Id : /\ ~Known(d) /\ Known(d)' => FiledSound(d)'
                      /\ LeaseSound(d)'
    BY <1>2, <2>2, <2>8 DEF Known, LeaseSound
  <2> QED
    BY <1>2, <2>3, <2>5, <2>7, <2>9, StepHolds
<1>6. CASE job[i].status # "none" /\ job[i].occ = k.occ /\ k.job # NoId
  <2>1. Grant(c) /\ UNCHANGED job
    BY <1>1, <1>3, <1>6 DEF EnsureRow, Filed
  <2>2. PICK n \in CallState :
          call' = [call EXCEPT ![c] = n] /\ n.pc = "granted" /\ n.job = k.job /\ n.fresh = k.fresh
    BY <1>1, <2>1, GrantFacts
  <2>3. Succeeded(k.job)
    BY <1>4, <1>6 DEF Succeeded
  <2>4. CallSound(n)
    BY <1>4, <1>6, <2>2, <2>3 DEF CallSound, Filing
  <2> QED
    BY <1>2, <2>1, <2>2, <2>4, ReadHolds
<1>7. CASE job[i].status # "none" /\ ~(job[i].occ = k.occ /\ k.job # NoId)
  BY <1>1, <1>2, <1>3, <1>7, FailHolds DEF EnsureRow, Filed
<1> QED
  BY <1>5, <1>6, <1>7

-----------------------------------------------------------------------------
(* Leases and completion                                                   *)

\* Only rows change, and what is filed or over stays.
LEMMA RowsHold ==
  ASSUME IInv, Moves, DOMAIN job' = Id, UNCHANGED <<given, now, sched, story>>,
         \A i \in Id :
           /\ job'[i] \in JobRow /\ LeaseSound(i)'
           /\ job'[i].occ = job[i].occ /\ (Known(i) <=> Known(i)')
           /\ Closed(i) => job'[i].status = job[i].status
  PROVE  IInv'
<1>1. TypeOK /\ (sched.exists => sched.gen >= 1)
  BY DEF IInv
<1>2. TypeOK'
  BY <1>1, TypeHolds DEF TypeOK
<1>3. Evolves
  BY <1>1, CaseFacts DEF Evolves
<1> QED
  BY <1>1, <1>2, <1>3, StepHolds

LEMMA ArchiveHolds ==
  ASSUME IInv, Moves, NEW i \in Id, NEW s \in Outcome, job[i].status = "open",
         Archive(i, s), UNCHANGED <<given, now, sched, story>>
  PROVE  IInv'
<1>1. TypeOK /\ \A d \in Id : LeaseSound(d)
  BY DEF IInv
<1>2. /\ DOMAIN job' = Id /\ (\A d \in Id \ {i} : job'[d] = job[d])
      /\ job'[i] \in JobRow /\ job'[i].status = s /\ job'[i].lease = NoWorker
      /\ job'[i].occ = job[i].occ
  BY <1>1 DEF Archive, TypeOK, JobRow
<1>3. \A d \in Id : LeaseSound(d)'
  BY <1>1, <1>2 DEF LeaseSound
<1>4. s # "none" /\ ~Closed(i)
  BY DEF Outcome, Closed
<1> QED
  BY <1>1, <1>2, <1>3, <1>4, RowsHold DEF Known, Closed, TypeOK

LEMMA LeasesHold ==
  ASSUME IInv, Moves, NEW i \in Id, NEW w \in Worker \cup {NoWorker},
         job' = [job EXCEPT ![i].lease = w], w # NoWorker => job[i].status = "open",
         UNCHANGED <<given, now, sched, story>>
  PROVE  IInv'
<1>1. TypeOK /\ \A d \in Id : LeaseSound(d)
  BY DEF IInv
<1>2. /\ DOMAIN job' = Id /\ (\A d \in Id \ {i} : job'[d] = job[d])
      /\ job'[i] \in JobRow /\ job'[i].status = job[i].status /\ job'[i].lease = w
      /\ job'[i].occ = job[i].occ
  BY <1>1 DEF TypeOK, JobRow
<1>3. \A d \in Id : LeaseSound(d)'
  BY <1>1, <1>2 DEF LeaseSound
<1> QED
  BY <1>1, <1>2, <1>3, RowsHold DEF Known, Closed, TypeOK

\* Who holds a lease holds it on an occurrence that is open.
LEMMA HoldsFacts ==
  ASSUME IInv, NEW w \in Worker, Holds(w), call[w].job \in Id
  PROVE  job[call[w].job].status = "open"
  BY ScheduleAssumption DEF Holds, IInv, LeaseSound

LEMMA AcquireHolds ==
  ASSUME IInv, NEW w \in Worker, NEW i \in Id, AcquireLease(w, i)
  PROVE  IInv'
<1> DEFINE f == Wanted(job[i].occ)
           k == [Idle EXCEPT !.pc = "count", !.job = i, !.fresh = f]
<1>1. /\ w \in Caller /\ TypeOK /\ job[i].status = "open" /\ Due(i)
      /\ job' = [job EXCEPT ![i].lease = w]
      /\ call' = [call EXCEPT ![w] = k]
      /\ UNCHANGED <<given, now, sched, story>>
  BY DEF AcquireLease, Lease, Caller, IInv, Due, Known, Past
<1>2. f \in BOOLEAN
  BY DEF Wanted
<1>3. ASSUME NEW b \in BOOLEAN, NEW n, n = [Idle EXCEPT !.pc = "count", !.job = i, !.fresh = b]
      PROVE  n \in CallState /\ n.pc = "count" /\ n.job = i /\ n.fresh = b
  BY <1>3, IdleFacts DEF CallState, PC
<1> HIDE DEF f
<1>4. k \in CallState /\ k.pc = "count" /\ k.job = i /\ k.fresh = f
  BY <1>2, <1>3
<1> HIDE DEF k
<1>5. CallSound(k)
  BY <1>1, <1>4, IdFacts DEF CallSound, Filing, f
<1>6. Moves
  BY <1>1, <1>4, <1>5 DEF Moves
<1> QED
  BY <1>1, <1>6, LeasesHold

LEMMA ExpireHolds ==
  ASSUME IInv, NEW i \in Id, ExpireLease(i)
  PROVE  IInv'
  BY LeasesHold DEF ExpireLease, Moves

LEMMA CancelHolds ==
  ASSUME IInv, NEW i \in Id, CancelJob(i)
  PROVE  IInv'
  BY ArchiveHolds DEF CancelJob, Moves, Outcome

LEMMA CompleteHolds ==
  ASSUME IInv, NEW w \in Worker, NEW s \in {"success", "failed"}, Complete(w, s)
  PROVE  IInv'
<1>1. /\ w \in Caller /\ call[w].pc = "granted" /\ Holds(w) /\ Fail(w)
      /\ Archive(call[w].job, s) /\ UNCHANGED <<given, now, sched, story>>
  BY DEF Complete, Caller
<1>2. call[w].job \in Id
  BY <1>1, CallerFacts DEF CallSound
<1>3. job[call[w].job].status = "open" /\ s \in Outcome
  BY <1>1, <1>2, HoldsFacts DEF Outcome
<1>4. Moves
  BY <1>1, IdleFacts DEF Fail, Moves
<1> QED
  BY <1>1, <1>2, <1>3, <1>4, ArchiveHolds

LEMMA RefuseRowHolds ==
  ASSUME IInv, NEW w \in Worker, RefuseRow(w)
  PROVE  IInv'
<1>1. /\ w \in Caller /\ call[w].pc = "archive" /\ Fail(w)
      /\ UNCHANGED <<given, now, sched, story>>
  BY DEF RefuseRow, Caller
<1>2. call[w].job \in Id
  BY <1>1, CallerFacts DEF CallSound
<1>3. Moves
  BY <1>1, IdleFacts DEF Fail, Moves
<1>4. CASE Holds(w)
  <2>1. job[call[w].job].status = "open" /\ "cancelled" \in Outcome
    BY <1>2, <1>4, HoldsFacts DEF Outcome
  <2> QED
    BY <1>1, <1>2, <1>3, <1>4, <2>1, ArchiveHolds DEF RefuseRow
<1>5. CASE ~Holds(w)
  BY <1>1, <1>5, FailHolds DEF RefuseRow
<1> QED
  BY <1>4, <1>5

\* Only the story of one occurrence that has a start chapter changes.
LEMMA StoryHolds ==
  ASSUME IInv, Moves, NEW j \in Id, NEW content \in {"work", "refused", "rework"},
         story' = [story EXCEPT ![j].content = content],
         Due(j), content = "work" => Succeeded(j) /\ Judged(j),
         UNCHANGED <<given, now, sched, job>>
  PROVE  IInv'
<1>1. /\ TypeOK /\ (\A i \in Id : FiledSound(i) /\ LeaseSound(i))
      /\ (sched.exists => sched.gen >= 1)
  BY DEF IInv
<1>2. /\ story' \in [Id -> [content : Content, prev : Id \cup {NoId}]]
      /\ story'[j].content = content /\ \A d \in Id \ {j} : story'[d] = story[d]
  BY <1>1 DEF TypeOK, Content
<1>3. TypeOK'
  BY <1>1, <1>2, TypeHolds DEF TypeOK
<1>4. Evolves
  BY <1>1, <1>2, CaseFacts DEF Evolves, Known, Closed
<1>5. Due(j)' /\ (content = "work" => Succeeded(j)' /\ Judged(j)')
  BY <1>1, <1>3, <1>4, DueStays, JudgedStays DEF Due
<1>6. \A d \in Id : story'[d] = story[d] \/ StartedSound(d)'
  BY <1>2, <1>5 DEF StartedSound
<1>7. \A d \in Id : LeaseSound(d)' /\ ~(~Known(d) /\ Known(d)')
  BY <1>1 DEF LeaseSound, Known
<1> QED
  BY <1>1, <1>3, <1>4, <1>6, <1>7, StepHolds

LEMMA RefuseHolds ==
  ASSUME IInv, NEW w \in Worker, RefuseChapter(w)
  PROVE  IInv'
<1>1. w \in Caller /\ call[w].pc = "refuse" /\ UNCHANGED <<given, now, sched, job>>
  BY DEF RefuseChapter, Caller
<1>2. /\ call[w].job \in Id /\ Due(call[w].job)
      /\ ~call[w].fresh => ~Wanted(job[call[w].job].occ)
  BY <1>1, CallerFacts DEF CallSound
<1>3. CASE Holds(w)
  <2>1. Goto(w, "archive") /\ story' = [story EXCEPT ![call[w].job].content = "refused"]
    BY <1>3 DEF RefuseChapter
  <2>2. PICK k \in CallState :
          /\ call' = [call EXCEPT ![w] = k]
          /\ k.pc = "archive" /\ k.job = call[w].job /\ k.fresh = call[w].fresh
    BY <1>1, <2>1, GotoFacts DEF PC
  <2>3. CallSound(k)
    BY <1>2, <2>2, IdFacts DEF CallSound, Filing
  <2>4. Moves
    BY <1>1, <2>2, <2>3 DEF Moves
  <2> QED
    BY <1>1, <1>2, <2>1, <2>4, StoryHolds
<1>4. CASE ~Holds(w)
  BY <1>1, <1>4, FailHolds DEF RefuseChapter
<1> QED
  BY <1>3, <1>4

LEMMA WriteHolds ==
  ASSUME IInv, NEW w \in Worker, WriteChapter(w)
  PROVE  IInv'
<1>1. /\ w \in Caller /\ call[w].pc = "granted"
      /\ UNCHANGED <<given, now, sched, job, call>>
  BY DEF WriteChapter, Caller
<1>2. /\ call[w].job \in Id /\ Due(call[w].job)
      /\ story[call[w].job].content = "start"
           => Succeeded(call[w].job) /\ Judged(call[w].job)
  BY <1>1, CallerFacts DEF CallSound
<1>3. Moves
  BY <1>1 DEF Moves
<1>4. CASE /\ story[call[w].job].content = "start"
           /\ story' = [story EXCEPT ![call[w].job].content = "work"]
  BY <1>1, <1>2, <1>3, <1>4, StoryHolds
<1>5. CASE story' = [story EXCEPT ![call[w].job].content = "rework"]
  BY <1>1, <1>2, <1>3, <1>5, StoryHolds
<1> QED
  BY <1>4, <1>5 DEF WriteChapter

LEMMA CrashHolds ==
  ASSUME IInv, NEW c \in Caller, Crash(c)
  PROVE  IInv'
  BY FailHolds DEF Crash

LEMMA TickHolds ==
  ASSUME IInv, Tick
  PROVE  IInv'
<1>1. /\ TypeOK /\ (\A i \in Id : LeaseSound(i)) /\ (sched.exists => sched.gen >= 1)
      /\ now' = now + 1 /\ now < given.end /\ UNCHANGED <<given, sched, story, job, call>>
  BY DEF Tick, IInv
<1>2. now' \in 0 .. given.end /\ now <= now'
  BY <1>1, CaseFacts
<1>3. Moves
  BY <1>1 DEF Moves
<1>4. TypeOK'
  BY <1>1, <1>2, <1>3, TypeHolds DEF TypeOK
<1>5. Evolves
  BY <1>1, <1>2 DEF Evolves, Known, Closed
<1>6. \A d \in Id : LeaseSound(d)' /\ ~(~Known(d) /\ Known(d)')
  BY <1>1 DEF LeaseSound, Known
<1> QED
  BY <1>1, <1>3, <1>4, <1>5, <1>6, StepHolds

-----------------------------------------------------------------------------
(* Schedule operations                                                     *)

\* Before the first occurrence there is nothing to tell of.
LEMMA NothingToTell ==
  ASSUME TypeOK, NEW bits, NEW n, n = given.failures - 1
  PROVE  Tells(bits, NoId, n)
<1>1. given.failures \in Nat
  BY CaseFacts
<1>2. ASSUME NEW p \in Chain, p[0] = NoId, NEW m \in 1 .. n
      PROVE  p[m] = NoId
  <2>1. m \in 0 .. given.failures /\ 0 \in 0 .. m
    BY <1>1
  <2> QED
    BY <1>2, <2>1, ChainShape
<1> QED
  BY <1>2 DEF Tells

\* The call that files occurrence o, with id i, for an admin.
FilingCall(i, o) == [Idle EXCEPT !.pc = "story", !.id = i, !.occ = o]

LEMMA FilingFacts ==
  ASSUME NEW i \in Id, NEW o \in Occurrences
  PROVE  /\ FilingCall(i, o) \in CallState /\ FilingCall(i, o).pc = "story"
         /\ FilingCall(i, o).id = i /\ FilingCall(i, o).occ = o
         /\ FilingCall(i, o).job = NoId
<1>1. FilingCall(i, o) \in CallState
  BY IdleFacts DEF CallState, PC, FilingCall
<1>2. /\ FilingCall(i, o).pc = "story" /\ FilingCall(i, o).id = i
      /\ FilingCall(i, o).occ = o /\ FilingCall(i, o).job = NoId
  BY IdleFacts DEF CallState, FilingCall
<1> QED
  BY <1>1, <1>2

LEMMA TriggerHolds ==
  ASSUME IInv, NEW a \in Admin, NEW r \in Request, TriggerSchedule(a, r)
  PROVE  IInv'
<1> DEFINE o == Occurrence(sched.gen, sched.trigger, now, NoId, <<>>)
           k == FilingCall(ManualId(r), o)
<1>1. /\ a \in Caller /\ TypeOK /\ sched \in ScheduleRow /\ sched.exists
      /\ sched.gen \in Nat /\ sched.gen >= 1 /\ now \in Time
      /\ call' = [call EXCEPT ![a] = k]
      /\ UNCHANGED <<given, now, sched, story, job>>
  BY CaseFacts DEF TriggerSchedule, Caller, IInv, TypeOK, FilingCall
<1>2. <<>> \in Bits
  BY DEF Bits
<1>3. o \in Occurrences /\ o.gen = sched.gen /\ o.prev = NoId /\ o.bits = <<>>
  BY <1>1, <1>2 DEF Occurrence, Occurrences, ScheduleRow
<1> HIDE DEF o
<1>4. k \in CallState /\ k.pc = "story" /\ k.id = ManualId(r) /\ k.occ = o /\ k.job = NoId
  BY <1>3, IdFacts, FilingFacts
<1> HIDE DEF k
<1>5. Current(o.gen, ManualId(r))
  BY <1>1, <1>3, ScheduleAssumption DEF Current, ManualId
<1>6. Tells(o.bits, NoId, given.failures - 1)
  BY <1>1, NothingToTell
<1>7. CallSound(k)
  BY <1>3, <1>4, <1>5, <1>6, IdFacts DEF CallSound, Filing
<1> QED
  BY <1>1, <1>4, <1>7, ReadHolds

LEMMA CommitHolds ==
  ASSUME IInv, NEW a \in Admin, NEW state \in {"active", "paused", "archived"},
         NEW k \in Trigger \cup {"none"}, NEW t \in SUBSET Time,
         sched.gen < given.generations, Commit(a, Row(state, k, sched.gen + 1, t))
  PROVE  IInv'
<1> DEFINE g == sched.gen + 1
           r == Row(state, k, g, t)
<1>1. /\ a \in Caller /\ TypeOK /\ (\A i \in Id : FiledSound(i) /\ LeaseSound(i))
      /\ sched.gen \in Nat
      /\ sched' = r /\ UNCHANGED <<given, now, story, job>>
      /\ call' = [call EXCEPT ![a] =
           IF r.next = NoId THEN Idle
           ELSE [Idle EXCEPT !.pc = "story", !.id = r.next,
                   !.occ = Occurrence(r.gen, r.trigger, r.next.at, NoId, <<>>)]]
  BY CaseFacts DEF Commit, Caller, IInv
<1>2. g \in 1 .. MaxGeneration /\ g \in Generation /\ g \in Nat /\ sched.gen < g
  BY <1>1, CaseFacts, ScheduleAssumption DEF Generation
<1> HIDE DEF g
<1>3. /\ r.exists = TRUE /\ r.state = state /\ r.gen = g /\ r.trigger = k
      /\ r.next # NoId => /\ state = "active"
                          /\ \E u \in Time : r.next = RunId(g, u)
      /\ r.next \in Id \cup {NoId} /\ r \in ScheduleRow
  <2> DEFINE n == IF state = "active" /\ t # {} THEN RunId(g, CHOOSE x \in t : TRUE) ELSE NoId
  <2>1. t # {} => (CHOOSE x \in t : TRUE) \in Time
    OBVIOUS
  <2>2. /\ n # NoId => state = "active" /\ \E u \in Time : n = RunId(g, u)
        /\ n \in Id \cup {NoId}
    BY <1>2, <2>1, IdFacts
  <2> HIDE DEF n
  <2>3. r = [exists |-> TRUE, state |-> state, gen |-> g, trigger |-> k, next |-> n]
    BY DEF Row, n
  <2> QED
    BY <1>2, <2>2, <2>3 DEF ScheduleRow
<1> HIDE DEF r
<1>4. Evolves
  BY <1>1, <1>2, <1>3, CaseFacts DEF Evolves, Known, Closed
<1>5. \E n \in CallState : call' = [call EXCEPT ![a] = n] /\ CallSound(n)'
  <2>1. CASE r.next = NoId
    <3>1. CallSound(Idle)'
      BY IdleFacts DEF CallSound, Filing
    <3> QED
      BY <1>1, <2>1, <3>1, IdleFacts
  <2>2. CASE r.next # NoId
    <3>1. PICK u \in Time : r.next = RunId(g, u)
      BY <1>3, <2>2
    <3>2. PICK i \in Id : i = r.next /\ i = RunId(g, u)
      BY <1>3, <2>2, <3>1
    <3>3. PICK e : e = Occurrence(g, k, u, NoId, <<>>)
      OBVIOUS
    <3>4. <<>> \in Bits
      BY DEF Bits
    <3>5. e \in Occurrences /\ e.gen = g /\ e.prev = NoId /\ e.bits = <<>>
      BY <1>2, <3>3, <3>4 DEF Occurrence, Occurrences
    <3>6. PICK n : n = FilingCall(i, e)
      OBVIOUS
    <3>7. n \in CallState /\ n.pc = "story" /\ n.id = i /\ n.occ = e /\ n.job = NoId
      BY <3>5, <3>6, FilingFacts
    <3>8. i.at = u
      BY <3>2 DEF RunId
    <3>9. call' = [call EXCEPT ![a] = n]
      BY <1>1, <1>3, <2>2, <3>2, <3>3, <3>6, <3>8 DEF FilingCall
    <3>10. Current(e.gen, i)'
      <4>1. e.gen = sched'.gen /\ e.gen \in Nat /\ e.gen >= 1 /\ sched'.state = "active"
        BY <1>1, <1>2, <1>3, <2>2, <3>5
      <4> QED
        BY <4>1 DEF Current
    <3>11. Tells(e.bits, NoId, given.failures - 1)
      BY <1>1, NothingToTell
    <3>12. TypeOK'
      BY <1>1, <1>3, <3>7, <3>9 DEF TypeOK
    <3>13. Tells(e.bits, NoId, given.failures - 1)'
      BY <1>1, <1>4, <3>11, <3>12, TellsStays
    <3>14. CallSound(n)'
      BY <3>5, <3>7, <3>10, <3>13, IdFacts DEF CallSound, Filing
    <3> QED
      BY <3>7, <3>9, <3>14
  <2> QED
    BY <2>1, <2>2
<1>6. Moves
  BY <1>1, <1>5 DEF Moves
<1>7. TypeOK'
  BY <1>1, <1>3, <1>6, TypeHolds DEF TypeOK
<1>8. sched'.exists => sched'.gen >= 1
  BY <1>1, <1>2, <1>3
<1>9. \A d \in Id : LeaseSound(d)' /\ ~(~Known(d) /\ Known(d)')
  BY <1>1 DEF LeaseSound, Known
<1> QED
  BY <1>1, <1>4, <1>6, <1>7, <1>8, <1>9, StepHolds

LEMMA UpsertHolds ==
  ASSUME IInv, NEW a \in Admin, NEW k \in Trigger, NEW s \in {"active", "paused"},
         UpsertSchedule(a, k, s)
  PROVE  IInv'
<1>1. TypeOK /\ now \in Nat
  BY CaseFacts DEF IInv
<1>2. InitialFire(k, now) \in SUBSET Time
  BY <1>1, TriggerFacts
<1> QED
  BY <1>2, CommitHolds DEF UpsertSchedule

LEMMA MutateHolds ==
  ASSUME IInv, NEW a \in Admin, NEW s \in {"active", "paused", "archived"},
         MutateScheduleState(a, s)
  PROVE  IInv'
<1>1. TypeOK /\ now \in Nat /\ sched.trigger \in Trigger \cup {"none"}
  BY CaseFacts DEF IInv, TypeOK, ScheduleRow
<1>2. InitialFire(sched.trigger, now) \in SUBSET Time
  BY <1>1, TriggerFacts
<1> QED
  BY <1>1, <1>2, CommitHolds DEF MutateScheduleState

-----------------------------------------------------------------------------
(* The invariant is inductive                                              *)

LEMMA InitHolds ==
  ASSUME Init
  PROVE  IInv
<1>1. TypeOK
  <2>1. given \in Cases /\ given.end \in Nat /\ now = 0
    BY ScheduleAssumption DEF Init, Case
  <2>2. sched \in ScheduleRow /\ ~sched.exists
    BY ScheduleAssumption DEF Init, ScheduleRow, Generation
  <2>3. story \in [Id -> [content : Content, prev : Id \cup {NoId}]]
    BY DEF Init, Content
  <2>4. DOMAIN job = Id /\ \A i \in Id : job[i] \in JobRow
    BY IdleFacts DEF Init, NoRow, JobRow
  <2>5. DOMAIN call = Caller /\ \A c \in Caller : call[c] \in CallState
    BY IdleFacts DEF Init
  <2> QED
    BY <2>1, <2>2, <2>3, <2>4, <2>5 DEF TypeOK
<1>2. ~sched.exists
  BY DEF Init
<1>3. ASSUME NEW i \in Id
      PROVE  FiledSound(i) /\ StartedSound(i) /\ LeaseSound(i)
  BY <1>3 DEF Init, NoRow, FiledSound, StartedSound, LeaseSound, Known
<1>4. \A c \in Caller : call[c] = Idle /\ CallSound(Idle)
  BY IdleFacts DEF Init
<1> QED
  BY <1>1, <1>2, <1>3, <1>4 DEF IInv

LEMMA StepKeeps ==
  ASSUME IInv, [Next]_vars
  PROVE  IInv'
<1>1. given.triggers \subseteq Trigger /\ given.requests \subseteq Request
  BY ScheduleAssumption DEF IInv, TypeOK, Case, Trigger
<1>2. ASSUME NEW a \in Admin, NEW k \in given.triggers, NEW s \in {"active", "paused"},
             UpsertSchedule(a, k, s)
      PROVE  IInv'
  BY <1>1, <1>2, UpsertHolds
<1>3. ASSUME NEW a \in Admin, NEW s \in {"active", "paused", "archived"},
             MutateScheduleState(a, s)
      PROVE  IInv'
  BY <1>3, MutateHolds
<1>4. ASSUME NEW a \in Admin, NEW r \in given.requests, TriggerSchedule(a, r)
      PROVE  IInv'
  BY <1>1, <1>4, TriggerHolds
<1>5. ASSUME NEW c \in Caller, CreateStory(c) \/ EnsureRow(c) \/ Crash(c)
      PROVE  IInv'
  BY <1>5, CreateHolds, EnsureHolds, CrashHolds
<1>6. ASSUME NEW w \in Worker,
             \/ \E i \in Id : AcquireLease(w, i)
             \/ CountChapters(w)
             \/ LoadSchedule(w)
             \/ JudgeHistory(w)
      PROVE  IInv'
  BY <1>6, AcquireHolds, CountHolds, LoadHolds, JudgeHolds
<1>7. ASSUME NEW w \in Worker,
             \/ RefuseChapter(w)
             \/ RefuseRow(w)
             \/ WriteChapter(w)
             \/ \E s \in {"success", "failed"} : Complete(w, s)
      PROVE  IInv'
  BY <1>7, RefuseHolds, RefuseRowHolds, WriteHolds, CompleteHolds
<1>8. ASSUME NEW i \in Id, CancelJob(i) \/ ExpireLease(i)
      PROVE  IInv'
  BY <1>8, CancelHolds, ExpireHolds
<1>9. CASE Tick
  BY <1>9, TickHolds
<1>10. CASE UNCHANGED vars
  <2>1. Moves /\ DOMAIN job' = Id /\ UNCHANGED <<given, now, sched, story, job>>
    BY <1>10 DEF vars, Moves, IInv, TypeOK
  <2>2. \A i \in Id : job'[i] \in JobRow /\ LeaseSound(i)'
    BY <2>1 DEF IInv, TypeOK, LeaseSound
  <2> QED
    BY <2>1, <2>2, RowsHold DEF Known
<1> QED
  BY <1>2, <1>3, <1>4, <1>5, <1>6, <1>7, <1>8, <1>9, <1>10 DEF Next

\* What every reachable state satisfies, whatever the schedule, the callers and
\* their number: each decision of a preflight is justified when it is acted on.
THEOREM Inductive == Spec => []IInv
<1>1. Init => IInv
  BY InitHolds
<1>2. IInv /\ [Next]_vars => IInv'
  BY StepKeeps
<1> QED
  BY <1>1, <1>2, PTL DEF Spec

\* The variables keep their shapes.
THEOREM TypeCorrect == Spec => []TypeOK
<1>1. IInv => TypeOK
  BY DEF IInv
<1> QED
  BY <1>1, Inductive, PTL

\* Occurrences that depend on each other do not overlap (acquireOneLease): work on
\* one begins when its time has come and the one before it is over.
THEOREM Serial == Spec => []SerialOrder
<1>1. IInv => SerialOrder
  <2> SUFFICES ASSUME IInv, NEW i \in Id,
                      story[i].content \in {"work", "rework"}
                        \/ \E w \in Worker : call[w].pc = "granted" /\ call[w].job = i
               PROVE  Due(i)
    BY DEF SerialOrder, Due, Past
  <2>1. CASE story[i].content \in {"work", "rework"}
    BY <2>1 DEF IInv, StartedSound
  <2>2. ASSUME NEW w \in Worker, call[w].pc = "granted", call[w].job = i
        PROVE  Due(i)
    <3>1. w \in Caller
      BY DEF Caller
    <3> QED
      BY <2>2, <3>1, CallerFacts DEF CallSound
  <2> QED
    BY <2>1, <2>2
<1> QED
  BY <1>1, Inductive, PTL

\* Work on an occurrence that was let start means that the next one is filed
\* (preflightScheduleLease), so that the chain goes on without the application;
\* work behind a preflight's refusal is not spoken of.
THEOREM Successor == Spec => []WorkHasSuccessor
<1>1. IInv => WorkHasSuccessor
  BY DEF IInv, StartedSound, Succeeded, WorkHasSuccessor
<1> QED
  BY <1>1, Inductive, PTL

\* An occurrence that the schedule did not want when it was leased is not handed to
\* an application (preflightScheduleLease): the schedule cannot come to want it
\* again, because each change takes a new generation.
THEOREM Unwanted == Spec => []UnwantedNeverStarts
<1>1. IInv => UnwantedNeverStarts
  <2> SUFFICES ASSUME IInv, NEW w \in Worker, call[w].pc = "granted",
                      story[call[w].job].content = "start"
               PROVE  call[w].fresh
    BY DEF UnwantedNeverStarts
  <2>1. w \in Caller
    BY DEF Caller
  <2> QED
    BY <2>1, CallerFacts DEF CallSound
<1> QED
  BY <1>1, Inductive, PTL

\* Occurrences of the current generation exist only while the schedule is active
\* (mutateScheduleState).
THEOREM CurrentActive == Spec => []CurrentMeansActive
<1>1. IInv => CurrentMeansActive
  BY DEF IInv, FiledSound, Known, Current, CurrentMeansActive
<1> QED
  BY <1>1, Inductive, PTL

\* The failure policy (ScheduleFailurePolicyViolated) lets no occurrence start
\* that it should have blocked, on every schedule whose window, if it is given
\* one, is as long as the policy looks back.
THEOREM Policy == Spec => [](Windowed => FailurePolicyHolds)
<1>1. IInv => (Windowed => FailurePolicyHolds)
  <2> SUFFICES ASSUME IInv, Windowed, given.failures > 0,
                      NEW p \in [0 .. given.failures -> Id],
                      \A n \in 1 .. given.failures :
                        /\ p[n] = job[p[n - 1]].occ.prev
                        /\ job[p[n]].status \in Outcome \ {"success"},
                      story[p[0]].content = "work"
               PROVE  FALSE
    BY DEF FailurePolicyHolds
  <2>1. TypeOK /\ given.failures \in Nat
    BY CaseFacts DEF IInv
  <2>2. 0 \in 0 .. given.failures /\ \A n \in 1 .. given.failures : n - 1 \in 0 .. given.failures
    BY <2>1
  <2>3. PICK j \in Id : j = p[0]
    BY <2>2
  <2>4. Judged(j) /\ Known(j)
    BY <2>3 DEF IInv, StartedSound, Due
  <2>5. \A n \in 0 .. given.failures : p[n] \in Id /\ p[n] # NoId
    BY IdFacts
  <2>6. \A n \in 0 .. given.failures : Known(p[n])
    <3> SUFFICES ASSUME NEW n \in 0 .. given.failures
                 PROVE  Known(p[n])
      OBVIOUS
    <3>1. CASE n = 0
      BY <2>3, <2>4, <3>1
    <3>2. CASE n # 0
      <4>1. n \in 1 .. given.failures
        BY <2>1, <3>2
      <4> QED
        BY <4>1 DEF Known, Outcome
    <3> QED
      BY <3>1, <3>2
  <2>7. /\ p \in [0 .. given.failures -> Id \cup {NoId}]
        /\ \A n \in 1 .. given.failures :
             p[n] = IF p[n - 1] = NoId THEN NoId ELSE job[p[n - 1]].occ.prev
        /\ \A n \in 0 .. given.failures : \A m \in 0 .. n : p[n] # NoId => p[m] # NoId
    <3>1. \A n \in 0 .. given.failures : \A m \in 0 .. n : m \in 0 .. given.failures
      BY <2>1
    <3>2. p \in [0 .. given.failures -> Id \cup {NoId}]
      OBVIOUS
    <3> QED
      BY <2>2, <2>5, <3>1, <3>2
  <2>8. p \in Chain
    BY <2>6, <2>7 DEF Chain
  <2>9. PICK m \in 1 .. given.failures : p[m] = NoId \/ Success(p[m])
    BY <2>3, <2>4, <2>8 DEF Judged
  <2>10. m \in 0 .. given.failures
    BY <2>1
  <2> QED
    BY <2>5, <2>9, <2>10 DEF Success
<1> QED
  BY <1>1, Inductive, PTL
=============================================================================
