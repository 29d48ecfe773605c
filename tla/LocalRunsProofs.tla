-------------------------- MODULE LocalRunsProofs --------------------------
(***************************************************************************)
(* For any number of Attempts, keys, progress events, troubles and places  *)
(* in a subscriber's buffer: an Attempt is held once, its log and journal  *)
(* are sound, and a page sees a prefix of its events.                      *)
(***************************************************************************)
EXTENDS LocalRunsProps, FiniteSetTheorems, SequenceTheorems, TLAPS

Statuses == Incomplete \cup Terminal \cup {Absent}
Kinds == Terminal \cup {"created", "resumed", "progress"}
Reasons == {"none", "missing", "unprepared", "error"}
Events == [seq : Nat \ {0}, kind : Kinds, why : Reasons]

WorkerSteps == {"idle", "prepare", "refuse", "announce", "start", "build", "pipeline",
                "flush", "save", "complete", "fail", "failEvent",
                "down", "recover", "resume", "requeue"}
Workers == [pc : WorkerSteps, run : Runs \cup {NoRun}, why : Reasons]

StoreTypeOK ==
  /\ status \in [Runs -> Statuses]
  /\ log \in [Runs -> SUBSET Events]
  /\ result \subseteq Runs
  /\ journal \in [Runs -> Seq(Nat)]

MemoryTypeOK ==
  /\ accepted \subseteq Runs /\ queue \in Seq(Runs) /\ pending \subseteq Runs
  /\ counter \in [Runs -> Nat]
  /\ sending \in [run : Runs, event : Events] \cup {Nothing}
  /\ worker \in Workers
  /\ progress \in Nat /\ drainer \in {"off", "on", "dead"}
  /\ {crashes, faults, losses} \subseteq Nat

PageTypeOK ==
  page \in [state : {"closed", "subscribed", "replay", "live", "lost"},
            run : Runs \cup {NoRun}, after : Nat, buffer : Seq(Events),
            subscribed : BOOLEAN, replay : Seq(Events), got : Seq(Nat)]

LocalTypeOK == StoreTypeOK /\ MemoryTypeOK /\ PageTypeOK

-----------------------------------------------------------------------------
(* The parts of the inductive invariant.                                   *)

Queued == Range(queue)
Held(r) == r \in accepted \/ r \in Queued \/ r \in pending \/ r = worker.run

\* Where the worker stands and what it has in its hands.
WorkerInv ==
  /\ worker.run = NoRun <=> worker.pc \in {"idle", "down", "recover"}
  /\ worker.pc = "down" => accepted = {} /\ queue = <<>> /\ pending = {}
  /\ worker.pc \in {"down", "recover", "resume"} => sending = Nothing
  /\ drainer # "off" => worker.pc \in {"pipeline", "flush"}
  /\ worker.pc = "announce" => status[worker.run] = "failed"
  /\ worker.pc = "complete" => worker.run \in result

\* The four places that hold an Attempt are disjoint.
HeldInv ==
  /\ IsInjective(queue)
  /\ \A r \in accepted : r \notin Queued /\ r \notin pending /\ r # worker.run
  /\ \A r \in Queued : r \notin pending /\ r # worker.run
  /\ worker.run \notin pending

\* What does not exist is nowhere.
AbsentInv ==
  \A r \in Runs : status[r] = Absent =>
    ~Held(r) /\ log[r] = {} /\ r \notin result /\ sending.run # r /\ page.run # r

\* As long as no store call raised nothing that has not ended is forgotten.
KeptInv ==
  faults = 0 =>
    /\ worker.pc # "down" => \A r \in IncompleteAttempts : Held(r)
    /\ worker.pc = "failEvent" => status[worker.run] = "failed"

\* The recorder numbers what it holds beyond what is persisted, except for
\* an Attempt of which it does not know yet that it was created.
Known(r) ==
  \/ \A n \in Numbers(r) : n <= counter[r]
  \/ Numbers(r) = {1} /\ counter[r] = 0

NumberInv ==
  /\ \A r \in Runs : IsFiniteSet(log[r])
  /\ \A r \in Runs : log[r] # {} => \E n \in Numbers(r) : \A m \in Numbers(r) : m <= n
  /\ \A r \in accepted \cup Queued : Known(r)
  /\ worker.run # NoRun => Known(worker.run)
  /\ worker.pc = "resume" => \A n \in Numbers(worker.run) : n <= counter[worker.run]

\* An Attempt whose terminal event is persisted is nowhere any more.
EndInv ==
  \A r \in Runs : \A e \in log[r] :
    /\ e.kind = "completed" =>
         /\ r \in result /\ ~Held(r)
         /\ \A n \in Numbers(r) : n <= e.seq
    /\ e.kind = "failed" /\ faults = 0 =>
         /\ status[r] = "failed" /\ ~Held(r)
         /\ \A n \in Numbers(r) : n <= e.seq

JournalInv ==
  /\ JournalHoldsLogOnce
  /\ sending # Nothing =>
       /\ sending.event \in log[sending.run]
       /\ sending.event.seq \notin Range(journal[sending.run])

\* What the page has: ascending, persisted, and without gaps.
Sees(G, N) ==
  /\ \A i, j \in DOMAIN G : i < j => G[i] < G[j]
  /\ Range(G) \subseteq N
  /\ \A g \in Range(G), n \in N : n < g => n \in Range(G)

SeqsOf(s) == {s[i].seq : i \in DOMAIN s}

\* Everything persisted before an event of s is in Before or in front of it.
Continues(s, Before, N) ==
  \A i \in DOMAIN s : \A n \in N : n < s[i].seq =>
    n \in Before \/ \E j \in DOMAIN s : j < i /\ s[j].seq = n

ReplayGoesOn(s, G, N) ==
  /\ SeqsOf(s) \subseteq N
  /\ \A i \in DOMAIN s : s[i].seq \notin Range(G)
  /\ \A i, j \in DOMAIN s : s[i].seq = s[j].seq => i = j
  /\ Continues(s, Range(G), N)

\* What is persisted and has not reached a subscriber's buffer yet.
BeingSent(r) == {n \in Nat : sending # Nothing /\ sending.run = r /\ n = sending.event.seq}

OnItsWay(p, Sent) == Range(p.got) \cup SeqsOf(p.replay) \cup SeqsOf(p.buffer) \cup Sent

FollowInv(p, N, Sent) ==
  /\ Sees(p.got, N)
  /\ p.after \in {0} \cup Range(p.got)
  /\ p.state \in {"closed", "lost"} => ~p.subscribed
  /\ p.state = "live" => p.replay = <<>>
  /\ p.state = "subscribed" =>
       \A g \in Range(p.got) : g <= p.after
  /\ p.state \in {"subscribed", "replay", "live"} => SeqsOf(p.buffer) \subseteq N
  /\ p.state = "replay" => ReplayGoesOn(p.replay, p.got, N)
  /\ p.state \in {"replay", "live"} =>
       Continues(p.buffer, Range(p.got) \cup SeqsOf(p.replay), N)
  /\ p.state \in {"replay", "live"} /\ p.subscribed => N \subseteq OnItsWay(p, Sent)

PageInv ==
  IF page.run = NoRun THEN page = NoPage
  ELSE FollowInv(page, Numbers(page.run), BeingSent(page.run))

LocalInv ==
  /\ LocalTypeOK
  /\ WorkerInv
  /\ HeldInv
  /\ AbsentInv
  /\ KeptInv
  /\ NumberInv
  /\ EndInv
  /\ JournalInv
  /\ PageInv

-----------------------------------------------------------------------------
(* Ascending and InOrder.                                                  *)

Rank(S, n) == Cardinality({m \in S : m <= n})

LEMMA RankGrows ==
  ASSUME NEW S \in SUBSET Nat, IsFiniteSet(S), NEW x \in S, NEW y \in S
  PROVE  /\ Rank(S, x) \in 1..Cardinality(S)
         /\ x < y => Rank(S, x) < Rank(S, y)
<1> DEFINE Below(z) == {m \in S : m <= z}
<1>1. \A z \in S : IsFiniteSet(Below(z)) /\ Cardinality(Below(z)) \in Nat
                   /\ Cardinality(Below(z)) <= Cardinality(S)
  <2> SUFFICES ASSUME NEW z \in S
               PROVE  IsFiniteSet(Below(z)) /\ Cardinality(Below(z)) \in Nat
                      /\ Cardinality(Below(z)) <= Cardinality(S)
    OBVIOUS
  <2>1. Below(z) \in SUBSET S
    OBVIOUS
  <2>2. IsFiniteSet(Below(z)) /\ Cardinality(Below(z)) <= Cardinality(S)
    BY <2>1, FS_Subset
  <2> QED BY <2>2, FS_CardinalityType
<1>2. Cardinality(Below(x)) # 0
  <2>1. x \in Below(x)
    OBVIOUS
  <2> QED BY <2>1, <1>1, FS_EmptySet
<1>3. Cardinality(S) \in Nat
  BY FS_CardinalityType
<1>4. ASSUME x < y PROVE Cardinality(Below(x)) < Cardinality(Below(y))
  <2>1. Below(x) \in SUBSET Below(y)
    <3>1. \A m \in S : m <= x => m <= y
      <4>1. x \in Nat /\ y \in Nat /\ \A m \in S : m \in Nat
        OBVIOUS
      <4> QED BY <4>1, <1>4
    <3> QED BY <3>1
  <2>2. y \in Below(y) /\ y \notin Below(x)
    BY <1>4
  <2>3. Cardinality(Below(x)) <= Cardinality(Below(y))
        /\ (Cardinality(Below(y)) = Cardinality(Below(x)) => Below(y) = Below(x))
    BY <2>1, <1>1, FS_Subset
  <2>4. Cardinality(Below(y)) # Cardinality(Below(x))
    BY <2>2, <2>3
  <2> HIDE DEF Below
  <2> QED BY <2>3, <2>4, <1>1
<1>5. Rank(S, x) = Cardinality(Below(x)) /\ Rank(S, y) = Cardinality(Below(y))
  BY DEF Rank
<1> HIDE DEF Below
<1> QED BY <1>1, <1>2, <1>3, <1>4, <1>5

LEMMA RankIsOnto ==
  ASSUME NEW S \in SUBSET Nat, IsFiniteSet(S), NEW i \in 1..Cardinality(S)
  PROVE  \E x \in S : Rank(S, x) = i /\ \A y \in S : Rank(S, y) = i => y = x
<1> DEFINE f == [x \in S |-> Rank(S, x)]
           n == Cardinality(S)
<1>1. n \in Nat
  BY FS_CardinalityType
<1>2. f \in [S -> 1..n]
  BY RankGrows
<1>3. \A x, y \in S : Rank(S, x) = Rank(S, y) => x = y
  <2> SUFFICES ASSUME NEW x \in S, NEW y \in S, Rank(S, x) = Rank(S, y)
               PROVE  x = y
    OBVIOUS
  <2>1. x < y => Rank(S, x) < Rank(S, y)
    BY RankGrows
  <2>2. y < x => Rank(S, y) < Rank(S, x)
    BY RankGrows
  <2>3. Rank(S, x) \in 1..n /\ Rank(S, y) \in 1..n
    BY RankGrows
  <2>4. x \in Nat /\ y \in Nat
    OBVIOUS
  <2> HIDE DEF f, n
  <2> QED BY <2>1, <2>2, <2>3, <2>4, <1>1
<1>4. f \in Injection(S, 1..n)
  BY <1>2, <1>3 DEF Injection, IsInjective
<1>5. IsFiniteSet(1..n) /\ Cardinality(1..n) = n
  <2>1. IsFiniteSet(1..n) /\ Cardinality(1..n) = IF 1 > n THEN 0 ELSE n - 1 + 1
    BY <1>1, FS_Interval
  <2> HIDE DEF n
  <2> QED BY <2>1, <1>1
<1>6. Cardinality(S) = Cardinality(1..n)
  BY <1>5
<1>7. f \in Surjection(S, 1..n)
  BY <1>4, <1>5, <1>6, FS_Injection
<1>8. PICK x \in S : f[x] = i
  BY <1>7 DEF Surjection
<1> QED BY <1>8, <1>3

LEMMA AscendingIs ==
  ASSUME NEW S \in SUBSET Nat, IsFiniteSet(S)
  PROVE  /\ Cardinality(S) \in Nat
         /\ Ascending(S) \in [1..Cardinality(S) -> S]
         /\ \A i \in 1..Cardinality(S) : Rank(S, Ascending(S)[i]) = i
         /\ \A x \in S : Rank(S, x) \in 1..Cardinality(S) /\ Ascending(S)[Rank(S, x)] = x
<1> DEFINE n == Cardinality(S)
<1>1. n \in Nat
  BY FS_CardinalityType
<1>2. Ascending(S) = [i \in 1..n |-> CHOOSE x \in S : Rank(S, x) = i]
  BY DEF Ascending, Rank
<1>3. \A i \in 1..n : Ascending(S)[i] \in S /\ Rank(S, Ascending(S)[i]) = i
  <2> SUFFICES ASSUME NEW i \in 1..n
               PROVE  Ascending(S)[i] \in S /\ Rank(S, Ascending(S)[i]) = i
    OBVIOUS
  <2>1. \E x \in S : Rank(S, x) = i
    BY RankIsOnto
  <2>2. Ascending(S)[i] = CHOOSE x \in S : Rank(S, x) = i
    BY <1>2
  <2> QED BY <2>1, <2>2
<1>4. \A x \in S : Rank(S, x) \in 1..n /\ Ascending(S)[Rank(S, x)] = x
  <2> SUFFICES ASSUME NEW x \in S
               PROVE  Rank(S, x) \in 1..n /\ Ascending(S)[Rank(S, x)] = x
    OBVIOUS
  <2>1. Rank(S, x) \in 1..n
    BY RankGrows
  <2>2. PICK z \in S : Rank(S, z) = Rank(S, x) /\ \A y \in S : Rank(S, y) = Rank(S, x) => y = z
    BY <2>1, RankIsOnto
  <2>3. Ascending(S)[Rank(S, x)] \in S /\ Rank(S, Ascending(S)[Rank(S, x)]) = Rank(S, x)
    BY <2>1, <1>3
  <2> QED BY <2>1, <2>2, <2>3
<1>5. Ascending(S) \in [1..n -> S]
  BY <1>2, <1>3
<1> QED BY <1>1, <1>3, <1>4, <1>5

\* Ascending(S) is a sequence without repetitions of the elements of S.
LEMMA AscendingSequence ==
  ASSUME NEW S \in SUBSET Nat, IsFiniteSet(S)
  PROVE  /\ Ascending(S) \in Seq(Nat)
         /\ DOMAIN Ascending(S) = 1..Cardinality(S)
         /\ Len(Ascending(S)) = Cardinality(S)
         /\ Range(Ascending(S)) = S
         /\ IsInjective(Ascending(S))
<1> DEFINE A == Ascending(S)
           n == Cardinality(S)
<1>1. /\ n \in Nat /\ A \in [1..n -> S]
      /\ \A i \in 1..n : Rank(S, A[i]) = i
      /\ \A x \in S : Rank(S, x) \in 1..n /\ A[Rank(S, x)] = x
  BY AscendingIs
<1> HIDE DEF A, n
<1>2. A \in Seq(S)
  BY <1>1
<1>3. DOMAIN A = 1..n /\ Len(A) = n
  BY <1>1, <1>2
<1>4. A \in Seq(Nat)
  BY <1>2, SeqMonotonic
<1>5. Range(A) = S
  <2>1. Range(A) = {A[i] : i \in 1..n}
    BY <1>3 DEF Range
  <2>2. \A i \in 1..n : A[i] \in S
    BY <1>1
  <2>3. \A x \in S : \E i \in 1..n : x = A[i]
    BY <1>1
  <2> QED BY <2>1, <2>2, <2>3
<1>6. IsInjective(A)
  BY <1>1, <1>3 DEF IsInjective
<1> QED BY <1>3, <1>4, <1>5, <1>6 DEF A, n

\* InOrder(E) lists the numbers of E in ascending order.
LEMMA InOrderIs ==
  ASSUME NEW E \in SUBSET Events, IsFiniteSet({e.seq : e \in E})
  PROVE  /\ InOrder(E) \in Seq(Events)
         /\ SeqsOf(InOrder(E)) = {e.seq : e \in E}
         /\ \A i, j \in DOMAIN InOrder(E) :
              /\ InOrder(E)[i].seq = InOrder(E)[j].seq => i = j
              /\ InOrder(E)[i].seq < InOrder(E)[j].seq => i < j
<1> DEFINE S == {e.seq : e \in E}
           s == InOrder(E)
           n == Cardinality(S)
<1>1. S \in SUBSET Nat /\ IsFiniteSet(S)
  BY DEF Events
<1>2. /\ n \in Nat /\ Ascending(S) \in [1..n -> S]
      /\ \A i \in 1..n : Rank(S, Ascending(S)[i]) = i
      /\ \A x \in S : Rank(S, x) \in 1..n /\ Ascending(S)[Rank(S, x)] = x
  BY <1>1, AscendingIs
<1>3. s = [i \in 1..n |-> CHOOSE e \in E : e.seq = Ascending(S)[i]]
  <2>1. DOMAIN Ascending(S) = 1..n
    BY <1>2
  <2> QED BY <2>1 DEF InOrder
<1>4. \A i \in 1..n : s[i] \in E /\ s[i].seq = Ascending(S)[i]
  <2> SUFFICES ASSUME NEW i \in 1..n
               PROVE  s[i] \in E /\ s[i].seq = Ascending(S)[i]
    OBVIOUS
  <2>1. Ascending(S)[i] \in S
    BY <1>2
  <2>2. \E e \in E : e.seq = Ascending(S)[i]
    BY <2>1
  <2>3. s[i] = CHOOSE e \in E : e.seq = Ascending(S)[i]
    BY <1>3
  <2> QED BY <2>2, <2>3
<1>5. s \in [1..n -> E] /\ DOMAIN s = 1..n
  BY <1>3, <1>4
<1>6. s \in Seq(E)
  BY <1>5, <1>2
<1>7. s \in Seq(Events)
  BY <1>6, SeqMonotonic
<1>8. SeqsOf(s) = S
  <2>1. SeqsOf(s) = {s[i].seq : i \in 1..n}
    BY <1>5 DEF SeqsOf
  <2>2. SeqsOf(s) = {Ascending(S)[i] : i \in 1..n}
    BY <2>1, <1>4
  <2> HIDE DEF S, s, n
  <2> QED BY <2>2, <1>2
<1>9. ASSUME NEW i \in DOMAIN s, NEW j \in DOMAIN s
      PROVE  /\ s[i].seq = s[j].seq => i = j
             /\ s[i].seq < s[j].seq => i < j
  <2>1. i \in 1..n /\ j \in 1..n /\ s[i].seq = Ascending(S)[i] /\ s[j].seq = Ascending(S)[j]
    BY <1>4, <1>5
  <2>2. Rank(S, Ascending(S)[i]) = i /\ Rank(S, Ascending(S)[j]) = j
        /\ Ascending(S)[i] \in S /\ Ascending(S)[j] \in S
    BY <2>1, <1>2
  <2>3. Ascending(S)[i] < Ascending(S)[j] => i < j
    BY <2>2, <1>1, RankGrows
  <2> QED BY <2>1, <2>2, <2>3
<1> QED BY <1>7, <1>8, <1>9

\* What is ascending and without gaps in N is a prefix of N in its order.
LEMMA SeesIsPrefix ==
  ASSUME NEW N \in SUBSET Nat, IsFiniteSet(N), NEW G \in Seq(Nat), Sees(G, N)
  PROVE  IsPrefix(G, Ascending(N))
<1> DEFINE len == Len(G)
           A == Ascending(N)
<1>1. len \in Nat /\ DOMAIN G = 1..len /\ \A i \in 1..len : G[i] \in Nat
  BY LenProperties
<1>2. /\ \A i, j \in 1..len : i < j => G[i] < G[j]
      /\ \A i \in 1..len : G[i] \in N
      /\ \A i \in 1..len : \A n \in N : n < G[i] => \E j \in 1..len : n = G[j]
  BY <1>1 DEF Sees, Range
<1> HIDE DEF len
<1>3. ASSUME NEW i \in 1..len
      PROVE  Rank(N, G[i]) = i
  <2> DEFINE T == {m \in N : m <= G[i]}
             f == [j \in 1..i |-> G[j]]
  <2>1. i \in Nat /\ i >= 1 /\ \A j \in 1..i : j \in 1..len
    BY <1>1
  <2>2. \A j \in 1..i : G[j] \in T
    <3> SUFFICES ASSUME NEW j \in 1..i PROVE G[j] \in T
      OBVIOUS
    <3>1. j \in 1..len /\ (j < i \/ j = i)
      BY <2>1
    <3>2. G[j] \in N /\ G[j] \in Nat /\ G[i] \in Nat
      BY <3>1, <1>1, <1>2
    <3>3. G[j] <= G[i]
      BY <3>1, <3>2, <1>2
    <3> QED BY <3>2, <3>3
  <2>3. ASSUME NEW m \in T PROVE \E j \in 1..i : G[j] = m
    <3>1. PICK j \in 1..len : m = G[j]
      <4>1. m \in Nat /\ G[i] \in Nat /\ m <= G[i]
        BY <1>1
      <4>2. m < G[i] \/ m = G[i]
        BY <4>1
      <4> QED BY <4>2, <1>2
    <3>2. ~(i < j)
      <4>1. i < j => G[i] < G[j]
        BY <1>2
      <4>2. G[j] <= G[i] /\ G[j] \in Nat /\ G[i] \in Nat
        BY <3>1, <1>1
      <4> QED BY <4>1, <4>2
    <3>3. j \in 1..i
      BY <3>2, <1>1
    <3> QED BY <3>1, <3>3
  <2>4. \A j, k \in 1..i : G[j] = G[k] => j = k
    <3> SUFFICES ASSUME NEW j \in 1..i, NEW k \in 1..i, G[j] = G[k]
                 PROVE  j = k
      OBVIOUS
    <3>1. j \in 1..len /\ k \in 1..len
      BY <2>1
    <3>2. (j < k => G[j] < G[k]) /\ (k < j => G[k] < G[j])
      BY <3>1, <1>2
    <3>3. G[j] \in Nat /\ G[k] \in Nat
      BY <3>1, <1>1
    <3> QED BY <3>2, <3>3
  <2>5. f \in [1..i -> T]
    BY <2>2
  <2>6. f \in Surjection(1..i, T)
    BY <2>3, <2>5 DEF Surjection
  <2>7. f \in Injection(1..i, T)
    BY <2>4, <2>5 DEF Injection, IsInjective
  <2>8. IsFiniteSet(1..i) /\ Cardinality(1..i) = i
    <3>1. IsFiniteSet(1..i) /\ Cardinality(1..i) = IF 1 > i THEN 0 ELSE i - 1 + 1
      BY <2>1, FS_Interval
    <3> QED BY <3>1, <2>1
  <2>9. Cardinality(T) = i
    BY <2>6, <2>7, <2>8, FS_Surjection
  <2> QED BY <2>9 DEF Rank
<1>4. /\ A \in Seq(Nat) /\ Len(A) = Cardinality(N) /\ Cardinality(N) \in Nat
      /\ \A x \in N : Rank(N, x) \in 1..Cardinality(N) /\ A[Rank(N, x)] = x
  BY AscendingIs, AscendingSequence
<1>5. \A i \in 1..len : i \in 1..Cardinality(N) /\ A[i] = G[i]
  <2> SUFFICES ASSUME NEW i \in 1..len PROVE i \in 1..Cardinality(N) /\ A[i] = G[i]
    OBVIOUS
  <2>1. G[i] \in N /\ Rank(N, G[i]) = i
    BY <1>2, <1>3
  <2> QED BY <2>1, <1>4
<1> HIDE DEF A
<1>6. len <= Len(A)
  <2>1. CASE len = 0
    BY <2>1, <1>4
  <2>2. CASE len # 0
    <3>1. len \in 1..len
      BY <2>2, <1>1
    <3>2. len \in 1..Cardinality(N)
      BY <3>1, <1>5
    <3> QED BY <3>2, <1>4
  <2> QED BY <2>1, <2>2
<1>7. \A i \in 1..len : A[i] \in Nat /\ G[i] \in Nat
  BY <1>1, <1>5
<1>8. /\ SubSeq(G, 1, len) \in Seq(Nat)
      /\ Len(SubSeq(G, 1, len)) = IF 1 <= len THEN len - 1 + 1 ELSE 0
      /\ \A i \in 1..len - 1 + 1 : SubSeq(G, 1, len)[i] = G[1 + i - 1]
  BY <1>1, <1>7, SubSeqProperties
<1>9. /\ SubSeq(A, 1, len) \in Seq(Nat)
      /\ Len(SubSeq(A, 1, len)) = IF 1 <= len THEN len - 1 + 1 ELSE 0
      /\ \A i \in 1..len - 1 + 1 : SubSeq(A, 1, len)[i] = A[1 + i - 1]
  BY <1>1, <1>7, SubSeqProperties
<1>10. \A i \in 1..Len(SubSeq(G, 1, len)) : SubSeq(G, 1, len)[i] = SubSeq(A, 1, len)[i]
  <2> SUFFICES ASSUME NEW i \in 1..Len(SubSeq(G, 1, len))
               PROVE  SubSeq(G, 1, len)[i] = SubSeq(A, 1, len)[i]
    OBVIOUS
  <2>1. i \in 1..len /\ i \in 1..len - 1 + 1 /\ 1 + i - 1 = i
    BY <1>1, <1>8
  <2> QED BY <2>1, <1>5, <1>8, <1>9
<1>11. Len(SubSeq(G, 1, len)) = Len(SubSeq(A, 1, len))
  BY <1>8, <1>9
<1>12. SubSeq(G, 1, len) = SubSeq(A, 1, len)
  BY <1>8, <1>9, <1>10, <1>11, SeqEqual
<1> QED BY <1>6, <1>12 DEF IsPrefix, len, A

LEMMA SeqFacts ==
  ASSUME NEW S, NEW s \in Seq(S)
  PROVE  /\ \A x \in S : /\ Append(s, x) \in Seq(S)
                         /\ Len(Append(s, x)) = Len(s) + 1
                         /\ DOMAIN Append(s, x) = 1..(Len(s) + 1)
                         /\ Append(s, x)[Len(s) + 1] = x
                         /\ \A i \in 1..Len(s) : Append(s, x)[i] = s[i]
                         /\ Range(Append(s, x)) = Range(s) \cup {x}
         /\ Len(s) \in Nat /\ DOMAIN s = 1..Len(s) /\ \A i \in 1..Len(s) : s[i] \in S
         /\ Range(s) \subseteq S
         /\ s # <<>> => /\ Head(s) = s[1] /\ Head(s) \in S /\ Tail(s) \in Seq(S)
                        /\ 1 \in DOMAIN s
                        /\ DOMAIN Tail(s) = 1..(Len(s) - 1)
                        /\ \A i \in 1..(Len(s) - 1) : Tail(s)[i] = s[i + 1] /\ i + 1 \in 1..Len(s)
<1>1. Len(s) \in Nat /\ DOMAIN s = 1..Len(s) /\ \A i \in 1..Len(s) : s[i] \in S
  BY LenProperties
<1>2. ASSUME NEW x \in S
      PROVE  /\ Append(s, x) \in Seq(S)
             /\ Len(Append(s, x)) = Len(s) + 1
             /\ DOMAIN Append(s, x) = 1..(Len(s) + 1)
             /\ Append(s, x)[Len(s) + 1] = x
             /\ \A i \in 1..Len(s) : Append(s, x)[i] = s[i]
  BY <1>1
<1>3. ASSUME NEW x \in S
      PROVE  Range(Append(s, x)) = Range(s) \cup {x}
  <2>1. 1..(Len(s) + 1) = 1..Len(s) \cup {Len(s) + 1}
    BY <1>1
  <2>2. Range(Append(s, x)) = {Append(s, x)[i] : i \in 1..Len(s)} \cup {Append(s, x)[Len(s) + 1]}
    BY <2>1, <1>2 DEF Range
  <2>3. Range(s) = {s[i] : i \in 1..Len(s)}
    BY <1>1 DEF Range
  <2>4. {Append(s, x)[i] : i \in 1..Len(s)} = {s[i] : i \in 1..Len(s)}
    BY <1>2
  <2> QED BY <2>2, <2>3, <2>4, <1>2
<1>4. Range(s) \subseteq S
  BY <1>1 DEF Range
<1>5. ASSUME s # <<>>
      PROVE  /\ Head(s) = s[1] /\ Head(s) \in S /\ Tail(s) \in Seq(S)
             /\ 1 \in DOMAIN s
             /\ DOMAIN Tail(s) = 1..(Len(s) - 1)
             /\ \A i \in 1..(Len(s) - 1) : Tail(s)[i] = s[i + 1] /\ i + 1 \in 1..Len(s)
  <2>1. /\ Tail(s) \in Seq(S) /\ Len(Tail(s)) = Len(s) - 1 /\ Head(s) \in S
        /\ \A i \in 1..Len(Tail(s)) : Tail(s)[i] = s[i + 1]
    BY <1>5, HeadTailProperties
  <2>2. Len(s) # 0
    BY <1>5, <1>1
  <2> QED BY <2>1, <2>2, <1>1
<1> QED BY <1>1, <1>2, <1>3, <1>4, <1>5

-----------------------------------------------------------------------------
(* The outcomes of a call of the recorder.                                 *)

Recorded(r, kind, why) ==
  /\ sending = Nothing
  /\ NextSequence(r) \notin Numbers(r)
  /\ counter' = [counter EXCEPT ![r] = NextSequence(r)]
  /\ log' = [log EXCEPT ![r] = @ \cup {Event(NextSequence(r), kind, why)}]
  /\ sending' = [run |-> r, event |-> Event(NextSequence(r), kind, why)]
  /\ UNCHANGED faults

Refused(r) ==
  /\ sending = Nothing
  /\ counter' = [counter EXCEPT ![r] = NextSequence(r)]
  /\ \/ NextSequence(r) \in Numbers(r) /\ UNCHANGED faults
     \/ faults' = faults + 1
  /\ UNCHANGED <<log, sending>>

\* The steps that call the recorder, each with its two outcomes.
AnnounceRecords(kind, why) ==
  /\ worker.pc \in {"announce", "complete", "failEvent"}
  /\ \/ worker.pc = "announce" /\ kind = "failed" /\ why = worker.why
     \/ worker.pc = "complete" /\ kind = "completed" /\ why = "none"
     \/ worker.pc = "failEvent" /\ kind = "failed" /\ why = "error"
  /\ Recorded(worker.run, kind, why)
  /\ Finish
  /\ UNCHANGED <<drainer, progress>>

ProgressRecords ==
  /\ drainer = "on" /\ progress > 0 /\ progress' = progress - 1
  /\ Recorded(worker.run, "progress", "none")
  /\ UNCHANGED <<worker, drainer>>

ResumeRecords ==
  /\ worker.pc = "resume"
  /\ Recorded(worker.run, "resumed", "none")
  /\ Goto("requeue", "none")
  /\ UNCHANGED <<drainer, progress>>

RecordingRefused ==
  /\ Refused(worker.run)
  /\ \/ worker.pc \in {"announce", "complete"} /\ Goto("fail", "error") /\ UNCHANGED <<drainer, progress>>
     \/ worker.pc = "failEvent" /\ Finish /\ UNCHANGED <<drainer, progress>>
     \/ /\ drainer = "on" /\ progress > 0 /\ progress' = progress - 1 /\ drainer' = "dead"
        /\ UNCHANGED worker
     \/ worker.pc = "resume" /\ NextToRecover /\ UNCHANGED <<drainer, progress>>

Recording ==
  /\ \/ \E kind \in {"completed", "failed"}, why \in Reasons : AnnounceRecords(kind, why)
     \/ ProgressRecords
     \/ ResumeRecords
     \/ RecordingRefused
  /\ UNCHANGED <<status, result, journal, accepted, queue, pending, page, crashes, losses>>

LEMMA RecordingSteps ==
  ASSUME LocalTypeOK, Announce \/ Complete \/ FailEvent \/ Drain \/ Resume
  PROVE  Recording
<1>1. worker.why \in Reasons /\ "none" \in Reasons /\ "error" \in Reasons
  BY DEF LocalTypeOK, MemoryTypeOK, Workers, Reasons
<1>2. CASE Announce
  <2>1. (AnnounceRecords("failed", worker.why) \/ RecordingRefused)
        /\ UNCHANGED <<status, result, journal, accepted, queue, pending, page, crashes, losses>>
    BY <1>2 DEF Announce, Record, Fault, AnnounceRecords, Recorded, RecordingRefused, Refused
  <2> QED BY <2>1, <1>1 DEF Recording
<1>3. CASE Complete
  <2>1. (AnnounceRecords("completed", "none") \/ RecordingRefused)
        /\ UNCHANGED <<status, result, journal, accepted, queue, pending, page, crashes, losses>>
    BY <1>3 DEF Complete, Record, Fault, AnnounceRecords, Recorded, RecordingRefused, Refused
  <2> QED BY <2>1, <1>1 DEF Recording
<1>4. CASE FailEvent
  <2>1. (AnnounceRecords("failed", "error") \/ RecordingRefused)
        /\ UNCHANGED <<status, result, journal, accepted, queue, pending, page, crashes, losses>>
    BY <1>4 DEF FailEvent, Record, Fault, AnnounceRecords, Recorded, RecordingRefused, Refused
  <2> QED BY <2>1, <1>1 DEF Recording
<1>5. CASE Drain
  BY <1>5 DEF Drain, Record, Fault, ProgressRecords, Recorded, RecordingRefused, Refused, Recording
<1>6. CASE Resume
  BY <1>6 DEF Resume, Record, Fault, ResumeRecords, Recorded, RecordingRefused, Refused, Recording
<1> QED BY <1>2, <1>3, <1>4, <1>5, <1>6

\* A number the store accepts is beyond all that it has.
LEMMA NextIsBeyond ==
  ASSUME LocalTypeOK, NEW r \in Runs, Known(r), NextSequence(r) \notin Numbers(r)
  PROVE  /\ NextSequence(r) \in Nat \ {0}
         /\ \A n \in Numbers(r) : n < NextSequence(r)
<1>1. counter[r] \in Nat /\ NextSequence(r) = counter[r] + 1
  BY DEF LocalTypeOK, MemoryTypeOK, NextSequence
<1>2. Numbers(r) \subseteq Nat
  BY DEF LocalTypeOK, StoreTypeOK, Events, Numbers
<1> QED BY <1>1, <1>2 DEF Known

-----------------------------------------------------------------------------
(* Types.                                                                  *)

LEMMA NumbersAreNaturals ==
  ASSUME LocalTypeOK, NEW r \in Runs
  PROVE  Numbers(r) \in SUBSET (Nat \ {0})
BY DEF LocalTypeOK, StoreTypeOK, Events, Numbers

LEMMA InitType ==
  ASSUME Init
  PROVE  LocalTypeOK
<1>1. {0} \subseteq Nat /\ <<>> \in Seq(Nat) /\ <<>> \in Seq(Runs) /\ <<>> \in Seq(Events)
  OBVIOUS
<1>2. StoreTypeOK
  BY <1>1 DEF Init, StoreTypeOK, Statuses
<1>3. MemoryTypeOK
  BY <1>1 DEF Init, MemoryTypeOK, Workers, WorkerSteps, Reasons
<1>4. PageTypeOK
  BY <1>1 DEF Init, PageTypeOK, NoPage
<1> QED BY <1>2, <1>3, <1>4 DEF LocalTypeOK

LEMMA GotoIs ==
  ASSUME worker \in Workers, NEW pc \in WorkerSteps, NEW why \in Reasons, Goto(pc, why)
  PROVE  worker' \in Workers /\ worker'.pc = pc /\ worker'.run = worker.run /\ worker'.why = why
BY DEF Goto, Workers

LEMMA FinishIs ==
  /\ Finish => worker' \in Workers /\ worker'.pc = "idle" /\ worker'.run = NoRun
  /\ NextToRecover => worker' \in Workers /\ worker'.pc = "recover" /\ worker'.run = NoRun
BY DEF Finish, NextToRecover, Workers, WorkerSteps, Reasons

\* What the worker may go to.
LEMMA StepsAndReasons ==
  /\ {"idle", "prepare", "refuse", "announce", "start", "build", "pipeline", "flush", "save",
      "complete", "fail", "failEvent", "down", "recover", "resume", "requeue"} \subseteq WorkerSteps
  /\ {"none", "missing", "unprepared", "error"} \subseteq Reasons
  /\ {"absent", "queued", "running", "interrupted", "completed", "failed"} \subseteq Statuses
BY DEF WorkerSteps, Reasons, Statuses, Incomplete, Terminal, Absent

LEMMA RecordingType ==
  ASSUME LocalTypeOK, Recording, worker.run \in Runs
  PROVE  LocalTypeOK'
<1>1. StoreTypeOK /\ MemoryTypeOK /\ PageTypeOK
  BY DEF LocalTypeOK
<1>2. PageTypeOK'
  BY <1>1 DEF Recording, PageTypeOK
<1>3. NextSequence(worker.run) \in Nat \ {0}
  BY <1>1 DEF MemoryTypeOK, NextSequence
<1>4. \A kind \in Kinds, why \in Reasons : Event(NextSequence(worker.run), kind, why) \in Events
  BY <1>3 DEF Events, Event
<1>5. ASSUME NEW kind \in Kinds, NEW why \in Reasons, Recorded(worker.run, kind, why)
      PROVE  /\ counter' \in [Runs -> Nat] /\ log' \in [Runs -> SUBSET Events]
             /\ sending' \in [run : Runs, event : Events] \cup {Nothing}
             /\ faults' \in Nat
  <2>1. Event(NextSequence(worker.run), kind, why) \in Events
    BY <1>4
  <2> QED BY <2>1, <1>1, <1>3, <1>5 DEF Recorded, MemoryTypeOK, StoreTypeOK
<1>6. ASSUME Refused(worker.run)
      PROVE  /\ counter' \in [Runs -> Nat] /\ log' \in [Runs -> SUBSET Events]
             /\ sending' \in [run : Runs, event : Events] \cup {Nothing}
             /\ faults' \in Nat
  BY <1>6, <1>1, <1>3 DEF Refused, MemoryTypeOK, StoreTypeOK
<1>7. /\ counter' \in [Runs -> Nat] /\ log' \in [Runs -> SUBSET Events]
      /\ sending' \in [run : Runs, event : Events] \cup {Nothing}
      /\ faults' \in Nat
  <2>1. {"completed", "failed", "progress", "resumed"} \subseteq Kinds /\ "none" \in Reasons
    BY DEF Kinds, Terminal, Reasons
  <2> QED BY <2>1, <1>5, <1>6 DEF Recording, AnnounceRecords, ProgressRecords, ResumeRecords, RecordingRefused
<1>8. /\ worker' \in Workers
      /\ progress' \in Nat /\ drainer' \in {"off", "on", "dead"}
  <2>1. worker \in Workers /\ progress \in Nat /\ drainer \in {"off", "on", "dead"}
    BY <1>1 DEF MemoryTypeOK
  <2>2. Finish \/ NextToRecover \/ Goto("fail", "error") \/ Goto("requeue", "none") \/ UNCHANGED worker
    BY DEF Recording, AnnounceRecords, ProgressRecords, ResumeRecords, RecordingRefused
  <2>3. worker' \in Workers
    BY <2>1, <2>2, GotoIs, FinishIs, StepsAndReasons
  <2>4. progress' \in Nat /\ drainer' \in {"off", "on", "dead"}
    BY <2>1 DEF Recording, AnnounceRecords, ProgressRecords, ResumeRecords, RecordingRefused
  <2> QED BY <2>3, <2>4
<1>9. StoreTypeOK'
  BY <1>1, <1>7 DEF Recording, StoreTypeOK
<1>10. MemoryTypeOK'
  BY <1>1, <1>7, <1>8 DEF Recording, MemoryTypeOK
<1> QED BY <1>2, <1>9, <1>10 DEF LocalTypeOK

\* The steps of the API and the worker that do not record.
QuietWork ==
  \/ \E r \in Runs : Enqueue(r)
  \/ Unregister
  \/ Take \/ Prepare \/ Refuse \/ Start \/ BuildProvider \/ PipelineEnds
  \/ AwaitDrainer \/ SaveResult \/ FailStatus \/ Progress
  \/ Restart \/ Requeue \/ Serve

LEMMA HydratedType ==
  ASSUME LocalTypeOK, NumberInv, NEW r \in Runs
  PROVE  /\ HydratedCounter(r) \in [Runs -> Nat]
         /\ \A n \in Numbers(r) : n <= HydratedCounter(r)[r]
         /\ \A q \in Runs \ {r} : HydratedCounter(r)[q] = counter[q]
<1>1. counter \in [Runs -> Nat] /\ Numbers(r) \in SUBSET Nat
  BY NumbersAreNaturals DEF LocalTypeOK, MemoryTypeOK
<1>2. CASE log[r] = {}
  BY <1>1, <1>2 DEF HydratedCounter, Numbers
<1>3. CASE log[r] # {}
  <2>1. PICK n \in Numbers(r) : \A m \in Numbers(r) : m <= n
    BY <1>3 DEF NumberInv
  <2>2. Newest(r) = CHOOSE x \in Numbers(r) : \A y \in Numbers(r) : x >= y
    BY <1>3 DEF Newest, Max
  <2>3. \A y \in Numbers(r) : n >= y
    BY <2>1, <1>1
  <2>4. Newest(r) \in Numbers(r) /\ \A y \in Numbers(r) : Newest(r) >= y
    BY <2>2, <2>3
  <2>5. HydratedCounter(r) = [counter EXCEPT ![r] = Newest(r)]
    BY <1>3 DEF HydratedCounter
  <2> QED BY <2>4, <2>5, <1>1
<1> QED BY <1>2, <1>3

LEMMA QuietType ==
  ASSUME LocalTypeOK, NumberInv, QuietWork, worker.run = NoRun \/ worker.run \in Runs,
         worker.pc \notin {"idle", "down", "recover"} => worker.run \in Runs
  PROVE  LocalTypeOK'
<1> USE DEF LocalTypeOK, StoreTypeOK, MemoryTypeOK
<1>0. worker \in Workers
  OBVIOUS
<1>1. PageTypeOK' /\ UNCHANGED page
  <2>1. UNCHANGED page
    BY DEF QuietWork, Enqueue, Unregister, Take, Prepare, Refuse, Start, BuildProvider,
           PipelineEnds, AwaitDrainer, SaveResult, FailStatus, Progress, Restart, Requeue, Serve
  <2> QED BY <2>1 DEF PageTypeOK
<1>2. CASE \E r \in Runs : Enqueue(r)
  BY <1>1, <1>2 DEF Enqueue, store
<1>3. CASE Unregister
  BY <1>1, <1>3 DEF Unregister, memory
<1>4. CASE Take
  <2>1. Head(queue) \in Runs /\ Tail(queue) \in Seq(Runs)
    BY <1>4 DEF Take
  <2>2. worker' \in Workers
    BY <1>4, <2>1, StepsAndReasons DEF Take, Workers
  <2> QED BY <1>1, <1>4, <2>1, <2>2 DEF Take, store
<1>5. CASE Prepare
  <2>1. worker.run \in Runs
    BY <1>5 DEF Prepare
  <2>2. HydratedCounter(worker.run) \in [Runs -> Nat]
    BY <2>1, HydratedType
  <2>3. counter' \in [Runs -> Nat] /\ faults' \in Nat
        /\ worker' \in Workers
    <3>1. \/ Goto("refuse", "missing") \/ Goto("start", "none")
          \/ Goto("refuse", "unprepared") \/ Goto("fail", "error")
      BY <1>5 DEF Prepare
    <3>2. worker' \in Workers
      BY <1>0, <3>1, GotoIs, StepsAndReasons
    <3> QED BY <1>5, <2>2, <3>2 DEF Prepare, Fault
  <2>4. UNCHANGED <<store, accepted, queue, sending, pending, progress, drainer,
                    page, crashes, losses>>
    BY <1>5 DEF Prepare
  <2> QED BY <1>1, <2>3, <2>4 DEF store
<1>6. CASE Refuse
  <2>1. faults' \in Nat
        /\ worker' \in Workers
        /\ status' \in [Runs -> Statuses]
    <3>1. worker.why \in Reasons
      BY <1>0 DEF Workers
    <3>2. Goto("announce", worker.why) \/ Goto("fail", "error")
      BY <1>6 DEF Refuse, SetStatus
    <3>3. worker' \in Workers
      BY <1>0, <3>1, <3>2, GotoIs, StepsAndReasons
    <3>4. \/ UNCHANGED status
          \/ \E s \in Statuses : status' = [status EXCEPT ![worker.run] = s]
      BY <1>6, StepsAndReasons DEF Refuse, SetStatus
    <3>5. status' \in [Runs -> Statuses]
      BY <3>4
    <3>6. faults' \in Nat
      BY <1>6 DEF Refuse, SetStatus, Fault
    <3> QED BY <3>3, <3>5, <3>6
  <2> QED BY <1>1, <1>6, <2>1 DEF Refuse
<1>7. CASE Start
  <2>1. faults' \in Nat
        /\ worker' \in Workers
        /\ status' \in [Runs -> Statuses]
    <3>1. worker.why \in Reasons
      BY <1>0 DEF Workers
    <3>2. Goto("build", "none") \/ Goto("fail", "error")
      BY <1>7 DEF Start, SetStatus
    <3>3. worker' \in Workers
      BY <1>0, <3>1, <3>2, GotoIs, StepsAndReasons
    <3>4. \/ UNCHANGED status
          \/ \E s \in Statuses : status' = [status EXCEPT ![worker.run] = s]
      BY <1>7, StepsAndReasons DEF Start, SetStatus
    <3>5. status' \in [Runs -> Statuses]
      BY <3>4
    <3>6. faults' \in Nat
      BY <1>7 DEF Start, SetStatus, Fault
    <3> QED BY <3>3, <3>5, <3>6
  <2> QED BY <1>1, <1>7, <2>1 DEF Start
<1>8. CASE BuildProvider
  <2>1. Goto("pipeline", "none") \/ Goto("fail", "error")
    BY <1>8 DEF BuildProvider
  <2>2. worker' \in Workers
    BY <1>0, <2>1, GotoIs, StepsAndReasons
  <2> QED BY <1>1, <1>8, <2>2 DEF BuildProvider, store
<1>9. CASE PipelineEnds
  <2>1. Goto("flush", "none") \/ Goto("flush", "error")
    BY <1>9 DEF PipelineEnds
  <2>2. worker' \in Workers
    BY <1>0, <2>1, GotoIs, StepsAndReasons
  <2> QED BY <1>1, <1>9, <2>2 DEF PipelineEnds, store
<1>10. CASE AwaitDrainer
  <2>1. Goto("save", "none") \/ Goto("fail", "error")
    BY <1>10 DEF AwaitDrainer
  <2>2. worker' \in Workers
    BY <1>0, <2>1, GotoIs, StepsAndReasons
  <2> QED BY <1>1, <1>10, <2>2 DEF AwaitDrainer, store
<1>11. CASE SaveResult
  <2>1. worker.run \in Runs
    BY <1>11 DEF SaveResult
  <2>2. faults' \in Nat
        /\ worker' \in Workers
        /\ status' \in [Runs -> Statuses] /\ result' \subseteq Runs
    <3>1. Goto("complete", "none") \/ Goto("fail", "error")
      BY <1>11 DEF SaveResult
    <3>2. worker' \in Workers
      BY <1>0, <3>1, GotoIs, StepsAndReasons
    <3>3. "completed" \in Statuses
      BY StepsAndReasons
    <3>4. status' \in [Runs -> Statuses] /\ result' \subseteq Runs
      BY <1>11, <2>1, <3>3 DEF SaveResult
    <3>5. faults' \in Nat
      BY <1>11 DEF SaveResult, Fault
    <3> QED BY <3>2, <3>4, <3>5
  <2> QED BY <1>1, <1>11, <2>2 DEF SaveResult
<1>12. CASE FailStatus
  <2>1. faults' \in Nat
        /\ worker' \in Workers
        /\ status' \in [Runs -> Statuses]
    <3>1. worker.why \in Reasons
      BY <1>0 DEF Workers
    <3>2. Goto("failEvent", "error")
      BY <1>12 DEF FailStatus, SetStatus
    <3>3. worker' \in Workers
      BY <1>0, <3>1, <3>2, GotoIs, StepsAndReasons
    <3>4. \/ UNCHANGED status
          \/ \E s \in Statuses : status' = [status EXCEPT ![worker.run] = s]
      BY <1>12, StepsAndReasons DEF FailStatus, SetStatus
    <3>5. status' \in [Runs -> Statuses]
      BY <3>4
    <3>6. faults' \in Nat
      BY <1>12 DEF FailStatus, SetStatus, Fault
    <3> QED BY <3>3, <3>5, <3>6
  <2> QED BY <1>1, <1>12, <2>1 DEF FailStatus
<1>13. CASE Progress
  BY <1>1, <1>13 DEF Progress, store
<1>14. CASE Restart
  <2>1. IncompleteAttempts \subseteq Runs
    BY DEF IncompleteAttempts
  <2>2. worker' \in Workers
    BY <1>0, <1>14, GotoIs, StepsAndReasons DEF Restart
  <2> QED BY <1>1, <1>14, <2>1, <2>2 DEF Restart, store
<1>15. CASE Requeue
  <2>1. worker.run \in Runs
    BY <1>15 DEF Requeue
  <2>2. Append(queue, worker.run) \in Seq(Runs)
    BY <2>1
  <2>3. worker' \in Workers
    BY <1>15, FinishIs DEF Requeue
  <2> QED BY <1>1, <1>15, <2>2, <2>3 DEF Requeue, store
<1>16. CASE Serve
  <2>1. worker' \in Workers
    BY <1>16, FinishIs DEF Serve
  <2> QED BY <1>1, <1>16, <2>1 DEF Serve, store
<1> QED BY <1>2, <1>3, <1>4, <1>5, <1>6, <1>7, <1>8, <1>9, <1>10, <1>11, <1>12, <1>13,
           <1>14, <1>15, <1>16 DEF QuietWork

Pages == [state : {"closed", "subscribed", "replay", "live", "lost"},
          run : Runs \cup {NoRun}, after : Nat, buffer : Seq(Events),
          subscribed : BOOLEAN, replay : Seq(Events), got : Seq(Nat)]

PostVars == <<result, journal, queue, counter, sending, worker, pending, progress,
              drainer, page, crashes, faults, losses>>

\* A request creates an Attempt or changes nothing.
LEMMA PostIs ==
  ASSUME NEW k \in Keys, NEW d \in Digests, Post(k, d)
  PROVE  /\ UNCHANGED PostVars /\ Up
         /\ \/ UNCHANGED <<status, log, accepted>>
            \/ \E r \in Runs : /\ status[r] = Absent
                               /\ status' = [status EXCEPT ![r] = "queued"]
                               /\ log' = [log EXCEPT ![r] = {Event(1, "created", "none")}]
                               /\ accepted' = accepted \cup {r}
BY DEF Post, Create, ReplayRequest, ReplayCreate, PostVars, store

LEMMA PostType ==
  ASSUME LocalTypeOK, NEW k \in Keys, NEW d \in Digests, Post(k, d)
  PROVE  LocalTypeOK'
<1>1. Event(1, "created", "none") \in Events
  BY DEF Event, Events, Kinds, Reasons
<1>2. /\ UNCHANGED PostVars
      /\ \/ UNCHANGED <<status, log, accepted>>
         \/ \E r \in Runs : /\ status[r] = Absent
                            /\ status' = [status EXCEPT ![r] = "queued"]
                            /\ log' = [log EXCEPT ![r] = {Event(1, "created", "none")}]
                            /\ accepted' = accepted \cup {r}
  BY PostIs
<1>3. "queued" \in Statuses
  BY StepsAndReasons
<1>4. status' \in [Runs -> Statuses] /\ log' \in [Runs -> SUBSET Events] /\ accepted' \subseteq Runs
  <2>0. /\ status \in [Runs -> Statuses] /\ log \in [Runs -> SUBSET Events]
        /\ accepted \subseteq Runs
    BY DEF LocalTypeOK, StoreTypeOK, MemoryTypeOK
  <2>1. CASE UNCHANGED <<status, log, accepted>>
    BY <2>0, <2>1
  <2>2. ASSUME NEW r \in Runs,
               status' = [status EXCEPT ![r] = "queued"],
               log' = [log EXCEPT ![r] = {Event(1, "created", "none")}],
               accepted' = accepted \cup {r}
        PROVE  status' \in [Runs -> Statuses] /\ log' \in [Runs -> SUBSET Events]
               /\ accepted' \subseteq Runs
    <3>1. status' \in [Runs -> Statuses]
      BY <2>0, <2>2, <1>3
    <3>2. log' \in [Runs -> SUBSET Events]
      BY <2>0, <2>2, <1>1
    <3> QED BY <2>0, <2>2, <3>1, <3>2
  <2> QED BY <1>2, <2>1, <2>2
<1> QED BY <1>2, <1>4 DEF LocalTypeOK, StoreTypeOK, MemoryTypeOK, PageTypeOK, PostVars

LEMMA PublishType ==
  ASSUME LocalTypeOK, Publish
  PROVE  LocalTypeOK'
<1>1. PICK r \in Runs, e \in Events : sending = [run |-> r, event |-> e]
  BY DEF LocalTypeOK, MemoryTypeOK, Publish
<1>2. e.seq \in Nat /\ sending.run = r /\ sending.event = e
  BY <1>1 DEF Events
<1>3. Append(journal[r], e.seq) \in Seq(Nat)
  BY <1>2 DEF LocalTypeOK, StoreTypeOK
<1>4. journal' \in [Runs -> Seq(Nat)] /\ faults' \in Nat
  <2>1. journal \in [Runs -> Seq(Nat)] /\ faults \in Nat
    BY DEF LocalTypeOK, StoreTypeOK, MemoryTypeOK
  <2>2. \/ journal' = [journal EXCEPT ![r] = Append(journal[r], e.seq)] /\ faults' = faults
        \/ journal' = journal /\ faults' = faults + 1
    BY <1>2 DEF Publish, Fault
  <2>3. journal' \in [Runs -> Seq(Nat)]
    BY <2>1, <2>2, <1>3
  <2>4. faults' \in Nat
    BY <2>1, <2>2
  <2> QED BY <2>3, <2>4
<1>5. PageTypeOK'
  <2>1. Append(page.buffer, e) \in Seq(Events)
    BY DEF LocalTypeOK, PageTypeOK
  <2>2. \/ page' = page
        \/ page' = [page EXCEPT !.buffer = Append(page.buffer, e)]
        \/ page' = [page EXCEPT !.subscribed = FALSE]
    BY <1>2 DEF Publish, Broadcast
  <2> QED BY <2>1, <2>2 DEF LocalTypeOK, PageTypeOK
<1> QED BY <1>4, <1>5 DEF Publish, LocalTypeOK, StoreTypeOK, MemoryTypeOK

LEMMA BrokenType ==
  ASSUME PageTypeOK
  PROVE  Broken(page) \in Pages
<1>1. <<>> \in Seq(Events)
  OBVIOUS
<1>2. page \in Pages
  BY DEF PageTypeOK, Pages
<1> DEFINE p == [page EXCEPT !.state = "lost", !.subscribed = FALSE]
<1>3. p \in Pages
  BY <1>2 DEF Pages
<1>4. Broken(page) = [p EXCEPT !.buffer = <<>>, !.replay = <<>>]
  BY DEF Broken
<1> HIDE DEF p
<1> QED BY <1>1, <1>3, <1>4 DEF Pages

LEMMA CrashType ==
  ASSUME LocalTypeOK, Crash
  PROVE  LocalTypeOK'
<1>1. page' \in Pages
  BY BrokenType DEF Crash, LocalTypeOK, PageTypeOK, Pages
<1>2. worker' \in Workers
  BY StepsAndReasons DEF Crash, Workers
<1>3. StoreTypeOK' /\ MemoryTypeOK'
  BY <1>2 DEF Crash, store, LocalTypeOK, StoreTypeOK, MemoryTypeOK
<1> QED BY <1>1, <1>3 DEF LocalTypeOK, PageTypeOK, Pages

LEMMA MissingIsFinite ==
  ASSUME LocalTypeOK, NumberInv, NEW r \in Runs
  PROVE  /\ MissingLines(r) \in SUBSET Nat /\ IsFiniteSet(MissingLines(r))
         /\ IsFiniteSet(Numbers(r)) /\ Numbers(r) \in SUBSET Nat
<1>1. Numbers(r) \in SUBSET Nat
  BY NumbersAreNaturals
<1>2. IsFiniteSet(Numbers(r))
  <2>1. IsFiniteSet(log[r])
    BY DEF NumberInv
  <2>2. PICK f \in [log[r] -> Numbers(r)] : \A n \in Numbers(r) : \E e \in log[r] : f[e] = n
    <3>1. [e \in log[r] |-> e.seq] \in [log[r] -> Numbers(r)]
      BY DEF Numbers
    <3> QED BY <3>1 DEF Numbers
  <2>3. f \in Surjection(log[r], Numbers(r))
    BY <2>2 DEF Surjection
  <2> QED BY <2>1, <2>3, FS_Surjection
<1>3. MissingLines(r) \in SUBSET Numbers(r)
  BY DEF MissingLines
<1> QED BY <1>1, <1>2, <1>3, FS_Subset

\* What recovery does to an Attempt, whether it goes on with it or not.
LEMMA RecoverIs ==
  ASSUME LocalTypeOK, NEW r \in Runs, Recover(r)
  PROVE  /\ worker.pc = "recover" /\ r \in pending /\ pending' = pending \ {r}
         /\ status' = status \/ Mark(r)
         /\ UNCHANGED journal \/ \E lines \in SUBSET MissingLines(r) : Backfill(r, lines)
         /\ \/ /\ Mark(r)
               /\ counter' = HydratedCounter(r)
               /\ worker'.pc = "resume" /\ worker'.run = r
               /\ faults' = faults \/ faults' = faults + 1
            \/ /\ UNCHANGED counter
               /\ worker'.pc = "recover" /\ worker'.run = NoRun
               /\ faults' = faults + 1
         /\ UNCHANGED <<log, result, keys, registered, accepted, queue, sending, progress,
                        drainer, page, crashes, losses>>
BY DEF Recover, NextToRecover, BackfillSome, Fault

LEMMA RecoverType ==
  ASSUME LocalTypeOK, NumberInv, NEW r \in Runs, Recover(r)
  PROVE  LocalTypeOK'
<1>1. ASSUME NEW lines \in SUBSET MissingLines(r)
      PROVE  Ascending(lines) \in Seq(Nat)
  BY MissingIsFinite, AscendingSequence, FS_Subset
<1>2. ASSUME NEW lines \in SUBSET MissingLines(r)
      PROVE  journal[r] \o Ascending(lines) \in Seq(Nat)
  BY <1>1, ConcatProperties DEF LocalTypeOK, StoreTypeOK
<1>3. HydratedCounter(r) \in [Runs -> Nat]
  BY HydratedType
<1>4. worker' \in Workers
  BY FinishIs, StepsAndReasons DEF Recover, Workers
<1>5. (IF status[r] = "running" THEN "interrupted" ELSE status[r]) \in Statuses
  BY StepsAndReasons DEF LocalTypeOK, StoreTypeOK
<1>6. status' \in [Runs -> Statuses] /\ journal' \in [Runs -> Seq(Nat)]
      /\ counter' \in [Runs -> Nat] /\ faults' \in Nat
  <2>1. /\ journal \in [Runs -> Seq(Nat)] /\ faults \in Nat
        /\ status \in [Runs -> Statuses] /\ counter \in [Runs -> Nat]
    BY DEF LocalTypeOK, StoreTypeOK, MemoryTypeOK
  <2>2. status' \in [Runs -> Statuses]
    BY <2>1, <1>5, RecoverIs DEF Mark
  <2>3. journal' \in [Runs -> Seq(Nat)]
    <3>1. CASE UNCHANGED journal
      BY <2>1, <3>1
    <3>2. ASSUME NEW lines \in SUBSET MissingLines(r), Backfill(r, lines)
          PROVE  journal' \in [Runs -> Seq(Nat)]
      BY <2>1, <3>2, <1>2 DEF Backfill
    <3> QED BY <3>1, <3>2, RecoverIs
  <2>4. counter' \in [Runs -> Nat] /\ faults' \in Nat
    <3>1. counter' = HydratedCounter(r) \/ counter' = counter
      BY RecoverIs
    <3>2. faults' = faults \/ faults' = faults + 1
      BY RecoverIs
    <3> QED BY <2>1, <1>3, <3>1, <3>2
  <2> QED BY <2>2, <2>3, <2>4
<1> QED BY <1>4, <1>6 DEF Recover, LocalTypeOK, StoreTypeOK, MemoryTypeOK, PageTypeOK

\* The steps of the page.
PageSteps ==
  \/ \E r \in Followed : Open(r)
  \/ Lose \/ Reconnect \/ GiveUp \/ ListStored \/ DeliverStored \/ DeliverLive

LEMMA PageStepsLeaveTheRest ==
  ASSUME PageSteps, LocalTypeOK
  PROVE  UNCHANGED StreamVars /\ losses' \in Nat
BY DEF PageSteps, Open, Lose, Reconnect, GiveUp, ListStored, DeliverStored, DeliverLive,
       LocalTypeOK, MemoryTypeOK

\* The page a step leaves behind, field by field.
LEMMA BrokenIs ==
  ASSUME page \in Pages
  PROVE  LET p == Broken(page) IN
         /\ p \in Pages /\ p.state = "lost" /\ ~p.subscribed /\ p.buffer = <<>> /\ p.replay = <<>>
         /\ p.run = page.run /\ p.after = page.after /\ p.got = page.got
<1>1. Broken(page) \in Pages
  BY BrokenType DEF PageTypeOK, Pages
<1>2. /\ Broken(page).state = "lost" /\ ~Broken(page).subscribed
      /\ Broken(page).buffer = <<>> /\ Broken(page).replay = <<>>
  BY DEF Broken, Pages
<1>3. /\ Broken(page).run = page.run /\ Broken(page).after = page.after
      /\ Broken(page).got = page.got
  BY DEF Broken, Pages
<1> QED BY <1>1, <1>2, <1>3

LEMMA ConnectedIs ==
  ASSUME page \in Pages, NEW r \in Runs, NEW after \in Nat
  PROVE  LET p == Connected(page, r, after) IN
         /\ p \in Pages /\ p.state = "subscribed" /\ p.subscribed /\ p.buffer = <<>>
         /\ p.replay = <<>> /\ p.run = r /\ p.after = after /\ p.got = page.got
<1> DEFINE p == Connected(page, r, after)
           q == [page EXCEPT !.state = "subscribed", !.run = r, !.after = after]
<1>1. <<>> \in Seq(Events)
  OBVIOUS
<1>2. q \in Pages /\ q.state = "subscribed" /\ q.run = r /\ q.after = after /\ q.got = page.got
  BY DEF Pages
<1>3. p = [q EXCEPT !.buffer = <<>>, !.subscribed = TRUE, !.replay = <<>>]
  BY DEF Connected
<1> HIDE DEF p, q
<1>4. p \in Pages
  BY <1>1, <1>2, <1>3 DEF Pages
<1>5. p.state = q.state /\ p.run = q.run /\ p.after = q.after /\ p.got = q.got
  BY <1>2, <1>3 DEF Pages
<1>6. p.subscribed /\ p.buffer = <<>> /\ p.replay = <<>>
  BY <1>2, <1>3 DEF Pages
<1> QED BY <1>2, <1>4, <1>5, <1>6 DEF p

LEMMA DeliveredIs ==
  ASSUME NEW p \in Pages, NEW e \in Events
  PROVE  /\ Delivered(p, e) \in Pages
         /\ Delivered(p, e).got = Append(p.got, e.seq)
         /\ Delivered(p, e).state = IF EndsStream(p, e) THEN "closed" ELSE p.state
         /\ Delivered(p, e).subscribed = (p.subscribed /\ ~EndsStream(p, e))
         /\ Delivered(p, e).run = p.run /\ Delivered(p, e).after = p.after
         /\ Delivered(p, e).buffer = p.buffer /\ Delivered(p, e).replay = p.replay
<1> DEFINE q == [p EXCEPT !.got = Append(@, e.seq)]
<1>1. Append(p.got, e.seq) \in Seq(Nat)
  BY DEF Pages, Events
<1>2. /\ q \in Pages /\ q.got = Append(p.got, e.seq)
      /\ q.state = p.state /\ q.subscribed = p.subscribed /\ q.run = p.run /\ q.after = p.after
      /\ q.buffer = p.buffer /\ q.replay = p.replay
  BY <1>1 DEF Pages
<1>3. Delivered(p, e) = [q EXCEPT !.state = IF EndsStream(p, e) THEN "closed" ELSE @,
                                  !.subscribed = @ /\ ~EndsStream(p, e)]
  BY DEF Delivered
<1> HIDE DEF q
<1>4. /\ Delivered(p, e).got = q.got
      /\ Delivered(p, e).run = q.run /\ Delivered(p, e).after = q.after
      /\ Delivered(p, e).buffer = q.buffer /\ Delivered(p, e).replay = q.replay
  BY <1>2, <1>3 DEF Pages
<1>5. /\ Delivered(p, e).state = IF EndsStream(p, e) THEN "closed" ELSE q.state
      /\ Delivered(p, e).subscribed = (q.subscribed /\ ~EndsStream(p, e))
  BY <1>2, <1>3 DEF Pages
<1>6. Delivered(p, e) \in Pages
  BY <1>2, <1>3 DEF Pages
<1> QED BY <1>2, <1>4, <1>5, <1>6

LEMMA ReplayIs ==
  ASSUME LocalTypeOK, NumberInv, page.run \in Runs
  PROVE  LET p == Replay(page)
             N == Numbers(page.run)
         IN  /\ p \in Pages /\ p.state = "replay" /\ p.subscribed = page.subscribed
             /\ p.run = page.run /\ p.after = page.after
             /\ p.got = page.got /\ p.buffer = page.buffer
             /\ SeqsOf(p.replay) = {n \in N : n > page.after}
             /\ \A i, j \in DOMAIN p.replay :
                  /\ p.replay[i].seq = p.replay[j].seq => i = j
                  /\ p.replay[i].seq < p.replay[j].seq => i < j
<1> DEFINE E == {e \in log[page.run] : e.seq > page.after}
           S == {e.seq : e \in E}
           N == Numbers(page.run)
<1>1. E \in SUBSET Events /\ page \in Pages
  BY DEF LocalTypeOK, StoreTypeOK, PageTypeOK, Pages
<1>2. S = {n \in N : n > page.after}
  BY DEF Numbers
<1>3. IsFiniteSet(S)
  <2>1. IsFiniteSet(N)
    BY MissingIsFinite
  <2> QED BY <2>1, <1>2, FS_Subset
<1>4. /\ InOrder(E) \in Seq(Events)
      /\ SeqsOf(InOrder(E)) = S
      /\ \A i, j \in DOMAIN InOrder(E) :
              /\ InOrder(E)[i].seq = InOrder(E)[j].seq => i = j
              /\ InOrder(E)[i].seq < InOrder(E)[j].seq => i < j
  BY <1>1, <1>3, InOrderIs
<1> HIDE DEF S, N
<1>5. Replay(page) = [page EXCEPT !.state = "replay", !.replay = InOrder(E)]
  BY DEF Replay
<1> HIDE DEF E
<1>6. Replay(page) \in Pages
  BY <1>1, <1>4, <1>5 DEF Pages
<1>7. /\ Replay(page).state = "replay" /\ Replay(page).replay = InOrder(E)
      /\ Replay(page).subscribed = page.subscribed
      /\ Replay(page).run = page.run /\ Replay(page).after = page.after
      /\ Replay(page).got = page.got /\ Replay(page).buffer = page.buffer
  BY <1>1, <1>5 DEF Pages
<1> QED BY <1>2, <1>4, <1>6, <1>7 DEF N

-----------------------------------------------------------------------------
(* The worker.                                                             *)

LEMMA NextSteps ==
  ASSUME LocalTypeOK, Next
  PROVE  \/ \E k \in Keys, d \in Digests : Post(k, d)
         \/ QuietWork
         \/ Recording
         \/ Publish
         \/ Crash
         \/ \E r \in Runs : Recover(r)
         \/ PageSteps
BY RecordingSteps DEF Next, Worker, Recovery, Stream, QuietWork, PageSteps

LEMMA WorkerHasARun ==
  ASSUME LocalTypeOK, WorkerInv
  PROVE  /\ worker \in Workers
         /\ worker.run = NoRun \/ worker.run \in Runs
         /\ worker.pc \notin {"idle", "down", "recover"} => worker.run \in Runs
         /\ Recording => worker.run \in Runs
         /\ NoRun \notin Runs
<1>1. worker \in Workers /\ NoRun \notin Runs
  BY LocalRunsAssumption DEF LocalTypeOK, MemoryTypeOK, NoRun
<1>2. /\ worker.run = NoRun \/ worker.run \in Runs
      /\ worker.pc \notin {"idle", "down", "recover"} => worker.run \in Runs
  BY <1>1 DEF WorkerInv, Workers
<1>3. Recording => worker.pc \notin {"idle", "down", "recover"}
  BY DEF Recording, AnnounceRecords, ProgressRecords, ResumeRecords, RecordingRefused, WorkerInv
<1> QED BY <1>1, <1>2, <1>3

\* What the worker's quiet steps leave alone.
LEMMA QuietEffects ==
  ASSUME QuietWork
  PROVE  /\ UNCHANGED <<log, journal, page, sending, crashes, losses>>
         /\ faults' = faults \/ faults' = faults + 1
<1> USE DEF store, memory
<1>1. CASE \E r \in Runs : Enqueue(r)
  BY <1>1 DEF Enqueue
<1>2. CASE Unregister \/ Take \/ Prepare
  BY <1>2 DEF Unregister, Take, Prepare, Fault
<1>3. CASE Refuse \/ Start \/ FailStatus
  BY <1>3 DEF Refuse, Start, FailStatus, SetStatus, Fault
<1>4. CASE BuildProvider \/ PipelineEnds \/ AwaitDrainer \/ SaveResult
  BY <1>4 DEF BuildProvider, PipelineEnds, AwaitDrainer, SaveResult, Fault
<1>5. CASE Progress \/ Restart \/ Requeue \/ Serve
  BY <1>5 DEF Progress, Restart, Requeue, Serve
<1> QED BY <1>1, <1>2, <1>3, <1>4, <1>5 DEF QuietWork

LEMMA RecordingEffects ==
  ASSUME LocalTypeOK, WorkerInv, Recording
  PROVE  /\ worker.pc \notin {"idle", "down", "recover"}
         /\ sending = Nothing
         /\ worker' \in Workers
         /\ \/ UNCHANGED worker /\ worker.pc \in {"pipeline", "flush"}
            \/ Finish /\ worker.pc \in {"announce", "complete", "failEvent"}
            \/ worker.pc \in {"announce", "complete"} /\ Goto("fail", "error")
            \/ worker.pc = "resume" /\ Goto("requeue", "none")
            \/ worker.pc = "resume" /\ NextToRecover /\ Refused(worker.run)
         /\ drainer' # "off" => UNCHANGED worker /\ worker.pc \in {"pipeline", "flush"}
         /\ \/ sending' = Nothing /\ UNCHANGED log
            \/ sending'.run = worker.run /\ worker'.pc \notin {"down", "recover", "resume"}
         /\ UNCHANGED <<status, result, journal, accepted, queue, pending, page, crashes, losses>>
<1>1. worker \in Workers /\ worker.run \in Runs
  BY WorkerHasARun
<1>2. UNCHANGED <<status, result, journal, accepted, queue, pending, page, crashes, losses>>
  BY DEF Recording
<1>3. ASSUME NEW kind, NEW why, AnnounceRecords(kind, why)
      PROVE  /\ sending = Nothing /\ Finish /\ worker.pc \in {"announce", "complete", "failEvent"}
             /\ drainer' = drainer /\ sending'.run = worker.run
  BY <1>3 DEF AnnounceRecords, Recorded
<1>4. ASSUME ProgressRecords
      PROVE  /\ sending = Nothing /\ UNCHANGED worker /\ drainer = "on"
             /\ sending'.run = worker.run
  BY <1>4 DEF ProgressRecords, Recorded
<1>5. ASSUME ResumeRecords
      PROVE  /\ sending = Nothing /\ worker.pc = "resume" /\ Goto("requeue", "none")
             /\ drainer' = drainer /\ sending'.run = worker.run
  BY <1>5 DEF ResumeRecords, Recorded
<1>6. ASSUME RecordingRefused
      PROVE  /\ sending = Nothing /\ sending' = Nothing /\ UNCHANGED log /\ Refused(worker.run)
             /\ \/ worker.pc \in {"announce", "complete"} /\ Goto("fail", "error") /\ drainer' = drainer
                \/ worker.pc = "failEvent" /\ Finish /\ drainer' = drainer
                \/ drainer = "on" /\ UNCHANGED worker
                \/ worker.pc = "resume" /\ NextToRecover /\ drainer' = drainer
  BY <1>6 DEF RecordingRefused, Refused
<1>7. drainer # "off" => worker.pc \in {"pipeline", "flush"}
  BY DEF WorkerInv
<1>8. CASE \E kind \in {"completed", "failed"}, why \in Reasons : AnnounceRecords(kind, why)
  <2>1. worker' \in Workers /\ worker'.pc = "idle"
    BY <1>3, <1>8, FinishIs
  <2> QED BY <1>2, <1>3, <1>7, <1>8, <2>1
<1>9. CASE ProgressRecords
  BY <1>1, <1>2, <1>4, <1>7, <1>9
<1>10. CASE ResumeRecords
  <2>1. worker' \in Workers /\ worker'.pc = "requeue"
    BY <1>1, <1>5, <1>10, GotoIs, StepsAndReasons
  <2> QED BY <1>2, <1>5, <1>7, <1>10, <2>1
<1>11. CASE RecordingRefused
  <2>1. worker' \in Workers
    BY <1>1, <1>6, <1>11, GotoIs, FinishIs, StepsAndReasons
  <2> QED BY <1>2, <1>6, <1>7, <1>11, <2>1
<1> QED BY <1>8, <1>9, <1>10, <1>11 DEF Recording

LEMMA QuietWorker ==
  ASSUME LocalTypeOK, NumberInv, WorkerInv, QuietWork
  PROVE  WorkerInv'
<1>0. /\ worker \in Workers
      /\ worker.run = NoRun \/ worker.run \in Runs
      /\ worker.pc \notin {"idle", "down", "recover"} => worker.run \in Runs
      /\ NoRun \notin Runs
      /\ sending' = sending
      /\ queue \in Seq(Runs) /\ status \in [Runs -> Statuses]
  BY WorkerHasARun, QuietEffects DEF LocalTypeOK, MemoryTypeOK, StoreTypeOK
<1> USE <1>0
<1>1. CASE \E r \in Runs : Enqueue(r)
  BY <1>1 DEF Enqueue, store, WorkerInv
<1>2. CASE Unregister \/ Progress
  BY <1>2 DEF Unregister, Progress, store, memory, WorkerInv
<1>3. CASE Take
  <2>1. Head(queue) \in Runs
    BY <1>3 DEF Take
  <2>2. worker'.pc = "prepare" /\ worker'.run \in Runs
    BY <1>3, <2>1 DEF Take
  <2> QED BY <1>3, <2>2 DEF Take, store, WorkerInv
<1>4. CASE Prepare
  <2>1. worker'.run = worker.run /\ worker'.pc \in {"refuse", "start", "fail"}
    <3>1. \/ Goto("refuse", "missing") \/ Goto("start", "none")
          \/ Goto("refuse", "unprepared") \/ Goto("fail", "error")
      BY <1>4 DEF Prepare
    <3> QED BY <3>1, GotoIs, StepsAndReasons
  <2> QED BY <1>4, <2>1 DEF Prepare, store, WorkerInv
<1>5. CASE Refuse
  <2>1. \/ worker'.pc = "announce" /\ worker'.run = worker.run
           /\ status' = [status EXCEPT ![worker.run] = "failed"]
        \/ worker'.pc = "fail" /\ worker'.run = worker.run
    <3>1. \/ Goto("announce", worker.why) /\ status' = [status EXCEPT ![worker.run] = "failed"]
          \/ Goto("fail", "error")
      BY <1>5 DEF Refuse, SetStatus
    <3>2. worker.why \in Reasons
      BY DEF Workers
    <3>3. "announce" \in WorkerSteps /\ "fail" \in WorkerSteps /\ "error" \in Reasons
      BY StepsAndReasons
    <3> QED BY <3>1, <3>2, <3>3, GotoIs
  <2> QED BY <1>5, <2>1 DEF Refuse, WorkerInv
<1>6. CASE Start
  <2>1. worker'.pc \in {"build", "fail"} /\ worker'.run = worker.run
    <3>1. Goto("build", "none") \/ Goto("fail", "error")
      BY <1>6 DEF Start, SetStatus
    <3> QED BY <3>1, GotoIs, StepsAndReasons
  <2> QED BY <1>6, <2>1 DEF Start, WorkerInv
<1>7. CASE BuildProvider
  <2>1. worker'.run = worker.run /\ worker'.pc \in {"pipeline", "fail"}
        /\ (worker'.pc = "pipeline" \/ drainer' = drainer)
    <3>1. \/ Goto("pipeline", "none")
          \/ Goto("fail", "error") /\ drainer' = drainer
      BY <1>7 DEF BuildProvider
    <3> QED BY <3>1, GotoIs, StepsAndReasons
  <2> QED BY <1>7, <2>1 DEF BuildProvider, store, WorkerInv
<1>8. CASE PipelineEnds
  <2>1. worker'.pc = "flush" /\ worker'.run = worker.run
    BY <1>8, GotoIs, StepsAndReasons DEF PipelineEnds
  <2> QED BY <1>8, <2>1 DEF PipelineEnds, store, WorkerInv
<1>9. CASE AwaitDrainer
  <2>1. worker'.pc \in {"save", "fail"} /\ worker'.run = worker.run
    <3>1. Goto("save", "none") \/ Goto("fail", "error")
      BY <1>9 DEF AwaitDrainer
    <3> QED BY <3>1, GotoIs, StepsAndReasons
  <2> QED BY <1>9, <2>1 DEF AwaitDrainer, store, WorkerInv
<1>10. CASE SaveResult
  <2>1. \/ worker'.pc = "complete" /\ worker'.run = worker.run /\ worker.run \in result'
        \/ worker'.pc = "fail" /\ worker'.run = worker.run
    <3>1. \/ Goto("complete", "none") /\ worker.run \in result'
          \/ Goto("fail", "error")
      BY <1>10 DEF SaveResult
    <3> QED BY <3>1, GotoIs, StepsAndReasons
  <2> QED BY <1>10, <2>1 DEF SaveResult, WorkerInv
<1>11. CASE FailStatus
  <2>1. worker'.pc = "failEvent" /\ worker'.run = worker.run
    <3>1. Goto("failEvent", "error")
      BY <1>11 DEF FailStatus, SetStatus
    <3> QED BY <3>1, GotoIs, StepsAndReasons
  <2> QED BY <1>11, <2>1 DEF FailStatus, WorkerInv
<1>12. CASE Restart
  <2>1. worker'.pc = "recover" /\ worker'.run = worker.run
    BY <1>12, GotoIs, StepsAndReasons DEF Restart
  <2> QED BY <1>12, <2>1 DEF Restart, store, WorkerInv
<1>13. CASE Requeue
  <2>1. worker'.pc = "recover" /\ worker'.run = NoRun
    BY <1>13, FinishIs DEF Requeue
  <2> QED BY <1>13, <2>1 DEF Requeue, store, WorkerInv
<1>14. CASE Serve
  <2>1. worker'.pc = "idle" /\ worker'.run = NoRun
    BY <1>14, FinishIs DEF Serve
  <2> QED BY <1>14, <2>1 DEF Serve, store, WorkerInv
<1> QED BY <1>1, <1>2, <1>3, <1>4, <1>5, <1>6, <1>7, <1>8, <1>9, <1>10, <1>11, <1>12,
           <1>13, <1>14 DEF QuietWork

LEMMA NextWorker ==
  ASSUME LocalInv, Next
  PROVE  WorkerInv'
<1>0. LocalTypeOK /\ NumberInv /\ WorkerInv /\ status \in [Runs -> Statuses]
  BY DEF LocalInv, LocalTypeOK, StoreTypeOK
<1>1. ASSUME NEW k \in Keys, NEW d \in Digests, Post(k, d) PROVE WorkerInv'
  <2>1. /\ UNCHANGED PostVars /\ Up
        /\ \/ UNCHANGED <<status, log, accepted>>
           \/ \E r \in Runs : /\ status[r] = Absent
                              /\ status' = [status EXCEPT ![r] = "queued"]
    BY <1>1, PostIs
  <2>2. worker.pc # "announce" \/ status'[worker.run] = status[worker.run]
    <3>1. worker.pc = "announce" => status[worker.run] = "failed"
      BY <1>0 DEF WorkerInv
    <3>2. worker.pc = "announce" => worker.run \in Runs
      BY <1>0, WorkerHasARun
    <3> QED BY <2>1, <3>1, <3>2, <1>0 DEF Absent
  <2>3. UNCHANGED <<worker, queue, pending, sending, drainer, result>> /\ worker.pc # "down"
    BY <2>1 DEF PostVars, Up
  <2>4. worker'.pc = "announce" => status'[worker'.run] = "failed"
    BY <1>0, <2>2, <2>3 DEF WorkerInv
  <2> QED BY <1>0, <2>3, <2>4 DEF WorkerInv
<1>2. ASSUME QuietWork PROVE WorkerInv'
  BY <1>0, <1>2, QuietWorker
<1>3. ASSUME Recording PROVE WorkerInv'
  <2>1. /\ worker \in Workers /\ worker.run \in Runs
        /\ NoRun \notin Runs
    BY <1>0, <1>3, WorkerHasARun
  <2>2. \/ UNCHANGED worker /\ worker.pc \in {"pipeline", "flush"}
        \/ worker'.pc = "idle" /\ worker'.run = NoRun
        \/ worker'.pc \in {"fail", "requeue"} /\ worker'.run = worker.run
        \/ worker'.pc = "recover" /\ worker'.run = NoRun
    BY <1>0, <1>3, <2>1, RecordingEffects, GotoIs, FinishIs, StepsAndReasons
  <2>3. /\ worker'.pc \in {"down", "recover", "resume"} => sending' = Nothing
        /\ drainer' # "off" => UNCHANGED worker /\ worker.pc \in {"pipeline", "flush"}
        /\ UNCHANGED <<status, result, accepted, queue, pending>>
    BY <1>0, <1>3, RecordingEffects
  <2>4. worker'.run = NoRun <=> worker'.pc \in {"idle", "down", "recover"}
    BY <2>1, <2>2
  <2>5. worker'.pc \notin {"down", "announce", "complete"}
    BY <2>2
  <2>6. drainer' # "off" => worker'.pc \in {"pipeline", "flush"}
    BY <2>3
  <2> QED BY <2>3, <2>4, <2>5, <2>6 DEF WorkerInv
<1>4. ASSUME Publish PROVE WorkerInv'
  BY <1>0, <1>4 DEF Publish, WorkerInv
<1>5. ASSUME Crash PROVE WorkerInv'
  BY <1>0, <1>5 DEF Crash, WorkerInv
<1>6. ASSUME NEW r \in Runs, Recover(r) PROVE WorkerInv'
  BY <1>0, <1>6, RecoverIs, LocalRunsAssumption DEF WorkerInv, NoRun
<1>7. ASSUME PageSteps PROVE WorkerInv'
  BY <1>0, <1>7, PageStepsLeaveTheRest DEF WorkerInv, StreamVars, store, memory
<1> QED BY <1>0, <1>1, <1>2, <1>3, <1>4, <1>5, <1>6, <1>7, NextSteps

-----------------------------------------------------------------------------
(* Who holds an Attempt.                                                   *)

\* How a quiet step changes hands; a recording only lets go.
Hands ==
  \/ UNCHANGED <<accepted, queue, pending>> /\ worker'.run = worker.run
  \/ \E r \in Runs : /\ r \in accepted /\ accepted' = accepted \ {r} /\ queue' = Append(queue, r)
                     /\ pending' = pending /\ worker' = worker
  \/ /\ queue # <<>> /\ worker.pc = "idle" /\ worker'.pc = "prepare"
     /\ worker'.run = Head(queue) /\ queue' = Tail(queue)
     /\ accepted' = accepted /\ pending' = pending
  \/ /\ worker.pc = "down" /\ pending' = IncompleteAttempts /\ worker'.run = worker.run
     /\ accepted' = accepted /\ queue' = queue
  \/ /\ worker.pc = "requeue" /\ queue' = Append(queue, worker.run) /\ worker'.run = NoRun
     /\ accepted' = accepted /\ pending' = pending

LEMMA QuietHands ==
  ASSUME LocalTypeOK, WorkerInv, QuietWork
  PROVE  Hands
<1>0. worker \in Workers
  BY DEF LocalTypeOK, MemoryTypeOK
<1>1. CASE \E r \in Runs : Enqueue(r)
  BY <1>1 DEF Enqueue, Hands
<1>2. CASE Unregister \/ Progress
  BY <1>2 DEF Unregister, Progress, memory, Hands
<1>3. CASE Take
  BY <1>3 DEF Take, Hands
<1>4. CASE Prepare \/ Refuse \/ Start \/ BuildProvider \/ PipelineEnds \/ AwaitDrainer \/ SaveResult
           \/ FailStatus
  <2>1. \E pc, why : Goto(pc, why)
    BY <1>4 DEF Prepare, Refuse, Start, BuildProvider, PipelineEnds, AwaitDrainer, SaveResult,
                FailStatus, SetStatus
  <2>2. worker'.run = worker.run
    BY <1>0, <2>1 DEF Goto, Workers
  <2> QED BY <1>4, <2>2 DEF Prepare, Refuse, Start, BuildProvider, PipelineEnds, AwaitDrainer,
                            SaveResult, FailStatus, Hands
<1>5. CASE Restart
  <2>1. worker'.run = worker.run
    BY <1>0, <1>5 DEF Restart, Goto, Workers
  <2> QED BY <1>5, <2>1 DEF Restart, Hands
<1>6. CASE Requeue
  BY <1>6 DEF Requeue, NextToRecover, Hands
<1>7. CASE Serve
  <2>1. worker'.run = NoRun /\ worker.run = NoRun
    BY <1>7 DEF Serve, Finish, WorkerInv
  <2> QED BY <1>7, <2>1 DEF Serve, Hands
<1> QED BY <1>1, <1>2, <1>3, <1>4, <1>5, <1>6, <1>7 DEF QuietWork

LEMMA RecordingHands ==
  ASSUME LocalTypeOK, WorkerInv, Recording
  PROVE  /\ UNCHANGED <<accepted, queue, pending>>
         /\ \/ worker'.run = worker.run
            \/ worker'.run = NoRun /\ worker.pc \in {"announce", "complete", "failEvent"}
            \/ worker'.run = NoRun /\ worker.pc = "resume" /\ Refused(worker.run)
<1>1. worker \in Workers
  BY DEF LocalTypeOK, MemoryTypeOK
<1> QED BY <1>1, RecordingEffects, GotoIs, FinishIs, StepsAndReasons

\* A queue that an Attempt joins or leaves holds nothing twice.
LEMMA QueueFacts ==
  ASSUME queue \in Seq(Runs), IsInjective(queue)
  PROVE  /\ \A r \in Runs : /\ Range(Append(queue, r)) = Queued \cup {r}
                            /\ r \notin Queued => IsInjective(Append(queue, r))
         /\ queue # <<>> => /\ Head(queue) \in Queued /\ Head(queue) \in Runs
                            /\ Range(Tail(queue)) = Queued \ {Head(queue)}
                            /\ IsInjective(Tail(queue))
<1> DEFINE n == Len(queue)
<1>1. n \in Nat /\ DOMAIN queue = 1..n /\ \A i \in 1..n : queue[i] \in Runs
  BY SeqFacts
<1>2. \A i, j \in 1..n : queue[i] = queue[j] => i = j
  BY <1>1 DEF IsInjective
<1>3. Queued = {queue[i] : i \in 1..n}
  BY <1>1 DEF Queued, Range
<1>4. ASSUME NEW r \in Runs, r \notin Queued
      PROVE  IsInjective(Append(queue, r))
  <2>1. /\ DOMAIN Append(queue, r) = 1..(n + 1) /\ Append(queue, r)[n + 1] = r
        /\ \A i \in 1..n : Append(queue, r)[i] = queue[i]
    BY SeqFacts
  <2>2. \A i \in 1..(n + 1) : i \in 1..n \/ i = n + 1
    BY <1>1
  <2>3. \A i \in 1..n : queue[i] # r
    BY <1>3, <1>4
  <2> HIDE DEF n
  <2> SUFFICES ASSUME NEW i \in 1..(n + 1), NEW j \in 1..(n + 1),
                      Append(queue, r)[i] = Append(queue, r)[j]
               PROVE  i = j
    BY <2>1 DEF IsInjective
  <2>4. CASE i \in 1..n /\ j \in 1..n
    BY <2>1, <2>4, <1>2
  <2>5. CASE i = n + 1 \/ j = n + 1
    BY <2>1, <2>2, <2>3, <2>5
  <2> QED BY <2>2, <2>4, <2>5
<1>5. \A r \in Runs : Range(Append(queue, r)) = Queued \cup {r}
  BY SeqFacts DEF Queued
<1>6. ASSUME queue # <<>>
      PROVE  /\ Head(queue) \in Queued /\ Head(queue) \in Runs
             /\ Range(Tail(queue)) = Queued \ {Head(queue)}
             /\ IsInjective(Tail(queue))
  <2>1. /\ Head(queue) = queue[1] /\ Head(queue) \in Runs /\ 1 \in 1..n
        /\ DOMAIN Tail(queue) = 1..(n - 1)
        /\ \A i \in 1..(n - 1) : Tail(queue)[i] = queue[i + 1] /\ i + 1 \in 1..n
    BY <1>1, <1>6, SeqFacts
  <2>2. Range(Tail(queue)) = {queue[i + 1] : i \in 1..(n - 1)}
    BY <2>1 DEF Range
  <2> HIDE DEF n
  <2>3. \A i \in 1..n : i = 1 \/ (i - 1 \in 1..(n - 1) /\ (i - 1) + 1 = i)
    BY <1>1
  <2>4. \A i \in 1..(n - 1) : i + 1 # 1 /\ i \in Nat
    BY <1>1
  <2>5. Queued \ {queue[1]} = {queue[i + 1] : i \in 1..(n - 1)}
    <3>1. ASSUME NEW x \in Queued, x # queue[1] PROVE \E i \in 1..(n - 1) : x = queue[i + 1]
      BY <1>3, <2>3, <3>1
    <3>2. ASSUME NEW i \in 1..(n - 1) PROVE queue[i + 1] \in Queued /\ queue[i + 1] # queue[1]
      BY <1>2, <1>3, <2>1, <2>4
    <3> QED BY <3>1, <3>2
  <2>6. IsInjective(Tail(queue))
    <3> SUFFICES ASSUME NEW i \in 1..(n - 1), NEW j \in 1..(n - 1), Tail(queue)[i] = Tail(queue)[j]
                 PROVE  i = j
      BY <2>1 DEF IsInjective
    <3>1. queue[i + 1] = queue[j + 1] /\ i + 1 \in 1..n /\ j + 1 \in 1..n
      BY <2>1
    <3>2. i + 1 = j + 1
      BY <1>2, <3>1
    <3> QED BY <2>4, <3>2
  <2> QED BY <2>1, <2>2, <2>5, <2>6, <1>3
<1> QED BY <1>4, <1>5, <1>6

LEMMA NextHeld ==
  ASSUME LocalInv, Next
  PROVE  HeldInv'
<1>0. /\ LocalTypeOK /\ NumberInv /\ WorkerInv /\ AbsentInv
      /\ IsInjective(queue) /\ queue \in Seq(Runs)
      /\ \A r \in accepted : r \notin Queued /\ r \notin pending /\ r # worker.run
      /\ \A r \in Queued : r \notin pending /\ r # worker.run
      /\ worker.run \notin pending
      /\ accepted \subseteq Runs /\ pending \subseteq Runs /\ NoRun \notin Runs
      /\ Queued \subseteq Runs
  <2>1. queue \in Seq(Runs)
    BY DEF LocalInv, LocalTypeOK, MemoryTypeOK
  <2> QED BY <2>1, SeqFacts, WorkerHasARun DEF LocalInv, HeldInv, LocalTypeOK, MemoryTypeOK, Queued
<1>1. ASSUME UNCHANGED <<queue, pending>>, worker'.run = worker.run \/ worker'.run = NoRun,
             accepted' = accepted
      PROVE  HeldInv'
  <2>1. Queued' = Queued
    BY <1>1 DEF Queued
  <2> QED BY <1>0, <1>1, <2>1 DEF HeldInv
<1>2. ASSUME NEW k \in Keys, NEW d \in Digests, Post(k, d) PROVE HeldInv'
  <2>1. /\ UNCHANGED PostVars
        /\ \/ UNCHANGED accepted
           \/ \E r \in Runs : status[r] = Absent /\ accepted' = accepted \cup {r}
    BY <1>2, PostIs
  <2>2. UNCHANGED <<queue, pending, worker>> /\ Queued' = Queued
    BY <2>1 DEF PostVars, Queued
  <2>3. ASSUME NEW r \in Runs, status[r] = Absent, accepted' = accepted \cup {r}
        PROVE  HeldInv'
    <3>1. ~Held(r)
      BY <1>0, <2>3 DEF AbsentInv
    <3> QED BY <1>0, <2>2, <2>3, <3>1 DEF HeldInv, Held
  <2> QED BY <1>1, <2>1, <2>2, <2>3
<1>3. ASSUME QuietWork PROVE HeldInv'
  <2>1. Hands
    BY <1>0, <1>3, QuietHands
  <2>2. ASSUME NEW r \in accepted, accepted' = accepted \ {r}, queue' = Append(queue, r),
               pending' = pending, worker' = worker
        PROVE  HeldInv'
    <3>1. Queued' = Queued \cup {r} /\ IsInjective(queue')
      BY <1>0, <2>2, QueueFacts DEF Queued
    <3> QED BY <1>0, <2>2, <3>1 DEF HeldInv
  <2>3. ASSUME queue # <<>>, worker'.run = Head(queue), queue' = Tail(queue),
               accepted' = accepted, pending' = pending
        PROVE  HeldInv'
    <3>1. Queued' = Queued \ {worker'.run} /\ IsInjective(queue') /\ worker'.run \in Queued
      BY <1>0, <2>3, QueueFacts DEF Queued
    <3> QED BY <1>0, <2>3, <3>1 DEF HeldInv
  <2>4. ASSUME worker.pc = "down", pending' = IncompleteAttempts, worker'.run = worker.run,
               accepted' = accepted, queue' = queue
        PROVE  HeldInv'
    <3>1. accepted = {} /\ queue = <<>> /\ worker.run = NoRun
      BY <1>0, <2>4 DEF WorkerInv
    <3>2. Queued' = {}
      BY <2>4, <3>1 DEF Queued, Range
    <3>3. NoRun \notin IncompleteAttempts
      BY <1>0 DEF IncompleteAttempts
    <3> QED BY <1>0, <2>4, <3>1, <3>2, <3>3 DEF HeldInv
  <2>5. ASSUME worker.pc = "requeue", queue' = Append(queue, worker.run), worker'.run = NoRun,
               accepted' = accepted, pending' = pending
        PROVE  HeldInv'
    <3>1. worker.run \in Runs /\ worker.run \notin Queued
      BY <1>0, <2>5, WorkerHasARun
    <3>2. Queued' = Queued \cup {worker.run} /\ IsInjective(queue')
      BY <1>0, <2>5, <3>1, QueueFacts DEF Queued
    <3> QED BY <1>0, <2>5, <3>1, <3>2 DEF HeldInv
  <2> QED BY <1>1, <2>1, <2>2, <2>3, <2>4, <2>5 DEF Hands
<1>4. ASSUME Recording PROVE HeldInv'
  BY <1>0, <1>1, <1>4, RecordingHands
<1>5. ASSUME Publish PROVE HeldInv'
  BY <1>1, <1>5 DEF Publish
<1>6. ASSUME Crash PROVE HeldInv'
  <2>1. accepted' = {} /\ queue' = <<>> /\ pending' = {} /\ worker'.run = NoRun
    BY <1>6 DEF Crash
  <2>2. Queued' = {} /\ IsInjective(queue')
    BY <2>1 DEF Queued, Range, IsInjective
  <2> QED BY <2>1, <2>2 DEF HeldInv
<1>7. ASSUME NEW r \in Runs, Recover(r) PROVE HeldInv'
  <2>1. /\ r \in pending /\ pending' = pending \ {r} /\ worker'.run \in {r, NoRun}
        /\ UNCHANGED <<accepted, queue>>
    BY <1>0, <1>7, RecoverIs
  <2>2. Queued' = Queued
    BY <2>1 DEF Queued
  <2> QED BY <1>0, <2>1, <2>2 DEF HeldInv
<1>8. ASSUME PageSteps PROVE HeldInv'
  <2>1. UNCHANGED <<accepted, queue, pending, worker>>
    BY <1>0, <1>8, PageStepsLeaveTheRest DEF StreamVars, memory
  <2> QED BY <1>1, <2>1
<1> QED BY <1>0, <1>2, <1>3, <1>4, <1>5, <1>6, <1>7, <1>8, NextSteps

\* Nothing is taken into hand but a new Attempt or, after a restart, one
\* that has not ended.
LEMMA NextHands ==
  ASSUME LocalInv, Next, NEW r \in Runs, Held(r)'
  PROVE  \/ Held(r)
         \/ status[r] = Absent /\ status'[r] # Absent
         \/ r \in IncompleteAttempts /\ worker.pc = "down" /\ UNCHANGED <<status, log, result, sending, page>>
<1>0. /\ LocalTypeOK /\ NumberInv /\ WorkerInv /\ AbsentInv
      /\ IsInjective(queue) /\ queue \in Seq(Runs) /\ NoRun \notin Runs
      /\ status \in [Runs -> Statuses]
  BY WorkerHasARun DEF LocalInv, HeldInv, LocalTypeOK, MemoryTypeOK, StoreTypeOK
<1>1. ASSUME UNCHANGED <<queue, pending, accepted>>, worker'.run = worker.run \/ worker'.run = NoRun
      PROVE  Held(r)
  <2>1. Queued' = Queued
    BY <1>1 DEF Queued
  <2> QED BY <1>0, <1>1, <2>1 DEF Held
<1>2. ASSUME NEW k \in Keys, NEW d \in Digests, Post(k, d)
      PROVE  Held(r) \/ (status[r] = Absent /\ status'[r] # Absent)
  <2>1. /\ UNCHANGED PostVars
        /\ \/ UNCHANGED accepted
           \/ \E q \in Runs : /\ status[q] = Absent /\ accepted' = accepted \cup {q}
                              /\ status' = [status EXCEPT ![q] = "queued"]
    BY <1>2, PostIs
  <2>2. UNCHANGED <<queue, pending, worker>> /\ Queued' = Queued
    BY <2>1 DEF PostVars, Queued
  <2> QED BY <1>0, <1>1, <2>1, <2>2 DEF Held, Absent
<1>3. ASSUME QuietWork
      PROVE  \/ Held(r)
             \/ /\ r \in IncompleteAttempts /\ worker.pc = "down"
                /\ UNCHANGED <<status, log, result, sending, page>>
  <2>1. Hands
    BY <1>0, <1>3, QuietHands
  <2>2. ASSUME NEW q \in accepted, accepted' = accepted \ {q}, queue' = Append(queue, q),
               pending' = pending, worker' = worker
        PROVE  Held(r)
    <3>1. q \in Runs
      BY <1>0 DEF LocalTypeOK, MemoryTypeOK
    <3>2. Queued' = Queued \cup {q}
      BY <1>0, <2>2, <3>1, QueueFacts DEF Queued
    <3> QED BY <1>0, <2>2, <3>2 DEF Held
  <2>3. ASSUME queue # <<>>, worker'.run = Head(queue), queue' = Tail(queue),
               accepted' = accepted, pending' = pending
        PROVE  Held(r)
    <3>1. Queued' = Queued \ {worker'.run} /\ worker'.run \in Queued
      BY <1>0, <2>3, QueueFacts DEF Queued
    <3> QED BY <1>0, <2>3, <3>1 DEF Held
  <2>4. ASSUME worker.pc = "down", pending' = IncompleteAttempts, worker'.run = worker.run,
               accepted' = accepted, queue' = queue
        PROVE  \/ Held(r)
               \/ /\ r \in IncompleteAttempts /\ worker.pc = "down"
                  /\ UNCHANGED <<status, log, result, sending, page>>
    <3>1. Queued' = Queued
      BY <2>4 DEF Queued
    <3>2. UNCHANGED <<status, log, result, sending, page>>
      <4>1. Restart \/ Unregister \/ \E q \in Runs : Enqueue(q)
        BY <1>3, <2>4 DEF QuietWork, Take, Prepare, Refuse, Start, BuildProvider, PipelineEnds,
           AwaitDrainer, SaveResult, FailStatus, Progress, Requeue, Serve
      <4>2. Restart => UNCHANGED <<status, log, result, sending, page>>
        BY DEF Restart, store
      <4>3. Unregister => UNCHANGED <<status, log, result, sending, page>>
        BY DEF Unregister, memory
      <4>4. \A q \in Runs : Enqueue(q) => UNCHANGED <<status, log, result, sending, page>>
        BY DEF Enqueue, store
      <4> QED BY <4>1, <4>2, <4>3, <4>4
    <3> QED BY <1>0, <2>4, <3>1, <3>2 DEF Held
  <2>5. ASSUME worker.pc = "requeue", queue' = Append(queue, worker.run), worker'.run = NoRun,
               accepted' = accepted, pending' = pending
        PROVE  Held(r)
    <3>1. worker.run \in Runs
      BY <1>0, <2>5, WorkerHasARun
    <3>2. Queued' = Queued \cup {worker.run}
      BY <1>0, <2>5, <3>1, QueueFacts DEF Queued
    <3> QED BY <1>0, <2>5, <3>1, <3>2 DEF Held
  <2> QED BY <1>1, <2>1, <2>2, <2>3, <2>4, <2>5 DEF Hands
<1>4. ASSUME Recording PROVE Held(r)
  BY <1>0, <1>1, <1>4, RecordingHands
<1>5. ASSUME Publish PROVE Held(r)
  BY <1>1, <1>5 DEF Publish
<1>6. ~Crash
  <2> SUFFICES ASSUME Crash PROVE FALSE
    OBVIOUS
  <2>1. accepted' = {} /\ queue' = <<>> /\ pending' = {} /\ worker'.run = NoRun
    BY DEF Crash
  <2>2. Queued' = {}
    BY <2>1 DEF Queued, Range
  <2> QED BY <1>0, <2>1, <2>2 DEF Held
<1>7. ASSUME NEW q \in Runs, Recover(q) PROVE Held(r)
  <2>1. /\ q \in pending /\ pending' = pending \ {q} /\ worker'.run \in {q, NoRun}
        /\ UNCHANGED <<accepted, queue>>
    BY <1>0, <1>7, RecoverIs
  <2>2. Queued' = Queued
    BY <2>1 DEF Queued
  <2> QED BY <1>0, <2>1, <2>2 DEF Held
<1>8. ASSUME PageSteps PROVE Held(r)
  <2>1. UNCHANGED <<accepted, queue, pending, worker>>
    BY <1>0, <1>8, PageStepsLeaveTheRest DEF StreamVars, memory
  <2> QED BY <1>1, <2>1
<1> QED BY <1>0, <1>2, <1>3, <1>4, <1>5, <1>6, <1>7, <1>8, NextSteps

-----------------------------------------------------------------------------
(* The log.                                                                *)

\* What happens to an Attempt's events: nothing, its creation, or one more
\* event of the Attempt the worker has, beyond all others.
LogStep(r) ==
  \/ log'[r] = log[r]
  \/ /\ status[r] = Absent /\ log'[r] = {Event(1, "created", "none")}
     /\ status'[r] = "queued" /\ UNCHANGED <<sending, page, worker, counter, journal, result>>
     /\ r \in accepted'
  \/ /\ r = worker.run
     /\ \E n \in Nat \ {0}, kind \in Kinds, why \in Reasons :
          /\ log'[r] = log[r] \cup {Event(n, kind, why)}
          /\ \A m \in Numbers(r) : m < n
          /\ sending = Nothing /\ sending' = [run |-> r, event |-> Event(n, kind, why)]
          /\ counter'[r] = n
          /\ kind = "completed" => worker.pc = "complete" /\ worker'.run = NoRun
          /\ kind = "failed" => worker.pc \in {"announce", "failEvent"} /\ worker'.run = NoRun
     /\ UNCHANGED <<status, page, journal, accepted, queue, pending, result, faults>>

LEMMA RecordedLog ==
  ASSUME LocalTypeOK, NumberInv, worker.run \in Runs, NEW kind \in Kinds, NEW why \in Reasons,
         Recorded(worker.run, kind, why)
  PROVE  \E n \in Nat \ {0} :
           /\ n = NextSequence(worker.run)
           /\ log'[worker.run] = log[worker.run] \cup {Event(n, kind, why)}
           /\ \A m \in Numbers(worker.run) : m < n
           /\ sending = Nothing /\ sending' = [run |-> worker.run, event |-> Event(n, kind, why)]
           /\ counter'[worker.run] = n
           /\ UNCHANGED faults
           /\ \A q \in Runs \ {worker.run} : log'[q] = log[q] /\ counter'[q] = counter[q]
<1>1. Known(worker.run) /\ worker.run # NoRun
  BY LocalRunsAssumption DEF NumberInv, NoRun
<1>2. NextSequence(worker.run) \in Nat \ {0} /\ \A n \in Numbers(worker.run) : n < NextSequence(worker.run)
  BY <1>1, NextIsBeyond DEF Recorded
<1>3. log \in [Runs -> SUBSET Events] /\ counter \in [Runs -> Nat]
  BY DEF LocalTypeOK, StoreTypeOK, MemoryTypeOK
<1> QED BY <1>2, <1>3 DEF Recorded

LEMMA RecordingLog ==
  ASSUME LocalTypeOK, NumberInv, WorkerInv, Recording, NEW r \in Runs
  PROVE  LogStep(r)
<1>1. worker.run \in Runs /\ worker \in Workers
  BY WorkerHasARun
<1>2. UNCHANGED <<status, page, journal, accepted, queue, pending, result>>
  BY DEF Recording
<1>3. ASSUME NEW kind \in Kinds, NEW why \in Reasons, Recorded(worker.run, kind, why),
             kind = "completed" => worker.pc = "complete" /\ worker'.run = NoRun,
             kind = "failed" => worker.pc \in {"announce", "failEvent"} /\ worker'.run = NoRun
      PROVE  LogStep(r)
  <2>1. PICK n \in Nat \ {0} :
           /\ log'[worker.run] = log[worker.run] \cup {Event(n, kind, why)}
           /\ \A m \in Numbers(worker.run) : m < n
           /\ sending = Nothing /\ sending' = [run |-> worker.run, event |-> Event(n, kind, why)]
           /\ counter'[worker.run] = n
           /\ UNCHANGED faults
           /\ \A q \in Runs \ {worker.run} : log'[q] = log[q]
    BY <1>1, <1>3, RecordedLog
  <2>2. CASE r # worker.run
    BY <2>1, <2>2 DEF LogStep
  <2>3. CASE r = worker.run
    BY <1>2, <1>3, <2>1, <2>3 DEF LogStep
  <2> QED BY <2>2, <2>3
<1>4. CASE \E kind \in {"completed", "failed"}, why \in Reasons : AnnounceRecords(kind, why)
  <2>1. PICK kind \in {"completed", "failed"}, why \in Reasons : AnnounceRecords(kind, why)
    BY <1>4
  <2>2. /\ kind \in Kinds /\ Recorded(worker.run, kind, why) /\ Finish
        /\ kind = "completed" => worker.pc = "complete"
        /\ kind = "failed" => worker.pc \in {"announce", "failEvent"}
    BY <2>1 DEF AnnounceRecords, Kinds, Terminal
  <2>3. worker'.run = NoRun
    BY <2>2, FinishIs
  <2> QED BY <1>3, <2>2, <2>3
<1>5. CASE ProgressRecords
  <2>1. "progress" \in Kinds /\ "none" \in Reasons /\ Recorded(worker.run, "progress", "none")
    BY <1>5 DEF ProgressRecords, Kinds, Reasons
  <2> QED BY <1>3, <2>1
<1>6. CASE ResumeRecords
  <2>1. "resumed" \in Kinds /\ "none" \in Reasons /\ Recorded(worker.run, "resumed", "none")
    BY <1>6 DEF ResumeRecords, Kinds, Reasons
  <2> QED BY <1>3, <2>1
<1>7. CASE RecordingRefused
  BY <1>7 DEF RecordingRefused, Refused, LogStep
<1> QED BY <1>4, <1>5, <1>6, <1>7 DEF Recording

LEMMA NextLog ==
  ASSUME LocalInv, Next, NEW r \in Runs
  PROVE  LogStep(r)
<1>0. LocalTypeOK /\ NumberInv /\ WorkerInv /\ log \in [Runs -> SUBSET Events]
      /\ status \in [Runs -> Statuses]
  BY DEF LocalInv, LocalTypeOK, StoreTypeOK
<1>1. ASSUME NEW k \in Keys, NEW d \in Digests, Post(k, d) PROVE LogStep(r)
  <2>1. /\ UNCHANGED <<sending, page, worker, counter, journal, result>>
        /\ \/ UNCHANGED log
           \/ \E q \in Runs : /\ status[q] = Absent
                              /\ status' = [status EXCEPT ![q] = "queued"]
                              /\ log' = [log EXCEPT ![q] = {Event(1, "created", "none")}]
                              /\ accepted' = accepted \cup {q}
    BY <1>1, PostIs DEF PostVars
  <2> QED BY <1>0, <2>1 DEF LogStep
<1>2. ASSUME UNCHANGED log PROVE LogStep(r)
  BY <1>2 DEF LogStep
<1>3. QuietWork => UNCHANGED log
  BY QuietEffects
<1>4. Publish \/ Crash => UNCHANGED log
  BY DEF Publish, Crash, store
<1>5. ASSUME NEW q \in Runs, Recover(q) PROVE UNCHANGED log
  BY <1>0, <1>5, RecoverIs
<1>6. PageSteps => UNCHANGED log
  BY <1>0, PageStepsLeaveTheRest DEF StreamVars, store
<1>7. Recording => LogStep(r)
  BY <1>0, RecordingLog
<1> QED BY <1>0, <1>1, <1>2, <1>3, <1>4, <1>5, <1>6, <1>7, NextSteps

\* How the numbers of an Attempt grow.
LEMMA NumbersGrow ==
  ASSUME LocalInv, Next, NEW r \in Runs
  PROVE  /\ Numbers(r) \subseteq Numbers(r)'
         /\ \A n \in Numbers(r)' \ Numbers(r), m \in Numbers(r) : m < n
<1>1. LogStep(r)
  BY NextLog
<1>2. LocalTypeOK /\ AbsentInv
  BY DEF LocalInv
<1>3. CASE log'[r] = log[r]
  BY <1>3 DEF Numbers
<1>4. CASE status[r] = Absent
  <2>1. log[r] = {}
    BY <1>2, <1>4 DEF AbsentInv
  <2> QED BY <2>1 DEF Numbers
<1>5. ASSUME NEW n \in Nat \ {0}, NEW kind, NEW why, log'[r] = log[r] \cup {Event(n, kind, why)},
             \A m \in Numbers(r) : m < n
      PROVE  /\ Numbers(r) \subseteq Numbers(r)'
             /\ \A i \in Numbers(r)' \ Numbers(r), m \in Numbers(r) : m < i
  <2>1. Numbers(r)' = Numbers(r) \cup {n}
    <3>1. Event(n, kind, why).seq = n
      BY DEF Event
    <3>2. Numbers(r)' = {e.seq : e \in log[r] \cup {Event(n, kind, why)}}
      BY <1>5 DEF Numbers
    <3>3. Numbers(r)' = {e.seq : e \in log[r]} \cup {Event(n, kind, why).seq}
      BY <3>2
    <3> QED BY <3>1, <3>3 DEF Numbers
  <2> QED BY <1>5, <2>1
<1> QED BY <1>1, <1>3, <1>4, <1>5 DEF LogStep

-----------------------------------------------------------------------------
(* What does not exist, and what is not forgotten.                         *)

\* A quiet step changes the status and the result of the worker's Attempt only.
LEMMA QuietStatus ==
  ASSUME LocalTypeOK, WorkerInv, QuietWork
  PROVE  /\ \A r \in Runs :
              /\ r # worker.run => status'[r] = status[r] /\ (r \in result' <=> r \in result)
              /\ status'[r] = Absent => status[r] = Absent
         /\ result \subseteq result'
         /\ worker'.pc = "failEvent" =>
              \/ worker'.run = worker.run /\ worker.pc = "failEvent" /\ status' = status
              \/ worker'.run = worker.run /\ status'[worker.run] = "failed"
              \/ faults' = faults + 1
<1>0. status \in [Runs -> Statuses] /\ worker \in Workers
  BY DEF LocalTypeOK, StoreTypeOK, MemoryTypeOK
<1>1. CASE \E q \in Runs : Enqueue(q)
  BY <1>1 DEF Enqueue, store
<1>2. CASE Unregister \/ Progress
  BY <1>2 DEF Unregister, Progress, store, memory
<1>3. CASE Take
  BY <1>3 DEF Take, store
<1>4. CASE Prepare
  <2>1. worker'.pc \in {"refuse", "start", "fail"}
    <3>1. \/ Goto("refuse", "missing") \/ Goto("start", "none")
          \/ Goto("refuse", "unprepared") \/ Goto("fail", "error")
      BY <1>4 DEF Prepare
    <3> QED BY <1>0, <3>1, GotoIs, StepsAndReasons
  <2> QED BY <1>4, <2>1 DEF Prepare, store
<1>5. ASSUME Refuse \/ Start
      PROVE  /\ worker'.pc \in {"announce", "build", "fail"} /\ result' = result
             /\ status' = status \/ \E s \in {"failed", "running"} : status' = [status EXCEPT ![worker.run] = s]
  <2>1. Goto("announce", worker.why) \/ Goto("build", "none") \/ Goto("fail", "error")
    BY <1>5 DEF Refuse, Start, SetStatus
  <2>2. worker.why \in Reasons
    BY <1>0 DEF Workers
  <2>3. worker'.pc \in {"announce", "build", "fail"}
    BY <1>0, <2>1, <2>2, GotoIs, StepsAndReasons
  <2> QED BY <1>5, <2>3 DEF Refuse, Start, SetStatus
<1>6. ASSUME SaveResult
      PROVE  /\ worker'.pc \in {"complete", "fail"}
             /\ result' = result \/ result' = result \cup {worker.run}
             /\ status' = status \/ status' = [status EXCEPT ![worker.run] = "completed"]
  <2>1. Goto("complete", "none") \/ Goto("fail", "error")
    BY <1>6 DEF SaveResult
  <2>2. worker'.pc \in {"complete", "fail"}
    BY <1>0, <2>1, GotoIs, StepsAndReasons
  <2> QED BY <1>6, <2>2 DEF SaveResult
<1>7. ASSUME FailStatus
      PROVE  /\ result' = result /\ worker'.run = worker.run
             /\ \/ status' = [status EXCEPT ![worker.run] = "failed"]
                \/ faults' = faults + 1 /\ status' = status
             /\ worker.run \in Runs
  <2>1. Goto("failEvent", "error")
    BY <1>7 DEF FailStatus, SetStatus
  <2>2. worker'.run = worker.run
    BY <1>0, <2>1, GotoIs, StepsAndReasons
  <2>3. worker.run \in Runs
    BY <1>7, WorkerHasARun DEF FailStatus
  <2> QED BY <1>7, <2>2, <2>3 DEF FailStatus, SetStatus, Fault
<1>8. CASE BuildProvider \/ PipelineEnds \/ AwaitDrainer
  <2>1. Goto("pipeline", "none") \/ Goto("fail", "error") \/ Goto("flush", "none")
        \/ Goto("flush", "error") \/ Goto("save", "none")
    BY <1>8 DEF BuildProvider, PipelineEnds, AwaitDrainer
  <2>2. worker'.pc \in {"pipeline", "fail", "flush", "save"}
    BY <1>0, <2>1, GotoIs, StepsAndReasons
  <2> QED BY <1>8, <2>2 DEF BuildProvider, PipelineEnds, AwaitDrainer, store
<1>9. CASE Restart \/ Requeue \/ Serve
  <2>1. worker'.pc \in {"recover", "idle"}
    BY <1>0, <1>9, GotoIs, FinishIs, StepsAndReasons DEF Restart, Requeue, Serve
  <2> QED BY <1>9, <2>1 DEF Restart, Requeue, Serve, store
<1>10. CASE Refuse \/ Start
  BY <1>0, <1>5, <1>10 DEF Absent
<1>11. CASE SaveResult
  BY <1>0, <1>6, <1>11 DEF Absent
<1>12. CASE FailStatus
  BY <1>0, <1>7, <1>12 DEF Absent
<1> QED BY <1>1, <1>2, <1>3, <1>4, <1>8, <1>9, <1>10, <1>11, <1>12 DEF QuietWork

\* How the store and the page name Attempts.
LEMMA NextNames ==
  ASSUME LocalInv, Next, NEW r \in Runs
  PROVE  /\ status'[r] = Absent => status[r] = Absent
         /\ ~Held(r) => status'[r] = status[r] \/ status[r] = Absent
         /\ result \subseteq result' /\ (r \in result' => r \in result \/ Held(r))
         /\ sending' = sending \/ sending' = Nothing \/ sending'.run = worker.run
         /\ page'.run = page.run \/ (page'.run \in Runs /\ status[page'.run] \in Incomplete)
<1>0. LocalTypeOK /\ NumberInv /\ WorkerInv /\ status \in [Runs -> Statuses] /\ worker \in Workers
      /\ page \in Pages
  BY DEF LocalInv, LocalTypeOK, StoreTypeOK, MemoryTypeOK, PageTypeOK, Pages
<1> DEFINE Names ==
         /\ status'[r] = Absent => status[r] = Absent
         /\ ~Held(r) => status'[r] = status[r] \/ status[r] = Absent
         /\ result \subseteq result' /\ (r \in result' => r \in result \/ Held(r))
         /\ sending' = sending \/ sending' = Nothing \/ sending'.run = worker.run
         /\ page'.run = page.run \/ (page'.run \in Runs /\ status[page'.run] \in Incomplete)
<1>1. ASSUME NEW k \in Keys, NEW d \in Digests, Post(k, d) PROVE Names
  <2>1. /\ UNCHANGED <<sending, page, worker, result>>
        /\ \/ UNCHANGED status
           \/ \E q \in Runs : status[q] = Absent /\ status' = [status EXCEPT ![q] = "queued"]
    BY <1>1, PostIs DEF PostVars
  <2> QED BY <1>0, <2>1 DEF Absent
<1>2. ASSUME QuietWork PROVE Names
  <2>1. UNCHANGED <<sending, page>>
    BY <1>2, QuietEffects
  <2> QED BY <1>0, <1>2, <2>1, QuietStatus DEF Held
<1>3. ASSUME Recording PROVE Names
  BY <1>0, <1>3, RecordingEffects
<1>4. ASSUME Publish PROVE Names
  <2>1. page'.run = page.run
    BY <1>0, <1>4 DEF Publish, Broadcast, Pages
  <2> QED BY <1>4, <2>1 DEF Publish
<1>5. ASSUME Crash PROVE Names
  <2>1. page'.run = page.run
    BY <1>0, <1>5, BrokenIs DEF Crash
  <2> QED BY <1>5, <2>1 DEF Crash, store
<1>6. ASSUME NEW q \in Runs, Recover(q) PROVE Names
  <2>1. /\ UNCHANGED <<result, sending, page>> /\ q \in pending
        /\ \/ status' = [status EXCEPT ![q] = IF @ = "running" THEN "interrupted" ELSE @]
           \/ status' = status
    BY <1>0, <1>6, RecoverIs DEF Mark
  <2> QED BY <1>0, <2>1 DEF Held, Absent
<1>7. ASSUME PageSteps PROVE Names
  <2>1. UNCHANGED <<status, result, sending>>
    BY <1>0, <1>7, PageStepsLeaveTheRest DEF StreamVars, store, memory
  <2>2. CASE \E q \in Followed : Open(q)
    <3>1. PICK q \in Followed : Open(q)
      BY <2>2
    <3>2. page' = Connected(page, q, 0) /\ q \in Runs /\ 0 \in Nat
      BY <3>1, LocalRunsAssumption DEF Open
    <3>3. page'.run = q
      BY <1>0, <3>2, ConnectedIs
    <3> QED BY <2>1, <3>1, <3>2, <3>3 DEF Open
  <2>3. CASE Lose
    BY <1>0, <2>1, <2>3, BrokenIs DEF Lose
  <2>4. CASE Reconnect \/ GiveUp \/ ListStored \/ DeliverStored \/ DeliverLive
    <3>1. page'.run = page.run
      BY <1>0, <2>4 DEF Reconnect, GiveUp, ListStored, DeliverStored, DeliverLive, Connected, Replay,
                        Delivered, Pages
    <3> QED BY <2>1, <3>1
  <2> QED BY <1>7, <2>2, <2>3, <2>4 DEF PageSteps
<1> QED BY <1>0, <1>1, <1>2, <1>3, <1>4, <1>5, <1>6, <1>7, NextSteps

LEMMA NextAbsent ==
  ASSUME LocalInv, Next
  PROVE  AbsentInv'
<1> SUFFICES ASSUME NEW r \in Runs, status'[r] = Absent
             PROVE  /\ ~Held(r)' /\ log'[r] = {} /\ r \notin result' /\ sending'.run # r
                    /\ page'.run # r
  BY DEF AbsentInv
<1>0. status[r] = Absent
  BY NextNames
<1>1. ~Held(r) /\ log[r] = {} /\ r \notin result /\ sending.run # r /\ page.run # r
  BY <1>0 DEF LocalInv, AbsentInv
<1>2. ~Held(r)'
  BY <1>0, <1>1, NextHands DEF IncompleteAttempts, Incomplete, Absent
<1>3. worker.run # r
  BY <1>1 DEF Held
<1>4. log'[r] = {}
  BY <1>1, <1>3, NextLog DEF LogStep, Absent
<1>5. r \notin result'
  BY <1>1, NextNames
<1>6. sending'.run # r
  <2>1. Nothing.run = NoRun /\ NoRun # r
    BY LocalRunsAssumption DEF Nothing, NoRun
  <2>2. sending' = sending \/ sending' = Nothing \/ sending'.run = worker.run
    BY NextNames
  <2> QED BY <1>1, <1>3, <2>1, <2>2
<1>7. page'.run # r
  <2>1. page'.run = page.run \/ status[page'.run] \in Incomplete
    BY NextNames
  <2> QED BY <1>0, <1>1, <2>1 DEF Incomplete, Absent
<1> QED BY <1>2, <1>4, <1>5, <1>6, <1>7

LEMMA NextKept ==
  ASSUME LocalInv, Next
  PROVE  KeptInv'
<1>0. /\ LocalTypeOK /\ NumberInv /\ WorkerInv /\ HeldInv /\ KeptInv
      /\ status \in [Runs -> Statuses] /\ worker \in Workers /\ faults \in Nat
      /\ queue \in Seq(Runs) /\ IsInjective(queue)
  BY DEF LocalInv, LocalTypeOK, StoreTypeOK, MemoryTypeOK, HeldInv
<1>1. SUFFICES ASSUME faults' = 0
               PROVE  /\ worker'.pc # "down" => \A r \in IncompleteAttempts' : Held(r)'
                      /\ worker'.pc = "failEvent" => status'[worker'.run] = "failed"
  BY DEF KeptInv
<1> DEFINE Kept ==
         /\ worker'.pc # "down" => \A r \in IncompleteAttempts' : Held(r)'
         /\ worker'.pc = "failEvent" => status'[worker'.run] = "failed"
<1>2. faults = 0 =>
        /\ worker.pc # "down" => \A r \in IncompleteAttempts : Held(r)
        /\ worker.pc = "failEvent" => status[worker.run] = "failed"
  BY <1>0 DEF KeptInv
<1>3. ASSUME UNCHANGED <<status, result, accepted, queue, pending, worker, faults>>
      PROVE  Kept
  <2>1. IncompleteAttempts' = IncompleteAttempts /\ \A r \in Runs : Held(r)' <=> Held(r)
    BY <1>3 DEF IncompleteAttempts, Held, Queued
  <2>2. IncompleteAttempts \subseteq Runs
    BY DEF IncompleteAttempts
  <2> QED BY <1>1, <1>2, <1>3, <2>1, <2>2
<1>4. ASSUME NEW k \in Keys, NEW d \in Digests, Post(k, d) PROVE Kept
  <2>1. UNCHANGED PostVars /\ Up
        /\ \/ UNCHANGED <<status, log, accepted>>
           \/ \E q \in Runs : /\ status[q] = Absent /\ accepted' = accepted \cup {q}
                              /\ status' = [status EXCEPT ![q] = "queued"]
    BY <1>4, PostIs
  <2>2. UNCHANGED <<queue, pending, worker, faults, result>> /\ Queued' = Queued
    BY <2>1 DEF PostVars, Queued
  <2>3. ASSUME NEW q \in Runs, status[q] = Absent, accepted' = accepted \cup {q},
               status' = [status EXCEPT ![q] = "queued"]
        PROVE  Kept
    <3>1. worker.pc # "down"
      BY <2>1 DEF Up
    <3>2. \A r \in Runs : Held(r) => Held(r)'
      BY <2>2, <2>3 DEF Held
    <3>3. Held(q)'
      BY <2>3 DEF Held
    <3>4. \A r \in IncompleteAttempts' : r \in IncompleteAttempts \/ r = q
      BY <1>0, <2>2, <2>3 DEF IncompleteAttempts
    <3>5. worker.pc = "failEvent" => worker.run # q
      BY <1>1, <1>2, <2>2, <2>3 DEF Absent
    <3>6. IncompleteAttempts \subseteq Runs
      BY DEF IncompleteAttempts
    <3> QED BY <1>0, <1>1, <1>2, <2>2, <2>3, <3>1, <3>2, <3>3, <3>4, <3>5, <3>6
  <2> QED BY <1>3, <2>1, <2>2, <2>3
<1>5. ASSUME QuietWork PROVE Kept
  <2>0. faults' = faults
    BY <1>0, <1>1, <1>5, QuietEffects
  <2>1. /\ \A r \in Runs : r # worker.run => status'[r] = status[r] /\ (r \in result' <=> r \in result)
        /\ worker'.pc = "failEvent" =>
              \/ worker'.run = worker.run /\ worker.pc = "failEvent" /\ status' = status
              \/ worker'.run = worker.run /\ status'[worker.run] = "failed"
              \/ faults' = faults + 1
    BY <1>0, <1>5, QuietStatus
  <2>2. worker'.pc = "failEvent" => status'[worker'.run] = "failed"
    BY <1>0, <1>1, <1>2, <2>0, <2>1
  <2>3. Hands
    BY <1>0, <1>5, QuietHands
  <2>4. ASSUME \A r \in Runs : Held(r) => Held(r)', worker.pc # "down"
        PROVE  worker'.pc # "down" => \A r \in IncompleteAttempts' : Held(r)'
    <3> SUFFICES ASSUME worker'.pc # "down", NEW r \in IncompleteAttempts'
                 PROVE  Held(r)'
      OBVIOUS
    <3>0. r \in Runs
      BY DEF IncompleteAttempts
    <3>1. CASE r = worker.run
      BY <2>4, <3>0, <3>1 DEF Held
    <3>2. CASE r # worker.run
      BY <1>1, <1>2, <2>0, <2>1, <2>4, <3>0, <3>2 DEF IncompleteAttempts
    <3> QED BY <3>1, <3>2
  <2>5. CASE worker.pc = "down"
    <3>1. Restart \/ Unregister \/ \E q \in Runs : Enqueue(q)
      BY <1>5, <2>5 DEF QuietWork, Take, Prepare, Refuse, Start, BuildProvider, PipelineEnds,
         AwaitDrainer, SaveResult, FailStatus, Progress, Requeue, Serve
    <3>2. CASE Restart
      <4>1. pending' = IncompleteAttempts /\ UNCHANGED <<status, result>>
        BY <3>2 DEF Restart, store
      <4>2. IncompleteAttempts' = IncompleteAttempts
        BY <4>1 DEF IncompleteAttempts
      <4> QED BY <2>2, <4>1, <4>2 DEF Held
    <3>3. CASE Unregister \/ \E q \in Runs : Enqueue(q)
      <4>1. worker'.pc = "down"
        BY <2>5, <3>3 DEF Unregister, Enqueue, memory
      <4> QED BY <2>2, <4>1
    <3> QED BY <3>1, <3>2, <3>3
  <2>6. ASSUME UNCHANGED <<accepted, queue, pending>>, worker'.run = worker.run
        PROVE  \A r \in Runs : Held(r) => Held(r)'
    BY <2>6 DEF Held, Queued
  <2>7. ASSUME NEW q \in Runs, q \in accepted, accepted' = accepted \ {q}, queue' = Append(queue, q),
               pending' = pending, worker' = worker
        PROVE  \A r \in Runs : Held(r) => Held(r)'
    <3>1. Queued' = Queued \cup {q}
      BY <1>0, <2>7, QueueFacts DEF Queued
    <3> QED BY <2>7, <3>1 DEF Held
  <2>8. ASSUME queue # <<>>, worker.pc = "idle", worker'.run = Head(queue), queue' = Tail(queue),
               accepted' = accepted, pending' = pending
        PROVE  \A r \in Runs : Held(r) => Held(r)'
    <3>1. Queued' = Queued \ {worker'.run}
      BY <1>0, <2>8, QueueFacts DEF Queued
    <3>2. worker.run \notin Runs
      BY <1>0, <2>8, WorkerHasARun DEF WorkerInv
    <3> QED BY <2>8, <3>1, <3>2 DEF Held
  <2>9. ASSUME worker.pc = "requeue", queue' = Append(queue, worker.run), worker'.run = NoRun,
               accepted' = accepted, pending' = pending
        PROVE  \A r \in Runs : Held(r) => Held(r)'
    <3>1. worker.run \in Runs
      BY <1>0, <2>9, WorkerHasARun
    <3>2. Queued' = Queued \cup {worker.run}
      BY <1>0, <2>9, <3>1, QueueFacts DEF Queued
    <3> QED BY <2>9, <3>2 DEF Held
  <2> QED BY <2>2, <2>3, <2>4, <2>5, <2>6, <2>7, <2>8, <2>9 DEF Hands
<1>6. ASSUME Recording PROVE Kept
  <2>1. /\ UNCHANGED <<status, result, accepted, queue, pending>>
        /\ worker.pc \notin {"idle", "down", "recover"}
        /\ \/ worker'.run = worker.run
           \/ worker'.run = NoRun /\ worker.pc \in {"announce", "complete", "failEvent"}
           \/ worker'.run = NoRun /\ worker.pc = "resume" /\ Refused(worker.run)
        /\ \/ UNCHANGED worker /\ worker.pc \in {"pipeline", "flush"}
           \/ worker'.pc \in {"idle", "fail", "requeue", "recover"}
    BY <1>0, <1>6, RecordingHands, RecordingEffects, GotoIs, FinishIs, StepsAndReasons
  <2>2. worker'.pc # "failEvent"
    BY <2>1
  <2>3. faults = 0
    BY <1>0, <1>1, <1>6 DEF Recording, AnnounceRecords, ProgressRecords, ResumeRecords,
                            RecordingRefused, Recorded, Refused
  <2>4. IncompleteAttempts' = IncompleteAttempts /\ Queued' = Queued
    BY <2>1 DEF IncompleteAttempts, Queued
  <2>5. CASE worker'.run = worker.run
    BY <1>2, <2>1, <2>2, <2>3, <2>4, <2>5 DEF Held
  <2>6. CASE worker.pc \in {"announce", "complete", "failEvent"}
    <3>1. worker.run \notin IncompleteAttempts
      BY <1>0, <1>2, <2>3, <2>6 DEF WorkerInv, IncompleteAttempts, Incomplete
    <3> QED BY <1>2, <2>1, <2>2, <2>3, <2>4, <3>1 DEF Held
  <2>7. ~(worker.pc = "resume" /\ Refused(worker.run))
    <3> SUFFICES ASSUME worker.pc = "resume", Refused(worker.run) PROVE FALSE
      OBVIOUS
    <3>1. NextSequence(worker.run) \in Numbers(worker.run)
      BY <1>0, <1>1 DEF Refused
    <3>2. worker.run \in Runs
      BY <1>0, WorkerHasARun
    <3>3. counter[worker.run] \in Nat /\ NextSequence(worker.run) <= counter[worker.run]
      BY <1>0, <3>1, <3>2 DEF NumberInv, LocalTypeOK, MemoryTypeOK
    <3> QED BY <3>3 DEF NextSequence
  <2> QED BY <2>1, <2>5, <2>6, <2>7
<1>7. ASSUME Publish PROVE Kept
  <2>1. faults' = faults /\ UNCHANGED <<status, result, accepted, queue, pending, worker>>
    BY <1>0, <1>1, <1>7 DEF Publish, Fault
  <2> QED BY <1>3, <2>1
<1>8. ASSUME Crash PROVE Kept
  BY <1>8 DEF Crash
<1>9. ASSUME NEW q \in Runs, Recover(q) PROVE Kept
  <2>1. /\ UNCHANGED <<result, accepted, queue>> /\ pending' = pending \ {q}
        /\ worker.pc = "recover"
        /\ status' = [status EXCEPT ![q] = IF @ = "running" THEN "interrupted" ELSE @]
        /\ worker'.pc = "resume" /\ worker'.run = q /\ faults' = faults
    <3>1. faults' = faults
      BY <1>0, <1>1, <1>9, RecoverIs DEF LocalTypeOK, MemoryTypeOK
    <3> QED BY <1>0, <1>9, <3>1, RecoverIs DEF Mark, LocalTypeOK, MemoryTypeOK
  <2>2. worker.run \notin Runs /\ Queued' = Queued
    BY <1>0, <2>1, WorkerHasARun DEF WorkerInv, Queued
  <2>3. IncompleteAttempts' \subseteq IncompleteAttempts /\ IncompleteAttempts \subseteq Runs
    BY <1>0, <2>1 DEF IncompleteAttempts, Incomplete
  <2>4. \A r \in Runs : Held(r) => Held(r)'
    BY <2>1, <2>2 DEF Held
  <2> QED BY <1>1, <1>2, <2>1, <2>3, <2>4
<1>10. ASSUME PageSteps PROVE Kept
  <2>1. UNCHANGED <<status, result, accepted, queue, pending, worker, faults>>
    BY <1>0, <1>10, PageStepsLeaveTheRest DEF StreamVars, store, memory
  <2> QED BY <1>3, <2>1
<1> QED BY <1>0, <1>4, <1>5, <1>6, <1>7, <1>8, <1>9, <1>10, NextSteps

-----------------------------------------------------------------------------
(* Numbers.                                                                *)

\* The counter moves for the Attempt the worker has, or hydrated.
LEMMA QuietCounter ==
  ASSUME LocalTypeOK, NumberInv, WorkerInv, QuietWork
  PROVE  /\ UNCHANGED log
         /\ \/ UNCHANGED counter
            \/ counter' = HydratedCounter(worker.run) /\ worker.run \in Runs
         /\ worker'.pc = "resume" => UNCHANGED <<worker, counter>>
<1>0. worker \in Workers
  BY DEF LocalTypeOK, MemoryTypeOK
<1>1. UNCHANGED log
  BY QuietEffects
<1>2. CASE \E q \in Runs : Enqueue(q)
  BY <1>1, <1>2 DEF Enqueue
<1>3. CASE Unregister \/ Progress
  BY <1>1, <1>3 DEF Unregister, Progress, memory
<1>4. CASE Prepare
  <2>1. worker'.pc \in {"refuse", "start", "fail"}
    <3>1. \/ Goto("refuse", "missing") \/ Goto("start", "none")
          \/ Goto("refuse", "unprepared") \/ Goto("fail", "error")
      BY <1>4 DEF Prepare
    <3> QED BY <1>0, <3>1, GotoIs, StepsAndReasons
  <2>2. worker.run \in Runs
    BY <1>4, WorkerHasARun DEF Prepare
  <2>3. counter' = counter \/ counter' = HydratedCounter(worker.run)
    BY <1>4 DEF Prepare
  <2> QED BY <1>1, <2>1, <2>2, <2>3
<1>5. CASE Refuse \/ Start \/ FailStatus \/ SaveResult \/ BuildProvider \/ PipelineEnds \/ AwaitDrainer
  <2>1. \E pc \in WorkerSteps \ {"resume"}, why \in Reasons : Goto(pc, why)
    <3>1. worker.why \in Reasons
      BY <1>0 DEF Workers
    <3>2. \/ Goto("announce", worker.why) \/ Goto("fail", "error") \/ Goto("build", "none")
          \/ Goto("failEvent", "error") \/ Goto("complete", "none") \/ Goto("pipeline", "none")
          \/ Goto("flush", "none") \/ Goto("flush", "error") \/ Goto("save", "none")
      BY <1>5 DEF Refuse, Start, FailStatus, SetStatus, SaveResult, BuildProvider, PipelineEnds,
                  AwaitDrainer
    <3>3. {"announce", "fail", "build", "failEvent", "complete", "pipeline", "flush", "save"}
            \subseteq WorkerSteps \ {"resume"} /\ {"error", "none"} \subseteq Reasons
      BY StepsAndReasons
    <3> QED BY <3>1, <3>2, <3>3
  <2>2. worker'.pc # "resume"
    BY <1>0, <2>1, GotoIs
  <2> QED BY <1>1, <1>5, <2>2 DEF Refuse, Start, FailStatus, SaveResult, BuildProvider,
                                  PipelineEnds, AwaitDrainer
<1>6. CASE Take
  BY <1>1, <1>6 DEF Take
<1>7. CASE Restart \/ Requeue \/ Serve
  <2>1. worker'.pc \in {"recover", "idle"}
    BY <1>0, <1>7, GotoIs, FinishIs, StepsAndReasons DEF Restart, Requeue, Serve
  <2> QED BY <1>1, <1>7, <2>1 DEF Restart, Requeue, Serve
<1> QED BY <1>2, <1>3, <1>4, <1>5, <1>6, <1>7 DEF QuietWork

LEMMA NextFinite ==
  ASSUME LocalInv, Next, NEW r \in Runs
  PROVE  /\ IsFiniteSet(log'[r])
         /\ log'[r] # {} => \E n \in Numbers(r)' : \A m \in Numbers(r)' : m <= n
<1>1. LogStep(r)
  BY NextLog
<1>2. /\ IsFiniteSet(log[r])
      /\ log[r] # {} => \E n \in Numbers(r) : \A m \in Numbers(r) : m <= n
  BY DEF LocalInv, NumberInv
<1>3. CASE log'[r] = log[r]
  BY <1>2, <1>3 DEF Numbers
<1>4. CASE log'[r] = {Event(1, "created", "none")}
  <2>1. IsFiniteSet(log'[r])
    BY <1>4, FS_Singleton
  <2>2. Numbers(r)' = {1}
    <3>1. Event(1, "created", "none").seq = 1
      BY DEF Event
    <3> QED BY <1>4, <3>1 DEF Numbers
  <2> QED BY <2>1, <2>2
<1>5. ASSUME NEW n \in Nat \ {0}, NEW kind, NEW why, log'[r] = log[r] \cup {Event(n, kind, why)},
             \A m \in Numbers(r) : m < n
      PROVE  /\ IsFiniteSet(log'[r])
             /\ \E i \in Numbers(r)' : \A m \in Numbers(r)' : m <= i
  <2>1. IsFiniteSet(log'[r])
    BY <1>2, <1>5, FS_AddElement
  <2>2. Numbers(r)' = Numbers(r) \cup {n}
    <3>1. Event(n, kind, why).seq = n
      BY DEF Event
    <3>2. Numbers(r)' = {e.seq : e \in log[r]} \cup {Event(n, kind, why).seq}
      BY <1>5 DEF Numbers
    <3> QED BY <3>1, <3>2 DEF Numbers
  <2>3. Numbers(r) \subseteq Nat
    BY NumbersAreNaturals DEF LocalInv
  <2>4. \A m \in Numbers(r)' : m <= n
    BY <1>5, <2>2, <2>3
  <2> QED BY <2>1, <2>2, <2>4
<1> QED BY <1>1, <1>3, <1>4, <1>5 DEF LogStep

\* Whether or not the store accepts it, a number that was taken is known.
LEMMA RecordingKnown ==
  ASSUME LocalTypeOK, NumberInv, WorkerInv, Recording
  PROVE  \A q \in Runs : IF q = worker.run THEN Known(q)'
                         ELSE log'[q] = log[q] /\ counter'[q] = counter[q]
<1>0. worker.run \in Runs /\ log \in [Runs -> SUBSET Events] /\ counter \in [Runs -> Nat]
      /\ Known(worker.run)
  BY WorkerHasARun DEF LocalTypeOK, StoreTypeOK, MemoryTypeOK, NumberInv
<1> DEFINE r == worker.run
<1>1. ASSUME NEW kind \in Kinds, NEW why \in Reasons, Recorded(r, kind, why)
      PROVE  /\ \A n \in {e.seq : e \in log'[r]} : n <= counter'[r]
             /\ \A q \in Runs \ {r} : log'[q] = log[q] /\ counter'[q] = counter[q]
  <2>1. PICK n \in Nat \ {0} :
           /\ log'[r] = log[r] \cup {Event(n, kind, why)}
           /\ \A m \in Numbers(r) : m < n
           /\ counter'[r] = n
           /\ \A q \in Runs \ {r} : log'[q] = log[q] /\ counter'[q] = counter[q]
    BY <1>0, <1>1, RecordedLog
  <2>2. {e.seq : e \in log'[r]} = Numbers(r) \cup {n}
    <3>1. Event(n, kind, why).seq = n
      BY DEF Event
    <3>2. {e.seq : e \in log'[r]} = {e.seq : e \in log[r]} \cup {Event(n, kind, why).seq}
      BY <2>1
    <3> QED BY <3>1, <3>2 DEF Numbers
  <2>3. Numbers(r) \subseteq Nat
    BY <1>0, NumbersAreNaturals
  <2> QED BY <2>1, <2>2, <2>3
<1>2. ASSUME Refused(r)
      PROVE  /\ \A n \in {e.seq : e \in log'[r]} : n <= counter'[r]
             /\ \A q \in Runs \ {r} : log'[q] = log[q] /\ counter'[q] = counter[q]
  <2>1. counter'[r] = counter[r] + 1 /\ log' = log
        /\ \A q \in Runs \ {r} : counter'[q] = counter[q]
    BY <1>0, <1>2 DEF Refused, NextSequence
  <2>2. {e.seq : e \in log'[r]} = Numbers(r) /\ Numbers(r) \subseteq Nat /\ counter[r] \in Nat
    BY <1>0, <2>1, NumbersAreNaturals DEF Numbers
  <2>3. \A n \in Numbers(r) : n <= counter[r] + 1
    BY <1>0, <2>2 DEF Known
  <2> QED BY <2>1, <2>2, <2>3
<1>3. /\ \A n \in {e.seq : e \in log'[r]} : n <= counter'[r]
      /\ \A q \in Runs \ {r} : log'[q] = log[q] /\ counter'[q] = counter[q]
  <2>1. \/ \E kind \in Kinds, why \in Reasons : Recorded(r, kind, why)
        \/ Refused(r)
    <3>1. {"completed", "failed", "progress", "resumed"} \subseteq Kinds /\ "none" \in Reasons
      BY DEF Kinds, Terminal, Reasons
    <3> QED BY <3>1 DEF Recording, AnnounceRecords, ProgressRecords, ResumeRecords, RecordingRefused
  <2> QED BY <1>1, <1>2, <2>1
<1>4. ASSUME NEW q \in Runs, q = r
      PROVE  Known(q)'
  <2>1. Numbers(q)' = {e.seq : e \in log'[r]}
    BY <1>4 DEF Numbers
  <2> QED BY <1>3, <1>4, <2>1 DEF Known
<1> QED BY <1>3, <1>4

LEMMA NextNumber ==
  ASSUME LocalInv, Next
  PROVE  NumberInv'
<1>0. /\ LocalTypeOK /\ NumberInv /\ WorkerInv /\ HeldInv
      /\ queue \in Seq(Runs) /\ IsInjective(queue)
      /\ log \in [Runs -> SUBSET Events] /\ counter \in [Runs -> Nat]
      /\ accepted \subseteq Runs /\ NoRun \notin Runs /\ Queued \subseteq Runs
  <2>1. queue \in Seq(Runs)
    BY DEF LocalInv, LocalTypeOK, MemoryTypeOK
  <2> QED BY <2>1, SeqFacts, WorkerHasARun
          DEF LocalInv, LocalTypeOK, StoreTypeOK, MemoryTypeOK, HeldInv, Queued
<1>1. /\ \A r \in accepted \cup Queued : Known(r)
      /\ worker.run # NoRun => Known(worker.run)
      /\ worker.pc = "resume" => \A n \in Numbers(worker.run) : n <= counter[worker.run]
  BY <1>0 DEF NumberInv
<1> DEFINE Held3 == /\ \A r \in accepted' \cup Queued' : Known(r)'
                    /\ \A r \in Runs : r = worker'.run => Known(r)'
                    /\ worker'.pc = "resume" => \A r \in Runs : r = worker'.run =>
                         \A n \in Numbers(r)' : n <= counter'[r]
<1>2. SUFFICES Held3
  <2>1. (\A r \in Runs : IsFiniteSet(log[r]))'
    BY NextFinite
  <2>2. (\A r \in Runs : log[r] # {} => \E n \in Numbers(r) : \A m \in Numbers(r) : m <= n)'
    BY NextFinite
  <2>3. WorkerInv' /\ (worker'.run = NoRun \/ worker'.run \in Runs)
    <3>1. WorkerInv'
      BY NextWorker
    <3>2. worker' \in Workers
      <4>1. QuietWork => worker' \in Workers
        BY <1>0, QuietType, WorkerHasARun DEF LocalTypeOK, MemoryTypeOK
      <4>2. Recording => worker' \in Workers
        BY <1>0, RecordingEffects
      <4>3. \A k \in Keys, d \in Digests : Post(k, d) => worker' \in Workers
        BY <1>0, PostType DEF LocalTypeOK, MemoryTypeOK
      <4>4. (Publish => worker' \in Workers) /\ (Crash => worker' \in Workers)
        BY <1>0, PublishType, CrashType DEF LocalTypeOK, MemoryTypeOK
      <4>5. \A r \in Runs : Recover(r) => worker' \in Workers
        BY <1>0, RecoverType DEF LocalTypeOK, MemoryTypeOK
      <4>6. PageSteps => worker' \in Workers
        BY <1>0, PageStepsLeaveTheRest DEF LocalTypeOK, MemoryTypeOK, StreamVars, memory
      <4> QED BY <1>0, <4>1, <4>2, <4>3, <4>4, <4>5, <4>6, NextSteps
    <3> QED BY <3>1, <3>2 DEF Workers
  <2>4. SUFFICES ASSUME Held3
                 PROVE  /\ (\A r \in accepted \cup Queued : Known(r))'
                        /\ (worker.run # NoRun => Known(worker.run))'
                        /\ (worker.pc = "resume" =>
                              \A n \in Numbers(worker.run) : n <= counter[worker.run])'
    BY <2>1, <2>2 DEF NumberInv
  <2>5. (worker.run # NoRun => Known(worker.run))'
    BY <2>3, <2>4 DEF Known, Numbers
  <2>6. (worker.pc = "resume" => \A n \in Numbers(worker.run) : n <= counter[worker.run])'
    BY <2>3, <2>4 DEF Numbers, WorkerInv
  <2> QED BY <2>4, <2>5, <2>6
<1>3. ASSUME NEW r \in Runs, log'[r] = log[r], counter'[r] = counter[r], Known(r)
      PROVE  Known(r)'
  BY <1>3 DEF Known, Numbers
<1>4. ASSUME UNCHANGED <<log, counter, worker, accepted, queue>> PROVE Held3
  BY <1>0, <1>1, <1>4 DEF Known, Numbers, Queued
<1>5. ASSUME NEW k \in Keys, NEW d \in Digests, Post(k, d) PROVE Held3
  <2>1. UNCHANGED PostVars /\ Up
        /\ \/ UNCHANGED <<status, log, accepted>>
           \/ \E q \in Runs : /\ status[q] = Absent /\ accepted' = accepted \cup {q}
                              /\ log' = [log EXCEPT ![q] = {Event(1, "created", "none")}]
    BY <1>5, PostIs
  <2>2. UNCHANGED <<counter, worker, queue>> /\ Queued' = Queued /\ worker.pc # "resume"
    BY <2>1 DEF PostVars, Up, Queued
  <2>3. ASSUME NEW q \in Runs, status[q] = Absent, accepted' = accepted \cup {q},
               log' = [log EXCEPT ![q] = {Event(1, "created", "none")}]
        PROVE  Held3
    <3>1. Numbers(q)' = {1}
      <4>1. Event(1, "created", "none").seq = 1 /\ log'[q] = {Event(1, "created", "none")}
        BY <1>0, <2>3 DEF Event
      <4> QED BY <4>1 DEF Numbers
    <3>2. Known(q)'
      BY <1>0, <2>2, <3>1 DEF Known
    <3>3. \A r \in Runs : r # q /\ Known(r) => Known(r)'
      BY <1>0, <1>3, <2>2, <2>3
    <3> QED BY <1>0, <1>1, <2>2, <2>3, <3>2, <3>3
  <2> QED BY <1>4, <2>1, <2>2, <2>3
<1>6. ASSUME QuietWork PROVE Held3
  <2>1. /\ UNCHANGED log
        /\ counter' = counter \/ (counter' = HydratedCounter(worker.run) /\ worker.run \in Runs)
        /\ worker'.pc = "resume" => UNCHANGED <<worker, counter>>
    BY <1>0, <1>6, QuietCounter
  <2>2. \A r \in Runs : Known(r) => Known(r)'
    <3> SUFFICES ASSUME NEW r \in Runs, Known(r) PROVE Known(r)'
      OBVIOUS
    <3>1. CASE counter'[r] = counter[r]
      BY <1>3, <2>1, <3>1
    <3>2. CASE r = worker.run /\ counter' = HydratedCounter(r)
      <4>1. \A n \in Numbers(r) : n <= counter'[r]
        BY <1>0, <3>2, HydratedType
      <4> QED BY <2>1, <4>1 DEF Known, Numbers
    <3>3. CASE r # worker.run /\ counter' = HydratedCounter(worker.run) /\ worker.run \in Runs
      <4>1. counter'[r] = counter[r]
        BY <1>0, <3>3, HydratedType
      <4> QED BY <1>3, <2>1, <4>1
    <3> QED BY <2>1, <3>1, <3>2, <3>3
  <2>3. \A r \in Runs : r \in accepted' \/ r \in Queued' \/ r = worker'.run => Known(r)
    <3>1. Hands
      BY <1>0, <1>6, QuietHands
    <3>2. CASE UNCHANGED <<accepted, queue>> /\ worker'.run = worker.run
      BY <1>0, <1>1, <3>2 DEF Queued
    <3>3. ASSUME NEW q \in Runs, q \in accepted, accepted' = accepted \ {q}, queue' = Append(queue, q),
                 worker' = worker
          PROVE  \A r \in Runs : r \in accepted' \/ r \in Queued' \/ r = worker'.run => Known(r)
      <4>1. Queued' = Queued \cup {q}
        BY <1>0, <3>3, QueueFacts DEF Queued
      <4> QED BY <1>0, <1>1, <3>3, <4>1
    <3>4. ASSUME queue # <<>>, worker'.run = Head(queue), queue' = Tail(queue), accepted' = accepted
          PROVE  \A r \in Runs : r \in accepted' \/ r \in Queued' \/ r = worker'.run => Known(r)
      <4>1. Queued' = Queued \ {worker'.run} /\ worker'.run \in Queued
        BY <1>0, <3>4, QueueFacts DEF Queued
      <4> QED BY <1>0, <1>1, <3>4, <4>1
    <3>5. ASSUME worker.pc = "requeue", queue' = Append(queue, worker.run), worker'.run = NoRun,
                 accepted' = accepted
          PROVE  \A r \in Runs : r \in accepted' \/ r \in Queued' \/ r = worker'.run => Known(r)
      <4>1. worker.run \in Runs
        BY <1>0, <3>5, WorkerHasARun
      <4>2. Queued' = Queued \cup {worker.run}
        BY <1>0, <3>5, <4>1, QueueFacts DEF Queued
      <4> QED BY <1>0, <1>1, <3>5, <4>1, <4>2
    <3> QED BY <3>1, <3>2, <3>3, <3>4, <3>5 DEF Hands
  <2>4. accepted' \subseteq Runs /\ Queued' \subseteq Runs
    <3>1. LocalTypeOK'
      BY <1>0, <1>6, QuietType, WorkerHasARun
    <3>2. accepted' \subseteq Runs /\ queue' \in Seq(Runs)
      BY <3>1 DEF LocalTypeOK, MemoryTypeOK
    <3> QED BY <3>2, SeqFacts DEF Queued
  <2>5. worker'.pc = "resume" => \A r \in Runs : r = worker'.run => \A n \in Numbers(r)' : n <= counter'[r]
    BY <1>1, <2>1 DEF Numbers
  <2> QED BY <2>2, <2>3, <2>4, <2>5
<1>7. ASSUME Recording PROVE Held3
  <2>1. /\ UNCHANGED <<accepted, queue>>
        /\ worker'.run = worker.run \/ worker'.run = NoRun
    BY <1>0, <1>7, RecordingHands
  <2>2. \A q \in Runs : IF q = worker.run THEN Known(q)'
                         ELSE log'[q] = log[q] /\ counter'[q] = counter[q]
    BY <1>0, <1>7, RecordingKnown
  <2>3. \A q \in Runs : Known(q) => Known(q)'
    BY <1>3, <2>2
  <2>4. worker'.pc # "resume"
    BY <1>0, <1>7, RecordingEffects, WorkerHasARun, GotoIs, FinishIs, StepsAndReasons
  <2>5. Queued' = Queued
    BY <2>1 DEF Queued
  <2> QED BY <1>0, <1>1, <2>1, <2>2, <2>3, <2>4, <2>5
<1>8. ASSUME Publish PROVE Held3
  BY <1>4, <1>8 DEF Publish
<1>9. ASSUME Crash PROVE Held3
  <2>1. accepted' = {} /\ queue' = <<>> /\ worker'.run = NoRun /\ worker'.pc = "down"
    BY <1>9 DEF Crash
  <2>2. Queued' = {}
    BY <2>1 DEF Queued, Range
  <2> QED BY <1>0, <2>1, <2>2
<1>10. ASSUME NEW q \in Runs, Recover(q) PROVE Held3
  <2>1. /\ UNCHANGED <<log, accepted, queue>> /\ q \in pending
        /\ \/ counter' = HydratedCounter(q) /\ worker'.run = q
           \/ UNCHANGED counter /\ worker'.run = NoRun /\ worker'.pc = "recover"
    BY <1>0, <1>10, RecoverIs
  <2>2. Queued' = Queued /\ q \notin accepted /\ q \notin Queued
    BY <1>0, <2>1 DEF Queued, HeldInv
  <2>3. /\ \A n \in Numbers(q) : n <= HydratedCounter(q)[q]
        /\ \A r \in Runs \ {q} : HydratedCounter(q)[r] = counter[r]
    BY <1>0, HydratedType
  <2>4. \A r \in Runs \ {q} : Known(r) => Known(r)'
    BY <1>3, <2>1, <2>3
  <2>5. worker'.run = q => Known(q)' /\ \A n \in Numbers(q)' : n <= counter'[q]
    BY <1>0, <2>1, <2>3 DEF Known, Numbers
  <2> QED BY <1>0, <1>1, <2>1, <2>2, <2>4, <2>5
<1>11. ASSUME PageSteps PROVE Held3
  BY <1>0, <1>4, <1>11, PageStepsLeaveTheRest DEF StreamVars, store, memory
<1> QED BY <1>0, <1>5, <1>6, <1>7, <1>8, <1>9, <1>10, <1>11, NextSteps

-----------------------------------------------------------------------------
(* The end of a log, and the journal.                                      *)

LEMMA NextEnd ==
  ASSUME LocalInv, Next
  PROVE  EndInv'
<1>0. /\ LocalTypeOK /\ NumberInv /\ WorkerInv /\ HeldInv /\ AbsentInv /\ KeptInv
      /\ log \in [Runs -> SUBSET Events] /\ faults \in Nat
  BY DEF LocalInv, LocalTypeOK, StoreTypeOK, MemoryTypeOK
<1>1. ASSUME NEW r \in Runs, ~Held(r), log[r] # {}
      PROVE  /\ status'[r] = status[r] /\ log'[r] = log[r] /\ Numbers(r)' = Numbers(r)
             /\ r \notin IncompleteAttempts => ~Held(r)'
  <2>1. status[r] # Absent
    BY <1>0, <1>1 DEF AbsentInv
  <2>2. status'[r] = status[r]
    BY <1>1, <2>1, NextNames
  <2>3. log'[r] = log[r]
    BY <1>1, <2>1, NextLog DEF LogStep, Held
  <2>4. r \notin IncompleteAttempts => ~Held(r)'
    BY <1>1, <2>1, NextHands
  <2> QED BY <2>2, <2>3, <2>4 DEF Numbers
<1>2. faults' = 0 => faults = 0
  <2>1. QuietWork => faults' = faults \/ faults' = faults + 1
    BY QuietEffects
  <2>2. Recording => faults' = faults \/ faults' = faults + 1
    BY DEF Recording, AnnounceRecords, ProgressRecords, ResumeRecords, RecordingRefused,
           Recorded, Refused
  <2>3. Publish => faults' = faults \/ faults' = faults + 1
    BY DEF Publish, Fault
  <2>4. Crash => faults' = faults
    BY DEF Crash
  <2>5. \A r \in Runs : Recover(r) => faults' = faults \/ faults' = faults + 1
    BY <1>0, RecoverIs
  <2>6. PageSteps => faults' = faults
    BY <1>0, PageStepsLeaveTheRest DEF StreamVars
  <2>7. \A k \in Keys, d \in Digests : Post(k, d) => faults' = faults
    BY PostIs DEF PostVars
  <2> QED BY <1>0, <2>1, <2>2, <2>3, <2>4, <2>5, <2>6, <2>7, NextSteps
<1>3. SUFFICES ASSUME NEW r \in Runs, NEW e \in log'[r]
               PROVE  /\ e.kind = "completed" =>
                           /\ r \in result' /\ ~Held(r)'
                           /\ \A n \in Numbers(r)' : n <= e.seq
                      /\ e.kind = "failed" /\ faults' = 0 =>
                           /\ status'[r] = "failed" /\ ~Held(r)'
                           /\ \A n \in Numbers(r)' : n <= e.seq
  BY DEF EndInv
<1>4. /\ e \in log[r] /\ e.kind = "completed" =>
           /\ r \in result /\ ~Held(r)
           /\ \A n \in Numbers(r) : n <= e.seq
      /\ e \in log[r] /\ e.kind = "failed" /\ faults = 0 =>
           /\ status[r] = "failed" /\ ~Held(r)
           /\ \A n \in Numbers(r) : n <= e.seq
  BY DEF LocalInv, EndInv
<1>5. CASE e \in log[r]
  <2>1. ASSUME e.kind = "completed"
        PROVE  /\ r \in result' /\ ~Held(r)'
               /\ \A n \in Numbers(r)' : n <= e.seq
    <3>1. r \in result /\ ~Held(r) /\ \A n \in Numbers(r) : n <= e.seq
      BY <1>4, <1>5, <2>1
    <3>2. r \notin IncompleteAttempts
      BY <3>1 DEF IncompleteAttempts
    <3>3. r \in result'
      BY <3>1, NextNames
    <3> QED BY <1>1, <1>5, <3>1, <3>2, <3>3
  <2>2. ASSUME e.kind = "failed", faults' = 0
        PROVE  /\ status'[r] = "failed" /\ ~Held(r)'
               /\ \A n \in Numbers(r)' : n <= e.seq
    <3>1. status[r] = "failed" /\ ~Held(r) /\ \A n \in Numbers(r) : n <= e.seq
      BY <1>2, <1>4, <1>5, <2>2
    <3>2. r \notin IncompleteAttempts
      BY <3>1 DEF IncompleteAttempts, Incomplete
    <3> QED BY <1>1, <1>5, <3>1, <3>2
  <2> QED BY <2>1, <2>2
<1>6. CASE e \notin log[r]
  <2>1. LogStep(r)
    BY NextLog
  <2>2. CASE log'[r] = {Event(1, "created", "none")}
    <3>1. e.kind = "created"
      BY <2>2 DEF Event
    <3> QED BY <3>1
  <2>3. CASE /\ r = worker.run
             /\ \E n \in Nat \ {0}, kind \in Kinds, why \in Reasons :
                  /\ log'[r] = log[r] \cup {Event(n, kind, why)}
                  /\ \A m \in Numbers(r) : m < n
                  /\ kind = "completed" => worker.pc = "complete" /\ worker'.run = NoRun
                  /\ kind = "failed" => worker.pc \in {"announce", "failEvent"} /\ worker'.run = NoRun
             /\ UNCHANGED <<status, accepted, queue, pending, result, faults>>
    <3>1. PICK n \in Nat \ {0}, kind \in Kinds, why \in Reasons :
                  /\ log'[r] = log[r] \cup {Event(n, kind, why)}
                  /\ \A m \in Numbers(r) : m < n
                  /\ kind = "completed" => worker.pc = "complete" /\ worker'.run = NoRun
                  /\ kind = "failed" => worker.pc \in {"announce", "failEvent"} /\ worker'.run = NoRun
      BY <2>3
    <3>2. e = Event(n, kind, why) /\ e.seq = n /\ e.kind = kind
      BY <1>6, <3>1 DEF Event
    <3>3. Numbers(r)' = Numbers(r) \cup {n}
      <4>1. Numbers(r)' = {x.seq : x \in log[r]} \cup {e.seq}
        BY <3>1, <3>2 DEF Numbers
      <4> QED BY <3>2, <4>1 DEF Numbers
    <3>4. \A m \in Numbers(r)' : m <= e.seq
      <4>1. Numbers(r) \subseteq Nat
        BY <1>0, NumbersAreNaturals
      <4> QED BY <3>1, <3>2, <3>3, <4>1
    <3>5. ASSUME worker'.run = NoRun
          PROVE  ~Held(r)'
      <4>1. Queued' = Queued /\ NoRun # r
        BY <2>3, LocalRunsAssumption DEF Queued, NoRun
      <4> QED BY <1>0, <2>3, <3>5, <4>1 DEF Held, HeldInv
    <3>6. kind = "completed" => r \in result'
      BY <1>0, <2>3, <3>1 DEF WorkerInv
    <3>7. kind = "failed" /\ faults' = 0 => status'[r] = "failed"
      BY <1>0, <2>3, <3>1 DEF WorkerInv, KeptInv
    <3> QED BY <3>1, <3>2, <3>4, <3>5, <3>6, <3>7
  <2> QED BY <1>6, <2>1, <2>2, <2>3 DEF LogStep
<1> QED BY <1>5, <1>6

\* Missing lines complete the journal without repeating any.
LEMMA Backfilled ==
  ASSUME LocalTypeOK, NumberInv, NEW r \in Runs, NEW lines \in SUBSET MissingLines(r),
         IsInjective(journal[r]), Range(journal[r]) \subseteq Numbers(r)
  PROVE  LET J == journal[r] \o Ascending(lines)
         IN  IsInjective(J) /\ Range(J) \subseteq Numbers(r)
<1> DEFINE s == journal[r]
           t == Ascending(lines)
           J == s \o t
<1>1. s \in Seq(Nat)
  BY DEF LocalTypeOK, StoreTypeOK
<1>2. t \in Seq(Nat) /\ Range(t) = lines /\ IsInjective(t)
  BY MissingIsFinite, AscendingSequence, FS_Subset
<1>3. /\ Len(s) \in Nat /\ DOMAIN s = 1..Len(s) /\ \A i \in 1..Len(s) : s[i] \in Numbers(r)
      /\ \A i, j \in 1..Len(s) : s[i] = s[j] => i = j
  BY <1>1, SeqFacts DEF IsInjective, Range
<1>4. /\ Len(t) \in Nat /\ DOMAIN t = 1..Len(t)
      /\ \A i \in 1..Len(t) : t[i] \in Numbers(r) \ Range(s)
      /\ \A i, j \in 1..Len(t) : t[i] = t[j] => i = j
  <2>1. Len(t) \in Nat /\ DOMAIN t = 1..Len(t)
    BY <1>2, SeqFacts
  <2>2. MissingLines(r) = Numbers(r) \ Range(s)
    BY DEF MissingLines
  <2> HIDE DEF s, t
  <2>3. \A i \in 1..Len(t) : t[i] \in Range(t)
    BY <2>1 DEF Range
  <2> QED BY <1>2, <2>1, <2>2, <2>3 DEF IsInjective
<1> HIDE DEF s, t
<1>5. /\ J \in Seq(Nat) /\ DOMAIN J = 1..(Len(s) + Len(t))
      /\ \A i \in 1..(Len(s) + Len(t)) :
           J[i] = IF i <= Len(s) THEN s[i] ELSE t[i - Len(s)]
  BY <1>1, <1>2, ConcatProperties, LenProperties
<1> HIDE DEF J
<1>6. \A i \in 1..(Len(s) + Len(t)) :
        \/ i \in 1..Len(s) /\ J[i] = s[i]
        \/ i \notin 1..Len(s) /\ i - Len(s) \in 1..Len(t) /\ J[i] = t[i - Len(s)]
  <2> SUFFICES ASSUME NEW i \in 1..(Len(s) + Len(t))
               PROVE  \/ i \in 1..Len(s) /\ J[i] = s[i]
                      \/ i \notin 1..Len(s) /\ i - Len(s) \in 1..Len(t) /\ J[i] = t[i - Len(s)]
    OBVIOUS
  <2>1. CASE i <= Len(s)
    BY <1>3, <1>5, <2>1
  <2>2. CASE ~(i <= Len(s))
    <3>1. i \notin 1..Len(s) /\ i - Len(s) \in 1..Len(t)
      BY <1>3, <1>4, <2>2
    <3> QED BY <1>5, <2>2, <3>1
  <2> QED BY <2>1, <2>2
<1>7. \A i \in 1..(Len(s) + Len(t)) : J[i] \in Numbers(r)
  BY <1>3, <1>4, <1>6
<1>8. \A i, j \in 1..(Len(s) + Len(t)) : J[i] = J[j] => i = j
  <2> SUFFICES ASSUME NEW i \in 1..(Len(s) + Len(t)), NEW j \in 1..(Len(s) + Len(t)), J[i] = J[j]
               PROVE  i = j
    OBVIOUS
  <2>1. CASE i \in 1..Len(s) /\ j \in 1..Len(s)
    BY <1>3, <1>6, <2>1
  <2>2. CASE i \notin 1..Len(s) /\ j \notin 1..Len(s)
    <3>1. i - Len(s) = j - Len(s)
      BY <1>4, <1>6, <2>2
    <3>2. i \in Int /\ j \in Int
      OBVIOUS
    <3> QED BY <1>3, <3>1, <3>2
  <2>3. ASSUME NEW k \in 1..(Len(s) + Len(t)), NEW l \in 1..(Len(s) + Len(t)),
               k \in 1..Len(s), l \notin 1..Len(s)
        PROVE  J[k] # J[l]
    <3>1. J[k] = s[k] /\ J[l] = t[l - Len(s)] /\ l - Len(s) \in 1..Len(t)
      BY <1>6, <2>3
    <3>2. s[k] \in Range(s)
      BY <1>3, <2>3 DEF Range
    <3> QED BY <1>4, <3>1, <3>2
  <2> QED BY <2>1, <2>2, <2>3
<1>9. IsInjective(J) /\ Range(J) \subseteq Numbers(r)
  BY <1>5, <1>7, <1>8 DEF IsInjective, Range
<1> QED BY <1>9 DEF J, s, t

LEMMA NextJournal ==
  ASSUME LocalInv, Next
  PROVE  JournalInv'
<1>0. /\ LocalTypeOK /\ NumberInv /\ WorkerInv /\ AbsentInv
      /\ journal \in [Runs -> Seq(Nat)] /\ log \in [Runs -> SUBSET Events]
      /\ sending \in [run : Runs, event : Events] \cup {Nothing}
  BY DEF LocalInv, LocalTypeOK, StoreTypeOK, MemoryTypeOK
<1>1. /\ \A r \in Runs : IsInjective(journal[r]) /\ Range(journal[r]) \subseteq Numbers(r)
      /\ sending # Nothing =>
           /\ sending.event \in log[sending.run]
           /\ sending.event.seq \notin Range(journal[sending.run])
  BY DEF LocalInv, JournalInv, JournalHoldsLogOnce
<1>2. \A r \in Runs : Numbers(r) \subseteq Numbers(r)'
  BY NumbersGrow
<1> DEFINE Sound(r) == IsInjective(journal'[r]) /\ Range(journal'[r]) \subseteq Numbers(r)'
           Sent == sending' # Nothing =>
                     /\ sending'.event \in log'[sending'.run]
                     /\ sending'.event.seq \notin Range(journal'[sending'.run])
<1>3. SUFFICES /\ \A r \in Runs : Sound(r)
               /\ Sent
  BY DEF JournalInv, JournalHoldsLogOnce
<1>4. ASSUME NEW r \in Runs, journal'[r] = journal[r] PROVE Sound(r)
  BY <1>1, <1>2, <1>4
<1>5. ASSUME UNCHANGED <<journal, sending, log>> PROVE Sent
  BY <1>1, <1>5
<1>6. ASSUME NEW k \in Keys, NEW d \in Digests, Post(k, d)
      PROVE  (\A r \in Runs : Sound(r)) /\ Sent
  <2>1. /\ UNCHANGED <<journal, sending>>
        /\ \/ UNCHANGED log
           \/ \E q \in Runs : status[q] = Absent /\ log' = [log EXCEPT ![q] = {Event(1, "created", "none")}]
    BY <1>6, PostIs DEF PostVars
  <2>2. ASSUME sending # Nothing PROVE log'[sending.run] = log[sending.run]
    BY <1>0, <2>1, <2>2 DEF AbsentInv
  <2> QED BY <1>1, <1>4, <2>1, <2>2
<1>7. ASSUME QuietWork PROVE (\A r \in Runs : Sound(r)) /\ Sent
  BY <1>4, <1>5, <1>7, QuietEffects
<1>8. ASSUME Recording PROVE (\A r \in Runs : Sound(r)) /\ Sent
  <2>1. UNCHANGED journal /\ sending = Nothing
    BY <1>0, <1>8, RecordingEffects
  <2>2. ASSUME sending' # Nothing
        PROVE  /\ sending'.event \in log'[sending'.run]
               /\ sending'.event.seq \notin Range(journal'[sending'.run])
    <3>1. sending'.run = worker.run /\ worker.run \in Runs
      BY <1>0, <1>8, <2>2, RecordingEffects, WorkerHasARun
    <3>2. \E kind \in Kinds, why \in Reasons : Recorded(worker.run, kind, why)
      <4>1. {"completed", "failed", "progress", "resumed"} \subseteq Kinds /\ "none" \in Reasons
        BY DEF Kinds, Terminal, Reasons
      <4> QED BY <1>8, <2>1, <2>2, <4>1 DEF Recording, AnnounceRecords, ProgressRecords, ResumeRecords,
                                             RecordingRefused, Refused
    <3>3. PICK n \in Nat \ {0}, kind \in Kinds, why \in Reasons :
           /\ log'[worker.run] = log[worker.run] \cup {Event(n, kind, why)}
           /\ \A m \in Numbers(worker.run) : m < n
           /\ sending' = [run |-> worker.run, event |-> Event(n, kind, why)]
      BY <1>0, <3>1, <3>2, RecordedLog
    <3>4. sending'.event = Event(n, kind, why) /\ Event(n, kind, why).seq = n
      BY <3>3 DEF Event
    <3>5. n \notin Numbers(worker.run)
      <4>1. Numbers(worker.run) \subseteq Nat
        BY <1>0, <3>1, NumbersAreNaturals
      <4> QED BY <3>3, <4>1
    <3> QED BY <1>1, <2>1, <3>1, <3>3, <3>4, <3>5
  <2> QED BY <1>4, <2>1, <2>2
<1>9. ASSUME Publish PROVE (\A r \in Runs : Sound(r)) /\ Sent
  <2>1. PICK r \in Runs, e \in Events : sending = [run |-> r, event |-> e]
    BY <1>0, <1>9 DEF Publish
  <2>2. sending.run = r /\ sending.event = e /\ e.seq \in Nat
    BY <2>1 DEF Events
  <2>3. e \in log[r] /\ e.seq \notin Range(journal[r]) /\ e.seq \in Numbers(r)
    BY <1>1, <1>9, <2>2 DEF Publish, Numbers
  <2>4. sending' = Nothing /\ log' = log
        /\ (journal' = journal \/ journal' = [journal EXCEPT ![r] = Append(@, e.seq)])
    BY <1>9, <2>2 DEF Publish
  <2>5. IsInjective(Append(journal[r], e.seq)) /\ Range(Append(journal[r], e.seq)) \subseteq Numbers(r)
    <3> DEFINE s == journal[r]
    <3>1. /\ s \in Seq(Nat) /\ Len(s) \in Nat /\ DOMAIN s = 1..Len(s)
          /\ DOMAIN Append(s, e.seq) = 1..(Len(s) + 1) /\ Append(s, e.seq)[Len(s) + 1] = e.seq
          /\ \A i \in 1..Len(s) : Append(s, e.seq)[i] = s[i]
          /\ Range(Append(s, e.seq)) = Range(s) \cup {e.seq}
      BY <1>0, <2>2, SeqFacts
    <3>2. \A i, j \in 1..Len(s) : s[i] = s[j] => i = j
      BY <1>1, <3>1 DEF IsInjective
    <3>3. \A i \in 1..Len(s) : s[i] # e.seq
      BY <2>3, <3>1 DEF Range
    <3>4. \A i \in 1..(Len(s) + 1) : i \in 1..Len(s) \/ i = Len(s) + 1
      BY <3>1
    <3> HIDE DEF s
    <3>5. IsInjective(Append(s, e.seq))
      BY <3>1, <3>2, <3>3, <3>4 DEF IsInjective
    <3>6. Range(Append(s, e.seq)) \subseteq Numbers(r)
      BY <1>1, <2>3, <3>1 DEF s
    <3> QED BY <3>5, <3>6 DEF s
  <2>6. journal'[r] = journal[r] \/ journal'[r] = Append(journal[r], e.seq)
    BY <1>0, <2>4
  <2>7. \A q \in Runs \ {r} : journal'[q] = journal[q]
    BY <1>0, <2>4
  <2>8. Sound(r)
    BY <1>2, <1>4, <2>5, <2>6
  <2>9. \A q \in Runs : Sound(q)
    BY <1>4, <2>7, <2>8
  <2> QED BY <2>4, <2>9
<1>10. ASSUME Crash PROVE (\A r \in Runs : Sound(r)) /\ Sent
  <2>1. UNCHANGED journal /\ sending' = Nothing
    BY <1>10 DEF Crash, store
  <2> QED BY <1>4, <2>1
<1>11. ASSUME NEW q \in Runs, Recover(q) PROVE (\A r \in Runs : Sound(r)) /\ Sent
  <2>1. /\ UNCHANGED <<log, sending>> /\ worker.pc = "recover"
        /\ UNCHANGED journal \/ \E lines \in SUBSET MissingLines(q) : Backfill(q, lines)
    BY <1>0, <1>11, RecoverIs
  <2>2. sending' = Nothing
    BY <1>0, <2>1 DEF WorkerInv
  <2>3. ASSUME NEW lines \in SUBSET MissingLines(q), Backfill(q, lines)
        PROVE  Sound(q)
    <3>1. /\ IsInjective(journal[q] \o Ascending(lines))
          /\ Range(journal[q] \o Ascending(lines)) \subseteq Numbers(q)
      BY <1>0, <1>1, Backfilled
    <3>2. journal'[q] = journal[q] \o Ascending(lines)
      BY <1>0, <2>3 DEF Backfill
    <3> QED BY <1>2, <3>1, <3>2
  <2>4. \A r \in Runs \ {q} : journal'[r] = journal[r]
    BY <1>0, <2>1 DEF Backfill
  <2>5. Sound(q)
    BY <1>4, <2>1, <2>3
  <2> QED BY <1>4, <2>2, <2>4, <2>5
<1>12. ASSUME PageSteps PROVE (\A r \in Runs : Sound(r)) /\ Sent
  BY <1>0, <1>4, <1>5, <1>12, PageStepsLeaveTheRest DEF StreamVars, store, memory
<1> QED BY <1>0, <1>6, <1>7, <1>8, <1>9, <1>10, <1>11, <1>12, NextSteps

-----------------------------------------------------------------------------
(* The page.                                                               *)

LEMMA SeesMore ==
  ASSUME NEW N \in SUBSET Nat, NEW G \in Seq(Nat), Sees(G, N),
         NEW x \in N, x \notin Range(G), \A n \in N : n < x => n \in Range(G)
  PROVE  Sees(Append(G, x), N)
<1> DEFINE len == Len(G)
           H == Append(G, x)
<1>1. /\ len \in Nat /\ DOMAIN G = 1..len /\ \A i \in 1..len : G[i] \in Nat
      /\ DOMAIN H = 1..(len + 1) /\ H[len + 1] = x /\ \A i \in 1..len : H[i] = G[i]
      /\ Range(H) = Range(G) \cup {x} /\ x \in Nat
  BY SeqFacts
<1>2. /\ \A i, j \in 1..len : i < j => G[i] < G[j]
      /\ Range(G) \subseteq N
      /\ \A g \in Range(G), n \in N : n < g => n \in Range(G)
  BY <1>1 DEF Sees
<1>3. \A i \in 1..len : G[i] < x
  <2> SUFFICES ASSUME NEW i \in 1..len PROVE G[i] < x
    OBVIOUS
  <2>1. G[i] \in Range(G) /\ G[i] \in Nat /\ x \in Nat
    BY <1>1 DEF Range
  <2>2. ~(x < G[i]) /\ x # G[i]
    BY <1>2, <2>1
  <2> QED BY <2>1, <2>2
<1> HIDE DEF H, len
<1>4. \A i, j \in 1..(len + 1) : i < j => H[i] < H[j]
  <2> SUFFICES ASSUME NEW i \in 1..(len + 1), NEW j \in 1..(len + 1), i < j
               PROVE  H[i] < H[j]
    OBVIOUS
  <2>1. i \in 1..len /\ (j \in 1..len \/ j = len + 1)
    BY <1>1
  <2> QED BY <1>1, <1>2, <1>3, <2>1
<1>5. Range(H) \subseteq N
  BY <1>1, <1>2
<1>6. \A g \in Range(H), n \in N : n < g => n \in Range(H)
  BY <1>1, <1>2
<1>7. Sees(H, N)
  BY <1>1, <1>4, <1>5, <1>6 DEF Sees
<1> QED BY <1>7 DEF H

\* What a page has seen of N it has seen of a set that continues N.
LEMMA SeesOfMore ==
  ASSUME NEW N \in SUBSET Nat, NEW M \in SUBSET Nat, N \subseteq M,
         \A m \in M \ N, n \in N : n < m,
         NEW G, Sees(G, N)
  PROVE  Sees(G, M)
<1>1. ASSUME NEW g \in Range(G), NEW m \in M, m < g PROVE m \in Range(G)
  <2>1. g \in N /\ g \in Nat /\ m \in Nat
    BY DEF Sees
  <2>2. m \in N
    <3>1. m \notin N => g < m
      BY <2>1
    <3> QED BY <1>1, <2>1, <3>1
  <2> QED BY <1>1, <2>1, <2>2 DEF Sees
<1> QED BY <1>1 DEF Sees

LEMMA ContinuesOfMore ==
  ASSUME NEW N \in SUBSET Nat, NEW M \in SUBSET Nat, N \subseteq M,
         \A m \in M \ N, n \in N : n < m,
         NEW s, NEW Before, SeqsOf(s) \subseteq N, Continues(s, Before, N)
  PROVE  Continues(s, Before, M)
<1> SUFFICES ASSUME NEW i \in DOMAIN s, NEW m \in M, m < s[i].seq
             PROVE  m \in Before \/ \E j \in DOMAIN s : j < i /\ s[j].seq = m
  BY DEF Continues
<1>1. s[i].seq \in N /\ s[i].seq \in Nat /\ m \in Nat
  BY DEF SeqsOf
<1>2. m \in N
  <2>1. m \notin N => s[i].seq < m
    BY <1>1
  <2> QED BY <1>1, <2>1
<1> QED BY <1>2 DEF Continues

\* The head of a sequence of events, and what is behind it.
LEMMA TailFacts ==
  ASSUME NEW s \in Seq(Events), s # <<>>
  PROVE  /\ Head(s) \in Events /\ Tail(s) \in Seq(Events) /\ Head(s).seq \in Nat \ {0}
         /\ Head(s) = s[1] /\ 1 \in DOMAIN s
         /\ SeqsOf(s) = {Head(s).seq} \cup SeqsOf(Tail(s))
         /\ \A i \in DOMAIN Tail(s) : i + 1 \in DOMAIN s /\ Tail(s)[i] = s[i + 1] /\ i \in Nat /\ i >= 1
         /\ \A j \in DOMAIN s : j \in Nat /\ (j = 1 \/ (j > 1 /\ j - 1 \in DOMAIN Tail(s)))
<1> DEFINE len == Len(s)
           t == Tail(s)
<1>1. /\ len \in Nat /\ DOMAIN s = 1..len
      /\ Head(s) = s[1] /\ Head(s) \in Events /\ t \in Seq(Events) /\ 1 \in DOMAIN s
      /\ DOMAIN t = 1..(len - 1)
      /\ \A i \in 1..(len - 1) : t[i] = s[i + 1] /\ i + 1 \in 1..len
  BY SeqFacts
<1>2. Head(s).seq \in Nat \ {0}
  BY <1>1 DEF Events
<1> HIDE DEF t, len
<1>3. /\ \A i \in DOMAIN t : i + 1 \in DOMAIN s /\ t[i] = s[i + 1] /\ i \in Nat /\ i >= 1
      /\ \A j \in DOMAIN s : j \in Nat /\ (j = 1 \/ (j > 1 /\ j - 1 \in DOMAIN t))
  BY <1>1
<1>4. \A j \in DOMAIN s : j = 1 \/ \E i \in DOMAIN t : s[j] = t[i]
  <2> SUFFICES ASSUME NEW j \in DOMAIN s, j # 1 PROVE \E i \in DOMAIN t : s[j] = t[i]
    OBVIOUS
  <2>1. j \in Nat /\ j - 1 \in DOMAIN t /\ j - 1 + 1 = j
    BY <1>3
  <2> QED BY <1>3, <2>1
<1>5. SeqsOf(s) = {Head(s).seq} \cup SeqsOf(t)
  BY <1>1, <1>3, <1>4 DEF SeqsOf
<1> QED BY <1>1, <1>2, <1>3, <1>5 DEF t

LEMMA ContinuesTail ==
  ASSUME NEW N \in SUBSET Nat, NEW s \in Seq(Events), s # <<>>,
         NEW Before, NEW After, Continues(s, Before, N),
         Before \cup {Head(s).seq} \subseteq After
  PROVE  Continues(Tail(s), After, N)
<1> SUFFICES ASSUME NEW i \in DOMAIN Tail(s), NEW n \in N, n < Tail(s)[i].seq
             PROVE  n \in After \/ \E j \in DOMAIN Tail(s) : j < i /\ Tail(s)[j].seq = n
  BY DEF Continues
<1>1. i + 1 \in DOMAIN s /\ Tail(s)[i] = s[i + 1] /\ i \in Nat
  BY TailFacts
<1>2. CASE n \in Before
  BY <1>2
<1>3. CASE n \notin Before
  <2>1. PICK j \in DOMAIN s : j < i + 1 /\ s[j].seq = n
    BY <1>1, <1>3 DEF Continues
  <2>2. CASE j = 1
    BY <2>1, <2>2, TailFacts
  <2>3. CASE j # 1
    <3>1. j \in Nat /\ j - 1 \in DOMAIN Tail(s) /\ j - 1 + 1 = j
      BY <2>3, TailFacts
    <3>2. j - 1 < i /\ Tail(s)[j - 1] = s[j]
      BY <1>1, <2>1, <3>1, TailFacts
    <3> QED BY <2>1, <3>1, <3>2
  <2> QED BY <2>2, <2>3
<1> QED BY <1>2, <1>3

\* The head of what continues what the page has is what the page sees next.
LEMMA SeesHead ==
  ASSUME NEW N \in SUBSET Nat, NEW G \in Seq(Nat), Sees(G, N),
         NEW s \in Seq(Events), s # <<>>, SeqsOf(s) \subseteq N, Continues(s, Range(G), N),
         Head(s).seq \notin Range(G)
  PROVE  Sees(Append(G, Head(s).seq), N)
<1>1. 1 \in DOMAIN s /\ s[1] = Head(s) /\ Head(s).seq \in N /\ \A j \in DOMAIN s : j \in Nat /\ j >= 1
  <2>1. \A j \in DOMAIN s : j \in Nat /\ (j = 1 \/ j > 1)
    BY TailFacts
  <2>2. 1 \in DOMAIN s /\ s[1] = Head(s) /\ SeqsOf(s) = {Head(s).seq} \cup SeqsOf(Tail(s))
    BY TailFacts
  <2> QED BY <2>1, <2>2
<1>2. \A n \in N : n < Head(s).seq => n \in Range(G)
  <2>1. \A n \in N : n < s[1].seq => n \in Range(G) \/ \E j \in DOMAIN s : j < 1 /\ s[j].seq = n
    BY <1>1 DEF Continues
  <2> QED BY <1>1, <2>1
<1> QED BY <1>1, <1>2, SeesMore

\* The page does not move while more is persisted.
LEMMA FollowsMore ==
  ASSUME NEW p \in Pages, NEW N \in SUBSET Nat, NEW M \in SUBSET Nat, NEW Sent, NEW Sending,
         FollowInv(p, N, Sent), N \subseteq M, \A m \in M \ N, n \in N : n < m,
         Sent \cup (M \ N) \subseteq Sending
  PROVE  FollowInv(p, M, Sending)
<1>1. Sees(p.got, M)
  BY SeesOfMore DEF FollowInv
<1>2. ASSUME p.state = "replay" PROVE ReplayGoesOn(p.replay, p.got, M)
  <2>1. ReplayGoesOn(p.replay, p.got, N)
    BY <1>2 DEF FollowInv
  <2>2. Continues(p.replay, Range(p.got), M)
    BY <2>1, ContinuesOfMore DEF ReplayGoesOn
  <2> QED BY <2>1, <2>2 DEF ReplayGoesOn
<1>3. ASSUME p.state \in {"replay", "live"}
      PROVE  Continues(p.buffer, Range(p.got) \cup SeqsOf(p.replay), M)
  <2>1. SeqsOf(p.buffer) \subseteq N /\ Continues(p.buffer, Range(p.got) \cup SeqsOf(p.replay), N)
    BY <1>3 DEF FollowInv
  <2> QED BY <2>1, ContinuesOfMore
<1>4. ASSUME p.state \in {"replay", "live"}, p.subscribed PROVE M \subseteq OnItsWay(p, Sending)
  <2>1. N \subseteq OnItsWay(p, Sent)
    BY <1>4 DEF FollowInv
  <2> QED BY <2>1 DEF OnItsWay
<1> QED BY <1>1, <1>2, <1>3, <1>4 DEF FollowInv

\* A connection that breaks, or a stream that ends, leaves what was seen.
LEMMA FollowsNoMore ==
  ASSUME NEW p, NEW N, NEW Sent,
         p.state \in {"closed", "lost"}, ~p.subscribed, Sees(p.got, N),
         p.after \in {0} \cup Range(p.got)
  PROVE  FollowInv(p, N, Sent)
BY DEF FollowInv

\* An event that reaches the subscribers of its Attempt.
LEMMA FollowsBroadcast ==
  ASSUME NEW p \in Pages, NEW N \in SUBSET Nat, NEW e \in Events, e.seq \in N,
         FollowInv(p, N, {e.seq}), NEW q \in Pages,
         q.state = p.state /\ q.after = p.after /\ q.got = p.got /\ q.replay = p.replay,
         \/ q.buffer = p.buffer /\ ~q.subscribed
         \/ q.buffer = Append(p.buffer, e) /\ q.subscribed /\ p.subscribed
  PROVE  FollowInv(q, N, {})
<1>1. CASE q.buffer = p.buffer /\ ~q.subscribed
  BY <1>1 DEF FollowInv
<1>2. CASE q.buffer = Append(p.buffer, e) /\ q.subscribed /\ p.subscribed
  <2> DEFINE s == p.buffer
             len == Len(s)
             t == Append(s, e)
  <2>1. /\ s \in Seq(Events) /\ len \in Nat /\ DOMAIN s = 1..len
        /\ DOMAIN t = 1..(len + 1) /\ t[len + 1] = e /\ \A i \in 1..len : t[i] = s[i]
    BY SeqFacts DEF Pages
  <2>2. \A i \in 1..(len + 1) : i \in 1..len \/ i = len + 1
    BY <2>1
  <2>3. 1..len \subseteq 1..(len + 1) /\ len + 1 \in 1..(len + 1) /\ \A i \in 1..len : i < len + 1
    BY <2>1
  <2> HIDE DEF len, t, s
  <2>4. SeqsOf(t) = SeqsOf(s) \cup {e.seq}
    <3>1. SeqsOf(t) = {t[i].seq : i \in 1..(len + 1)}
      BY <2>1 DEF SeqsOf
    <3>2. SeqsOf(s) = {s[i].seq : i \in 1..len}
      BY <2>1 DEF SeqsOf
    <3>3. \A x \in SeqsOf(t) : x \in SeqsOf(s) \cup {e.seq}
      BY <2>1, <2>2, <3>1, <3>2
    <3>4. \A x \in SeqsOf(s) \cup {e.seq} : x \in SeqsOf(t)
      BY <2>1, <2>3, <3>1, <3>2
    <3> QED BY <3>3, <3>4
  <2>5. ASSUME p.state \in {"replay", "live"}
        PROVE  Continues(t, Range(p.got) \cup SeqsOf(p.replay), N)
    <3>1. /\ Continues(s, Range(p.got) \cup SeqsOf(p.replay), N)
          /\ N \subseteq Range(p.got) \cup SeqsOf(p.replay) \cup SeqsOf(s) \cup {e.seq}
      BY <1>2, <2>5 DEF FollowInv, OnItsWay, s
    <3> SUFFICES ASSUME NEW i \in DOMAIN t, NEW n \in N, n < t[i].seq
                 PROVE  \/ n \in Range(p.got) \cup SeqsOf(p.replay)
                        \/ \E j \in DOMAIN t : j < i /\ t[j].seq = n
      BY DEF Continues
    <3>2. CASE i \in 1..len
      <4>1. \/ n \in Range(p.got) \cup SeqsOf(p.replay)
            \/ \E j \in DOMAIN s : j < i /\ s[j].seq = n
        BY <2>1, <3>1, <3>2 DEF Continues
      <4> QED BY <2>1, <2>3, <4>1
    <3>3. CASE i = len + 1
      <4>1. n # e.seq
        BY <2>1, <3>3 DEF Events
      <4>2. CASE n \in SeqsOf(s)
        <5>1. PICK j \in 1..len : s[j].seq = n
          BY <2>1, <4>2 DEF SeqsOf
        <5>2. j \in DOMAIN t /\ j < i /\ t[j].seq = n
          BY <2>1, <2>3, <3>3, <5>1
        <5> QED BY <5>2
      <4> QED BY <3>1, <4>1, <4>2
    <3> QED BY <2>1, <2>2, <3>2, <3>3
  <2>6. ASSUME p.state \in {"replay", "live"} PROVE N \subseteq OnItsWay(q, {})
    <3>1. N \subseteq Range(p.got) \cup SeqsOf(p.replay) \cup SeqsOf(s) \cup {e.seq}
      BY <1>2, <2>6 DEF FollowInv, OnItsWay, s
    <3>2. q.buffer = t
      BY <1>2 DEF t, s
    <3> QED BY <2>4, <3>1, <3>2 DEF OnItsWay
  <2>7. q.buffer = t /\ p.buffer = s
    BY <1>2 DEF t, s
  <2> QED BY <1>2, <2>4, <2>5, <2>6, <2>7 DEF FollowInv
<1> QED BY <1>1, <1>2

\* The client connects after the last number it has.
LEMMA FollowsAgain ==
  ASSUME NEW p \in Pages, NEW N \in SUBSET Nat, NEW Sent, NEW Sending, FollowInv(p, N, Sent),
         NEW q \in Pages, q.got = p.got, q.state = "subscribed", q.buffer = <<>>,
         q.after = IF p.got = <<>> THEN 0 ELSE Last(p.got)
  PROVE  FollowInv(q, N, Sending)
<1> DEFINE G == p.got
           len == Len(G)
<1>1. /\ G \in Seq(Nat) /\ len \in Nat /\ DOMAIN G = 1..len /\ \A i \in 1..len : G[i] \in Nat
      /\ \A i, j \in DOMAIN G : i < j => G[i] < G[j]
  BY SeqFacts DEF FollowInv, Sees, Pages
<1>2. ASSUME G # <<>>
      PROVE  Last(G) = G[len] /\ len \in 1..len
  <2>1. len # 0
    BY <1>1, <1>2
  <2> QED BY <1>1, <2>1 DEF Last
<1>3. SeqsOf(<<>>) = {} /\ (G = <<>> => Range(G) = {})
  BY DEF SeqsOf, Range
<1>4. q.after \in {0} \cup Range(G)
  BY <1>1, <1>2 DEF Range
<1>5. \A g \in Range(G) : g <= q.after
  <2> SUFFICES ASSUME NEW i \in 1..len PROVE G[i] <= q.after
    BY <1>1 DEF Range
  <2>1. G # <<>>
    BY <1>1
  <2>2. q.after = G[len] /\ G[len] \in Nat /\ G[i] \in Nat
    BY <1>1, <1>2, <2>1
  <2>3. i < len => G[i] < G[len]
    BY <1>1, <1>2, <2>1
  <2>4. i < len \/ i = len
    BY <1>1
  <2> HIDE DEF G, len
  <2> QED BY <2>2, <2>3, <2>4
<1> HIDE DEF len
<1> QED BY <1>3, <1>4, <1>5 DEF FollowInv

\* The persisted events after the last one that the page has.
LEMMA FollowsReplay ==
  ASSUME NEW p \in Pages, NEW N \in SUBSET (Nat \ {0}), NEW Sent, FollowInv(p, N, Sent),
         p.state = "subscribed", NEW q \in Pages,
         q.got = p.got, q.after = p.after, q.buffer = p.buffer, q.state = "replay",
         SeqsOf(q.replay) = {n \in N : n > p.after},
         \A i, j \in DOMAIN q.replay :
           /\ q.replay[i].seq = q.replay[j].seq => i = j
           /\ q.replay[i].seq < q.replay[j].seq => i < j
  PROVE  FollowInv(q, N, Sent)
<1> DEFINE s == q.replay
<1>1. /\ Sees(p.got, N) /\ p.after \in {0} \cup Range(p.got)
      /\ \A g \in Range(p.got) : g <= p.after
      /\ SeqsOf(p.buffer) \subseteq N
      /\ p.after \in Nat
  BY DEF FollowInv, Pages
<1>2. \A n \in N : n <= p.after => n \in Range(p.got)
  <2> SUFFICES ASSUME NEW n \in N, n <= p.after PROVE n \in Range(p.got)
    OBVIOUS
  <2>1. n \in Nat /\ n # 0
    OBVIOUS
  <2>2. n < p.after \/ n = p.after
    BY <1>1, <2>1
  <2>3. p.after \in Range(p.got)
    BY <1>1, <2>1, <2>2
  <2> QED BY <1>1, <2>2, <2>3 DEF Sees
<1>3. N \subseteq Range(p.got) \cup SeqsOf(s)
  <2> SUFFICES ASSUME NEW n \in N PROVE n \in Range(p.got) \cup SeqsOf(s)
    OBVIOUS
  <2>1. n \in Nat /\ (n <= p.after \/ n > p.after)
    BY <1>1
  <2> QED BY <1>2, <2>1
<1>4. ReplayGoesOn(s, p.got, N)
  <2>1. SeqsOf(s) \subseteq N
    OBVIOUS
  <2>2. \A i \in DOMAIN s : s[i].seq \in N /\ s[i].seq > p.after /\ s[i].seq \notin Range(p.got)
    <3> SUFFICES ASSUME NEW i \in DOMAIN s
                 PROVE  s[i].seq \in N /\ s[i].seq > p.after /\ s[i].seq \notin Range(p.got)
      OBVIOUS
    <3>1. s[i].seq \in SeqsOf(s)
      BY DEF SeqsOf
    <3>2. s[i].seq \in N /\ s[i].seq > p.after /\ s[i].seq \in Nat
      BY <3>1
    <3>3. ~(s[i].seq <= p.after)
      BY <1>1, <3>2
    <3> QED BY <1>1, <3>2, <3>3
  <2>3. Continues(s, Range(p.got), N)
    <3> SUFFICES ASSUME NEW i \in DOMAIN s, NEW n \in N, n < s[i].seq, n \notin Range(p.got)
                 PROVE  \E j \in DOMAIN s : j < i /\ s[j].seq = n
      BY DEF Continues
    <3>1. n \in SeqsOf(s)
      BY <1>3
    <3>2. PICK j \in DOMAIN s : s[j].seq = n
      BY <3>1 DEF SeqsOf
    <3> QED BY <3>2
  <2> QED BY <2>1, <2>2, <2>3 DEF ReplayGoesOn
<1>5. Continues(q.buffer, Range(q.got) \cup SeqsOf(s), N)
  <2>1. \A i \in DOMAIN q.buffer, n \in N : n \in Range(q.got) \cup SeqsOf(s)
    BY <1>3
  <2> QED BY <2>1 DEF Continues
<1>6. N \subseteq OnItsWay(q, Sent)
  BY <1>3 DEF OnItsWay
<1> HIDE DEF s
<1>7. q.replay = s
  BY DEF s
<1> QED BY <1>1, <1>4, <1>5, <1>6, <1>7 DEF FollowInv

\* One event of the replay.
LEMMA FollowsStored ==
  ASSUME NEW p \in Pages, NEW N \in SUBSET (Nat \ {0}), NEW Sent, FollowInv(p, N, Sent),
         p.state = "replay", p.replay # <<>>, NEW q \in Pages,
         q.got = Append(p.got, Head(p.replay).seq), q.after = p.after, q.buffer = p.buffer,
         q.replay = Tail(p.replay),
         \/ q.state = "closed" /\ ~q.subscribed
         \/ q.state = "replay" /\ q.subscribed = p.subscribed
  PROVE  FollowInv(q, N, Sent)
<1> DEFINE s == p.replay
           t == Tail(s)
           x == Head(s).seq
<1>0. p.got \in Seq(Nat) /\ s \in Seq(Events) /\ N \in SUBSET Nat
  BY DEF Pages
<1>1. /\ t \in Seq(Events) /\ x \in Nat \ {0} /\ 1 \in DOMAIN s /\ s[1].seq = x
      /\ SeqsOf(s) = {x} \cup SeqsOf(t)
      /\ \A i \in DOMAIN t : i + 1 \in DOMAIN s /\ t[i] = s[i + 1] /\ i \in Nat /\ i >= 1
  BY <1>0, TailFacts
<1>2. /\ Sees(p.got, N) /\ p.after \in {0} \cup Range(p.got)
      /\ SeqsOf(s) \subseteq N /\ x \in N
      /\ \A i \in DOMAIN s : s[i].seq \notin Range(p.got)
      /\ \A i, j \in DOMAIN s : s[i].seq = s[j].seq => i = j
      /\ Continues(s, Range(p.got), N)
      /\ SeqsOf(p.buffer) \subseteq N
      /\ Continues(p.buffer, Range(p.got) \cup SeqsOf(s), N)
      /\ p.subscribed => N \subseteq OnItsWay(p, Sent)
  BY <1>1 DEF FollowInv, ReplayGoesOn
<1>3. x \notin Range(p.got)
  BY <1>1, <1>2
<1>4. Sees(q.got, N)
  BY <1>0, <1>2, <1>3, SeesHead
<1>5. Range(q.got) = Range(p.got) \cup {x}
  BY <1>0, <1>1, SeqFacts
<1>6. Continues(t, Range(q.got), N)
  BY <1>0, <1>2, <1>5, ContinuesTail
<1> HIDE DEF t, x
<1>7. ReplayGoesOn(t, q.got, N)
  <2>1. SeqsOf(t) \subseteq N
    BY <1>1, <1>2
  <2>2. \A i \in DOMAIN t : t[i].seq \notin Range(q.got)
    <3> SUFFICES ASSUME NEW i \in DOMAIN t PROVE t[i].seq \notin Range(q.got)
      OBVIOUS
    <3>1. i + 1 \in DOMAIN s /\ t[i] = s[i + 1] /\ i + 1 # 1
      BY <1>1
    <3> QED BY <1>1, <1>2, <1>5, <3>1
  <2>3. \A i, j \in DOMAIN t : t[i].seq = t[j].seq => i = j
    <3> SUFFICES ASSUME NEW i \in DOMAIN t, NEW j \in DOMAIN t, t[i].seq = t[j].seq PROVE i = j
      OBVIOUS
    <3>1. i + 1 = j + 1 /\ i \in Nat /\ j \in Nat
      BY <1>1, <1>2
    <3> QED BY <3>1
  <2> QED BY <1>6, <2>1, <2>2, <2>3 DEF ReplayGoesOn
<1>8. Range(q.got) \cup SeqsOf(q.replay) = Range(p.got) \cup SeqsOf(s)
  BY <1>1, <1>5 DEF t
<1>9. Continues(q.buffer, Range(q.got) \cup SeqsOf(q.replay), N)
  BY <1>2, <1>8
<1>10. p.subscribed => N \subseteq OnItsWay(q, Sent)
  BY <1>2, <1>8 DEF OnItsWay
<1>11. q.after \in {0} \cup Range(q.got)
  BY <1>2, <1>5
<1>12. q.replay = t
  BY DEF t
<1> QED BY <1>2, <1>4, <1>7, <1>9, <1>10, <1>11, <1>12 DEF FollowInv

\* One event of the live part: it is new, or the page has it already.
LEMMA FollowsLive ==
  ASSUME NEW p \in Pages, NEW N \in SUBSET (Nat \ {0}), NEW Sent, FollowInv(p, N, Sent),
         p.state = "live", p.buffer # <<>>, NEW q \in Pages,
         q.after = p.after, q.buffer = Tail(p.buffer), q.replay = p.replay,
         \/ /\ AlreadySent(p, Head(p.buffer))
            /\ q.got = p.got /\ q.state = "live" /\ q.subscribed = p.subscribed
         \/ /\ ~AlreadySent(p, Head(p.buffer))
            /\ q.got = Append(p.got, Head(p.buffer).seq)
            /\ \/ q.state = "closed" /\ ~q.subscribed
               \/ q.state = "live" /\ q.subscribed = p.subscribed
  PROVE  FollowInv(q, N, Sent)
<1> DEFINE s == p.buffer
           t == Tail(s)
           x == Head(s).seq
<1>0. p.got \in Seq(Nat) /\ s \in Seq(Events) /\ N \in SUBSET Nat /\ p.after \in Nat
  BY DEF Pages
<1>1. /\ t \in Seq(Events) /\ x \in Nat \ {0}
      /\ SeqsOf(s) = {x} \cup SeqsOf(t)
  BY <1>0, TailFacts
<1>2. SeqsOf(<<>>) = {}
  BY DEF SeqsOf
<1>3. /\ Sees(p.got, N) /\ p.after \in {0} \cup Range(p.got)
      /\ p.replay = <<>>
      /\ SeqsOf(s) \subseteq N /\ x \in N
      /\ Continues(s, Range(p.got), N)
      /\ p.subscribed => N \subseteq OnItsWay(p, Sent)
  BY <1>1, <1>2 DEF FollowInv
<1>4. /\ Range(q.got) = Range(p.got) \cup {x}
      /\ Sees(q.got, N)
  <2>1. CASE AlreadySent(p, Head(p.buffer))
    <3>1. q.got = p.got /\ (x <= p.after \/ x \in Range(p.got))
      BY <2>1 DEF AlreadySent
    <3>2. ASSUME x <= p.after PROVE x \in Range(p.got)
      <4>1. p.after \in Range(p.got) /\ (x < p.after \/ x = p.after)
        BY <1>0, <1>1, <1>3, <3>2
      <4> QED BY <1>3, <4>1 DEF Sees
    <3> QED BY <1>3, <3>1, <3>2
  <2>2. CASE ~AlreadySent(p, Head(p.buffer))
    <3>1. x \notin Range(p.got) /\ q.got = Append(p.got, x)
      BY <2>2 DEF AlreadySent
    <3>2. Sees(q.got, N)
      BY <1>0, <1>3, <3>1, SeesHead
    <3> QED BY <1>0, <1>1, <3>1, <3>2, SeqFacts
  <2> QED BY <2>1, <2>2
<1>5. Continues(t, Range(q.got), N)
  BY <1>0, <1>3, <1>4, ContinuesTail
<1> HIDE DEF t, x
<1>6. p.subscribed => N \subseteq OnItsWay(q, Sent)
  BY <1>1, <1>3, <1>4 DEF OnItsWay, t
<1>7. q.after \in {0} \cup Range(q.got)
  BY <1>3, <1>4
<1>8. q.buffer = t /\ SeqsOf(t) \subseteq N /\ Range(q.got) \cup SeqsOf(q.replay) = Range(q.got)
  BY <1>1, <1>2, <1>3 DEF t
<1> QED BY <1>3, <1>4, <1>5, <1>6, <1>7, <1>8 DEF FollowInv

LEMMA PageStepsFollow ==
  ASSUME LocalInv, PageSteps
  PROVE  page' \in Pages /\ PageInv'
<1>0. LocalTypeOK /\ NumberInv /\ page \in Pages /\ NoRun \notin Runs /\ Followed \subseteq Runs
  BY LocalRunsAssumption DEF LocalInv, LocalTypeOK, PageTypeOK, Pages, NoRun
<1>1. UNCHANGED <<log, sending>> /\ \A r \in Runs : Numbers(r)' = Numbers(r) /\ BeingSent(r)' = BeingSent(r)
  BY <1>0, PageStepsLeaveTheRest DEF StreamVars, store, memory, Numbers, BeingSent
<1>2. ASSUME NEW r \in Runs, page'.run = r, FollowInv(page', Numbers(r), BeingSent(r))
      PROVE  PageInv'
  BY <1>0, <1>1, <1>2 DEF PageInv
<1>3. \A r \in Runs : Numbers(r) \in SUBSET (Nat \ {0}) /\ Numbers(r) \in SUBSET Nat
  BY <1>0, NumbersAreNaturals
<1>4. ASSUME page.run # NoRun
      PROVE  page.run \in Runs /\ FollowInv(page, Numbers(page.run), BeingSent(page.run))
  BY <1>0, <1>4 DEF LocalInv, PageInv, Pages
<1>5. ASSUME NEW r \in Followed, Open(r) PROVE page' \in Pages /\ PageInv'
  <2> DEFINE q == Connected(page, r, 0)
  <2>1. page = NoPage /\ page' = q /\ r \in Runs
    BY <1>0, <1>5 DEF Open
  <2>2. q \in Pages /\ q.state = "subscribed" /\ q.buffer = <<>> /\ q.run = r /\ q.after = 0 /\ q.got = <<>>
    <3>1. 0 \in Nat /\ page.got = <<>>
      BY <2>1 DEF NoPage
    <3>2. /\ q \in Pages /\ q.state = "subscribed" /\ q.buffer = <<>> /\ q.run = r /\ q.after = 0
          /\ q.got = page.got
      BY <1>0, <2>1, <3>1, ConnectedIs
    <3> QED BY <3>1, <3>2
  <2>3. Range(<<>>) = {} /\ SeqsOf(<<>>) = {} /\ Sees(<<>>, Numbers(r))
    BY DEF Range, SeqsOf, Sees
  <2> HIDE DEF q
  <2>4. FollowInv(q, Numbers(r), BeingSent(r))
    BY <2>2, <2>3 DEF FollowInv
  <2> QED BY <1>2, <2>1, <2>2, <2>4
<1>6. ASSUME page.state # "closed" PROVE page.run # NoRun
  BY <1>6 DEF LocalInv, PageInv, NoPage
<1>7. ASSUME Lose PROVE page' \in Pages /\ PageInv'
  <2> DEFINE q == Broken(page)
  <2>1. page' = q /\ page.run \in Runs /\ FollowInv(page, Numbers(page.run), BeingSent(page.run))
    BY <1>4, <1>6, <1>7 DEF Lose
  <2>2. /\ q \in Pages /\ q.state = "lost" /\ ~q.subscribed
        /\ q.run = page.run /\ q.after = page.after /\ q.got = page.got
    BY <1>0, BrokenIs
  <2> HIDE DEF q
  <2>3. Sees(q.got, Numbers(q.run)) /\ q.after \in {0} \cup Range(q.got)
    BY <2>1, <2>2 DEF FollowInv
  <2>4. FollowInv(q, Numbers(q.run), BeingSent(q.run))
    BY <2>2, <2>3, FollowsNoMore
  <2> QED BY <1>2, <2>1, <2>2, <2>4
<1>12. ASSUME GiveUp PROVE page' \in Pages /\ PageInv'
  <2> DEFINE q == [page EXCEPT !.state = "closed"]
  <2>1. page' = q /\ page.run \in Runs /\ FollowInv(page, Numbers(page.run), BeingSent(page.run))
        /\ ~page.subscribed
    BY <1>4, <1>6, <1>12 DEF GiveUp, FollowInv
  <2>2. /\ q \in Pages /\ q.state = "closed" /\ q.subscribed = page.subscribed
        /\ q.run = page.run /\ q.after = page.after /\ q.got = page.got
    BY <1>0 DEF Pages
  <2> HIDE DEF q
  <2>3. Sees(q.got, Numbers(q.run)) /\ q.after \in {0} \cup Range(q.got)
    BY <2>1, <2>2 DEF FollowInv
  <2>4. FollowInv(q, Numbers(q.run), BeingSent(q.run))
    BY <2>1, <2>2, <2>3 DEF FollowInv
  <2> QED BY <1>2, <2>1, <2>2, <2>4
<1>8. ASSUME Reconnect PROVE page' \in Pages /\ PageInv'
  <2> DEFINE after == IF page.got = <<>> THEN 0 ELSE Last(page.got)
             q == Connected(page, page.run, after)
  <2>1. page' = q /\ page.run \in Runs /\ FollowInv(page, Numbers(page.run), BeingSent(page.run))
    BY <1>4, <1>6, <1>8 DEF Reconnect
  <2>2. after \in Nat
    <3>1. page.got \in Seq(Nat) /\ Len(page.got) \in Nat /\ \A i \in 1..Len(page.got) : page.got[i] \in Nat
      BY <1>0, SeqFacts DEF Pages
    <3>2. page.got # <<>> => Len(page.got) \in 1..Len(page.got)
      BY <3>1
    <3> QED BY <3>1, <3>2 DEF Last
  <2>3. q \in Pages /\ q.state = "subscribed" /\ q.buffer = <<>> /\ q.run = page.run /\ q.after = after /\ q.got = page.got
    BY <1>0, <2>1, <2>2, ConnectedIs
  <2>4. q.after = IF page.got = <<>> THEN 0 ELSE Last(page.got)
    BY <2>3
  <2> HIDE DEF q, after
  <2>5. FollowInv(q, Numbers(page.run), BeingSent(page.run))
    BY <1>0, <1>3, <2>1, <2>3, <2>4, FollowsAgain
  <2> QED BY <1>2, <2>1, <2>3, <2>5
<1>9. ASSUME ListStored PROVE page' \in Pages /\ PageInv'
  <2> DEFINE q == Replay(page)
  <2>1. page' = q /\ page.state = "subscribed" /\ page.run \in Runs
        /\ FollowInv(page, Numbers(page.run), BeingSent(page.run))
    BY <1>4, <1>6, <1>9 DEF ListStored
  <2>2. /\ q \in Pages /\ q.state = "replay" /\ q.run = page.run /\ q.after = page.after
        /\ q.got = page.got /\ q.buffer = page.buffer
        /\ SeqsOf(q.replay) = {n \in Numbers(page.run) : n > page.after}
        /\ \A i, j \in DOMAIN q.replay :
             /\ q.replay[i].seq = q.replay[j].seq => i = j
             /\ q.replay[i].seq < q.replay[j].seq => i < j
    BY <1>0, <2>1, ReplayIs
  <2> HIDE DEF q
  <2>3. FollowInv(q, Numbers(page.run), BeingSent(page.run))
    BY <1>0, <1>3, <2>1, <2>2, FollowsReplay
  <2> QED BY <1>2, <2>1, <2>2, <2>3
<1>10. ASSUME DeliverStored PROVE page' \in Pages /\ PageInv'
  <2>1. page.state = "replay" /\ page.run \in Runs
        /\ FollowInv(page, Numbers(page.run), BeingSent(page.run))
    BY <1>4, <1>6, <1>10 DEF DeliverStored
  <2>2. CASE page.replay = <<>>
    <3> DEFINE q == [page EXCEPT !.state = "live"]
    <3>1. page' = q
      BY <1>10, <2>2 DEF DeliverStored
    <3>2. /\ q \in Pages /\ q.state = "live" /\ q.run = page.run /\ q.after = page.after
          /\ q.got = page.got /\ q.buffer = page.buffer /\ q.replay = page.replay
          /\ q.subscribed = page.subscribed
      BY <1>0 DEF Pages
    <3> HIDE DEF q
    <3>3. FollowInv(q, Numbers(page.run), BeingSent(page.run))
      BY <2>1, <2>2, <3>2 DEF FollowInv, OnItsWay
    <3> QED BY <1>2, <2>1, <3>1, <3>2, <3>3
  <2>3. CASE page.replay # <<>>
    <3> DEFINE p == [page EXCEPT !.replay = Tail(@)]
               e == Head(page.replay)
               q == Delivered(p, e)
    <3>1. page' = q
      BY <1>10, <2>3 DEF DeliverStored
    <3>2. e \in Events /\ Tail(page.replay) \in Seq(Events)
      BY <1>0, <2>3, TailFacts DEF Pages
    <3>3. /\ p \in Pages /\ p.state = page.state /\ p.run = page.run /\ p.after = page.after
          /\ p.got = page.got /\ p.buffer = page.buffer /\ p.replay = Tail(page.replay)
          /\ p.subscribed = page.subscribed
      BY <1>0, <3>2 DEF Pages
    <3> HIDE DEF p, e
    <3>4. /\ q \in Pages /\ q.got = Append(p.got, e.seq)
          /\ q.state = (IF EndsStream(p, e) THEN "closed" ELSE p.state)
          /\ q.subscribed = (p.subscribed /\ ~EndsStream(p, e))
          /\ q.run = p.run /\ q.after = p.after /\ q.buffer = p.buffer /\ q.replay = p.replay
      BY <3>2, <3>3, DeliveredIs
    <3> HIDE DEF q
    <3>5. \/ q.state = "closed" /\ ~q.subscribed
          \/ q.state = "replay" /\ q.subscribed = page.subscribed
      <4>1. page.subscribed \in BOOLEAN
        BY <1>0 DEF Pages
      <4> QED BY <2>1, <3>3, <3>4, <4>1
    <3>6. q.got = Append(page.got, Head(page.replay).seq)
      BY <3>3, <3>4 DEF e
    <3>7. FollowInv(q, Numbers(page.run), BeingSent(page.run))
      BY <1>0, <1>3, <2>1, <2>3, <3>3, <3>4, <3>5, <3>6, FollowsStored
    <3> QED BY <1>2, <2>1, <3>1, <3>3, <3>4, <3>7
  <2> QED BY <2>2, <2>3
<1>11. ASSUME DeliverLive PROVE page' \in Pages /\ PageInv'
  <2> DEFINE p == [page EXCEPT !.buffer = Tail(@)]
             e == Head(page.buffer)
             q == Delivered(p, e)
  <2>1. page.state = "live" /\ page.buffer # <<>> /\ page.run \in Runs
        /\ FollowInv(page, Numbers(page.run), BeingSent(page.run))
        /\ page' = IF AlreadySent(page, e) THEN p ELSE q
    BY <1>4, <1>6, <1>11 DEF DeliverLive
  <2>2. e \in Events /\ Tail(page.buffer) \in Seq(Events)
    BY <1>0, <2>1, TailFacts DEF Pages
  <2>3. /\ p \in Pages /\ p.state = page.state /\ p.run = page.run /\ p.after = page.after
        /\ p.got = page.got /\ p.buffer = Tail(page.buffer) /\ p.replay = page.replay
        /\ p.subscribed = page.subscribed
    BY <1>0, <2>2 DEF Pages
  <2>e. e = Head(page.buffer)
    OBVIOUS
  <2> HIDE DEF p, e
  <2>4. /\ q \in Pages /\ q.got = Append(p.got, e.seq)
        /\ q.state = (IF EndsStream(p, e) THEN "closed" ELSE p.state)
        /\ q.subscribed = (p.subscribed /\ ~EndsStream(p, e))
        /\ q.run = p.run /\ q.after = p.after /\ q.buffer = p.buffer /\ q.replay = p.replay
    BY <2>2, <2>3, DeliveredIs
  <2> HIDE DEF q
  <2>5. CASE AlreadySent(page, e)
    <3>1. FollowInv(p, Numbers(page.run), BeingSent(page.run))
      BY <1>0, <1>3, <2>1, <2>3, <2>5, <2>e, FollowsLive
    <3> QED BY <1>2, <2>1, <2>3, <2>5, <3>1
  <2>6. CASE ~AlreadySent(page, e)
    <3>1. \/ q.state = "closed" /\ ~q.subscribed
          \/ q.state = "live" /\ q.subscribed = page.subscribed
      <4>1. page.subscribed \in BOOLEAN
        BY <1>0 DEF Pages
      <4> QED BY <2>1, <2>3, <2>4, <4>1
    <3>2. q.got = Append(page.got, Head(page.buffer).seq)
      BY <2>3, <2>4, <2>e
    <3>3. FollowInv(q, Numbers(page.run), BeingSent(page.run))
      BY <1>0, <1>3, <2>1, <2>3, <2>4, <2>6, <2>e, <3>1, <3>2, FollowsLive
    <3> QED BY <1>2, <2>1, <2>3, <2>4, <2>6, <3>3
  <2> QED BY <2>5, <2>6
<1> QED BY <1>5, <1>7, <1>8, <1>9, <1>10, <1>11, <1>12 DEF PageSteps

LEMMA EventsOfSteps ==
  ASSUME NEW r \in Runs, LogStep(r), log[r] \in SUBSET Events
  PROVE  log'[r] \in SUBSET Events
<1>1. \A n \in Nat \ {0}, kind \in Kinds, why \in Reasons : Event(n, kind, why) \in Events
  BY DEF Event, Events
<1>2. 1 \in Nat \ {0} /\ "created" \in Kinds /\ "none" \in Reasons
  BY DEF Kinds, Reasons
<1>3. Event(1, "created", "none") \in Events
  BY <1>1, <1>2
<1> QED BY <1>1, <1>3 DEF LogStep

\* What a step other than of the page persists is being sent.
LEMMA NewIsBeingSent ==
  ASSUME LocalInv, Next, NEW r \in Runs, page.run = r, ~Publish, ~Crash, UNCHANGED page
  PROVE  BeingSent(r) \cup (Numbers(r)' \ Numbers(r)) \subseteq BeingSent(r)'
<1>0. /\ LocalTypeOK /\ NumberInv /\ WorkerInv /\ status \in [Runs -> Statuses]
  BY DEF LocalInv, LocalTypeOK, StoreTypeOK
<1>1. sending' = sending \/ sending = Nothing
  <2>1. ASSUME NEW k \in Keys, NEW d \in Digests, Post(k, d) PROVE sending' = sending
    BY <2>1, PostIs DEF PostVars
  <2>2. QuietWork => sending' = sending
    BY QuietEffects
  <2>3. Recording => sending = Nothing
    BY <1>0, RecordingEffects
  <2>4. ASSUME NEW q \in Runs, Recover(q) PROVE sending' = sending
    BY <1>0, <2>4, RecoverIs
  <2>5. PageSteps => sending' = sending
    BY <1>0, PageStepsLeaveTheRest DEF StreamVars, memory
  <2> QED BY <1>0, <2>1, <2>2, <2>3, <2>4, <2>5, NextSteps
<1>2. BeingSent(r) \subseteq BeingSent(r)'
  BY <1>1 DEF BeingSent
<1>3. status[r] # Absent
  BY DEF LocalInv, AbsentInv
<1>4. LogStep(r)
  BY NextLog
<1>5. CASE log'[r] = log[r]
  BY <1>2, <1>5 DEF Numbers
<1>6. ASSUME NEW n \in Nat \ {0}, NEW kind \in Kinds, NEW why \in Reasons,
             log'[r] = log[r] \cup {Event(n, kind, why)},
             sending' = [run |-> r, event |-> Event(n, kind, why)]
      PROVE  Numbers(r)' \ Numbers(r) \subseteq BeingSent(r)'
  <2>1. Event(n, kind, why).seq = n
    BY DEF Event
  <2>2. Numbers(r)' = Numbers(r) \cup {n}
    BY <1>6, <2>1 DEF Numbers
  <2>3. sending' # Nothing /\ sending'.run = r /\ sending'.event.seq = n
    BY <1>6, <2>1 DEF Nothing
  <2>4. n \in BeingSent(r)'
    BY <2>3 DEF BeingSent
  <2> QED BY <2>2, <2>4
<1> QED BY <1>2, <1>3, <1>4, <1>5, <1>6 DEF LogStep

LEMMA PublishFollows ==
  ASSUME LocalInv, Publish
  PROVE  PageInv'
<1>0. LocalTypeOK /\ page \in Pages /\ NoRun \notin Runs /\ page' \in Pages
  <2>1. LocalTypeOK'
    BY PublishType DEF LocalInv
  <2> QED BY <2>1, LocalRunsAssumption DEF LocalInv, LocalTypeOK, PageTypeOK, Pages, NoRun
<1>1. PICK r \in Runs, e \in Events : sending = [run |-> r, event |-> e]
  BY <1>0 DEF Publish, LocalTypeOK, MemoryTypeOK
<1>2. /\ sending.run = r /\ sending.event = e /\ sending' = Nothing /\ log' = log
      /\ page' = Broadcast(r, e) /\ e \in log[r] /\ e.seq \in Nat
  BY <1>1 DEF Publish, LocalInv, JournalInv, Events
<1>3. \A q \in Runs : Numbers(q)' = Numbers(q) /\ BeingSent(q)' = {}
  BY <1>2 DEF Numbers, BeingSent
<1>4. e.seq \in Numbers(r) /\ BeingSent(r) = {e.seq} /\ \A q \in Runs : q # r => BeingSent(q) = {}
  BY <1>1, <1>2 DEF Numbers, BeingSent, Nothing
<1>5. CASE page.run = NoRun
  <2>1. page = NoPage /\ page' = page
    BY <1>2, <1>5 DEF LocalInv, PageInv, Broadcast, NoPage
  <2> QED BY <2>1 DEF PageInv, NoPage
<1>6. CASE page.run # NoRun
  <2>1. page.run \in Runs /\ FollowInv(page, Numbers(page.run), BeingSent(page.run))
    BY <1>0, <1>6 DEF LocalInv, PageInv, Pages
  <2>2. Numbers(page.run) \in SUBSET Nat
    BY <1>0, <2>1, NumbersAreNaturals
  <2>3. CASE ~page.subscribed \/ page.run # r
    <3>1. page' = page
      BY <1>2, <2>3 DEF Broadcast
    <3>2. FollowInv(page, Numbers(page.run), {})
      BY <1>4, <2>1, <2>3 DEF FollowInv
    <3> QED BY <1>0, <1>3, <2>1, <3>1, <3>2 DEF PageInv
  <2>4. CASE page.subscribed /\ page.run = r
    <3>1. page' = IF Len(page.buffer) < BufferSize
                  THEN [page EXCEPT !.buffer = Append(@, e)]
                  ELSE [page EXCEPT !.subscribed = FALSE]
      BY <1>2, <2>4 DEF Broadcast
    <3>2. /\ page'.state = page.state /\ page'.after = page.after /\ page'.got = page.got
          /\ page'.replay = page.replay /\ page'.run = r
          /\ \/ page'.buffer = page.buffer /\ ~page'.subscribed
             \/ page'.buffer = Append(page.buffer, e) /\ page'.subscribed /\ page.subscribed
      <4>1. CASE Len(page.buffer) < BufferSize
        <5>1. page' = [page EXCEPT !.buffer = Append(@, e)]
          BY <3>1, <4>1
        <5> QED BY <1>0, <2>4, <5>1 DEF Pages
      <4>2. CASE ~(Len(page.buffer) < BufferSize)
        <5>1. page' = [page EXCEPT !.subscribed = FALSE]
          BY <3>1, <4>2
        <5> QED BY <1>0, <2>4, <5>1 DEF Pages
      <4> QED BY <4>1, <4>2
    <3>3. FollowInv(page', Numbers(r), {})
      BY <1>0, <1>4, <2>1, <2>2, <2>4, <3>2, FollowsBroadcast
    <3> QED BY <1>0, <1>3, <3>2, <3>3 DEF PageInv
  <2> QED BY <2>3, <2>4
<1> QED BY <1>5, <1>6

LEMMA NextPage ==
  ASSUME LocalInv, Next
  PROVE  PageInv'
<1>0. /\ LocalTypeOK /\ NumberInv /\ WorkerInv /\ page \in Pages /\ NoRun \notin Runs
  BY LocalRunsAssumption DEF LocalInv, LocalTypeOK, PageTypeOK, Pages, NoRun
<1>1. ASSUME page.run # NoRun
      PROVE  page.run \in Runs /\ FollowInv(page, Numbers(page.run), BeingSent(page.run))
  BY <1>0, <1>1 DEF LocalInv, PageInv, Pages
<1>2. CASE PageSteps
  BY <1>2, PageStepsFollow
<1>3. CASE Publish
  BY <1>3, PublishFollows
<1>4. CASE Crash
  <2>1. UNCHANGED log /\ page' = IF page.state = "closed" THEN page ELSE Broken(page)
    BY <1>4 DEF Crash, store
  <2>2. /\ page'.run = page.run /\ page'.got = page.got /\ page'.after = page.after
        /\ page.state # "closed" => page'.state = "lost" /\ ~page'.subscribed
        /\ page.state = "closed" => page' = page
    BY <1>0, <2>1, BrokenIs
  <2>3. CASE page.run = NoRun
    <3>1. page = NoPage /\ page' = page
      BY <2>2, <2>3 DEF LocalInv, PageInv, NoPage
    <3> QED BY <3>1 DEF PageInv, NoPage
  <2>4. CASE page.run # NoRun
    <3>1. /\ Sees(page.got, Numbers(page.run)) /\ page.after \in {0} \cup Range(page.got)
          /\ page.state = "closed" => ~page.subscribed
      BY <1>1, <2>4 DEF FollowInv
    <3>2. page'.state \in {"closed", "lost"} /\ ~page'.subscribed
      BY <2>2, <3>1
    <3>3. \A q \in Runs : Numbers(q)' = Numbers(q)
      BY <2>1 DEF Numbers
    <3>4. \A q \in Runs : q = page.run => FollowInv(page', Numbers(q)', BeingSent(q)')
      <4> SUFFICES ASSUME NEW q \in Runs, q = page.run
                   PROVE  FollowInv(page', Numbers(q)', BeingSent(q)')
        OBVIOUS
      <4> DEFINE N == Numbers(q)'
                 B == BeingSent(q)'
      <4>1. Sees(page'.got, N) /\ page'.after \in {0} \cup Range(page'.got)
        BY <2>2, <3>1, <3>3
      <4> HIDE DEF N, B
      <4>2. FollowInv(page', N, B)
        BY <3>2, <4>1, FollowsNoMore
      <4> QED BY <4>2 DEF N, B
    <3> QED BY <1>1, <2>2, <2>4, <3>4 DEF PageInv
  <2> QED BY <2>3, <2>4
<1>5. CASE ~PageSteps /\ ~Publish /\ ~Crash
  <2>1. UNCHANGED page
    <3>1. ASSUME NEW k \in Keys, NEW d \in Digests, Post(k, d) PROVE UNCHANGED page
      BY <3>1, PostIs DEF PostVars
    <3>2. QuietWork => UNCHANGED page
      BY QuietEffects
    <3>3. Recording => UNCHANGED page
      BY <1>0, RecordingEffects
    <3>4. ASSUME NEW q \in Runs, Recover(q) PROVE UNCHANGED page
      BY <1>0, <3>4, RecoverIs
    <3> QED BY <1>0, <1>5, <3>1, <3>2, <3>3, <3>4, NextSteps
  <2>2. CASE page.run = NoRun
    <3>1. page = NoPage
      BY <2>2 DEF LocalInv, PageInv
    <3> QED BY <2>1, <3>1 DEF PageInv, NoPage
  <2>3. CASE page.run # NoRun
    <3> DEFINE r == page.run
    <3>1. r \in Runs /\ FollowInv(page, Numbers(r), BeingSent(r))
      BY <1>1, <2>3
    <3>2. \A q \in Runs : q = page.run =>
            /\ BeingSent(q) \cup (Numbers(q)' \ Numbers(q)) \subseteq BeingSent(q)'
      BY <1>5, <2>1, NewIsBeingSent
    <3>3. \A q \in Runs : /\ Numbers(q) \subseteq Numbers(q)'
                          /\ \A n \in Numbers(q)' \ Numbers(q), m \in Numbers(q) : m < n
      BY NumbersGrow
    <3>4. \A q \in Runs : Numbers(q) \in SUBSET Nat
      BY <1>0, NumbersAreNaturals
    <3>5. \A q \in Runs : Numbers(q)' \in SUBSET Nat
      <4> SUFFICES ASSUME NEW q \in Runs PROVE Numbers(q)' \in SUBSET Nat
        OBVIOUS
      <4>1. LogStep(q)
        BY NextLog
      <4>2. log[q] \in SUBSET Events
        BY <1>0 DEF LocalTypeOK, StoreTypeOK
      <4>3. log'[q] \in SUBSET Events
        BY <4>1, <4>2, EventsOfSteps
      <4> QED BY <4>3 DEF Events, Numbers
    <3>6. \A q \in Runs : q = page.run => FollowInv(page, Numbers(q)', BeingSent(q)')
      <4> SUFFICES ASSUME NEW q \in Runs, q = page.run
                   PROVE  FollowInv(page, Numbers(q)', BeingSent(q)')
        OBVIOUS
      <4> DEFINE N == Numbers(q)
                 M == Numbers(q)'
                 A == BeingSent(q)
                 B == BeingSent(q)'
      <4>1. /\ FollowInv(page, N, A) /\ N \in SUBSET Nat /\ M \in SUBSET Nat /\ N \subseteq M
            /\ \A m \in M \ N, n \in N : n < m
            /\ A \cup (M \ N) \subseteq B
        BY <3>1, <3>2, <3>3, <3>4, <3>5
      <4> HIDE DEF N, M, A, B
      <4>2. FollowInv(page, M, B)
        BY <1>0, <4>1, FollowsMore
      <4> QED BY <4>2 DEF M, B
    <3> QED BY <1>0, <2>1, <3>1, <3>6 DEF PageInv
  <2> QED BY <2>2, <2>3
<1> QED BY <1>2, <1>3, <1>4, <1>5

-----------------------------------------------------------------------------
(* The invariant.                                                          *)

LEMMA InitInv ==
  ASSUME Init
  PROVE  LocalInv
<1>1. LocalTypeOK
  BY InitType
<1>2. /\ worker.pc = "idle" /\ worker.run = NoRun /\ NoRun \notin Runs
      /\ accepted = {} /\ queue = <<>> /\ pending = {} /\ sending = Nothing /\ drainer = "off"
      /\ \A r \in Runs : log[r] = {} /\ status[r] = Absent /\ journal[r] = <<>> /\ counter[r] = 0
      /\ result = {} /\ page = NoPage
  BY LocalRunsAssumption DEF Init, NoRun
<1>3. Range(<<>>) = {} /\ IsInjective(<<>>)
  BY DEF Range, IsInjective
<1>4. \A r \in Runs : ~Held(r) /\ Numbers(r) = {} /\ IsFiniteSet(log[r])
  BY <1>2, <1>3, FS_EmptySet DEF Held, Queued, Numbers
<1>5. WorkerInv
  BY <1>2 DEF WorkerInv
<1>6. HeldInv
  BY <1>2, <1>3 DEF HeldInv, Queued
<1>7. AbsentInv
  BY <1>2, <1>4 DEF AbsentInv, Nothing, NoPage
<1>8. KeptInv
  BY <1>2 DEF KeptInv, IncompleteAttempts, Incomplete, Absent
<1>9. NumberInv
  BY <1>2, <1>3, <1>4 DEF NumberInv, Queued
<1>10. EndInv
  BY <1>2 DEF EndInv
<1>11. JournalInv
  BY <1>2, <1>3 DEF JournalInv, JournalHoldsLogOnce
<1>12. PageInv
  BY <1>2 DEF PageInv, NoPage
<1> QED BY <1>1, <1>5, <1>6, <1>7, <1>8, <1>9, <1>10, <1>11, <1>12 DEF LocalInv

LEMMA NextType ==
  ASSUME LocalInv, Next
  PROVE  LocalTypeOK'
<1>0. LocalTypeOK /\ NumberInv /\ WorkerInv
  BY DEF LocalInv
<1>1. ASSUME PageSteps PROVE LocalTypeOK'
  <2>1. page' \in Pages /\ UNCHANGED StreamVars /\ losses' \in Nat
    BY <1>0, <1>1, PageStepsFollow, PageStepsLeaveTheRest
  <2> QED BY <1>0, <2>1 DEF LocalTypeOK, StoreTypeOK, MemoryTypeOK, PageTypeOK, Pages, StreamVars,
                            store, memory
<1> QED BY <1>0, <1>1, NextSteps, WorkerHasARun, PostType, QuietType, RecordingType, PublishType,
           CrashType, RecoverType

LEMMA NextInv ==
  ASSUME LocalInv, [Next]_vars
  PROVE  LocalInv'
<1>1. CASE Next
  BY <1>1, NextType, NextWorker, NextHeld, NextAbsent, NextKept, NextNumber, NextEnd, NextJournal,
     NextPage DEF LocalInv
<1>2. CASE UNCHANGED vars
  <2> USE <1>2 DEF vars, store, memory
  <2>1. /\ \A r \in Runs : Numbers(r)' = Numbers(r) /\ (Held(r)' <=> Held(r)) /\ (Known(r)' <=> Known(r))
        /\ Queued' = Queued /\ IncompleteAttempts' = IncompleteAttempts
    BY DEF Numbers, Held, Queued, Known, IncompleteAttempts
  <2>2. LocalTypeOK'
    BY DEF LocalInv, LocalTypeOK, StoreTypeOK, MemoryTypeOK, PageTypeOK
  <2>3. WorkerInv' /\ HeldInv'
    BY <2>1 DEF LocalInv, WorkerInv, HeldInv
  <2>4. AbsentInv' /\ KeptInv'
    <3>1. AbsentInv /\ KeptInv
      BY DEF LocalInv
    <3>2. AbsentInv'
      BY <2>1, <3>1 DEF AbsentInv
    <3>3. KeptInv'
      BY <2>1, <3>1 DEF KeptInv, IncompleteAttempts
    <3> QED BY <3>2, <3>3
  <2>5. NumberInv'
    BY DEF LocalInv, NumberInv, Known, Numbers, Queued
  <2>6. EndInv' /\ JournalInv'
    BY <2>1 DEF LocalInv, EndInv, JournalInv, JournalHoldsLogOnce
  <2>7. PageInv'
    BY DEF LocalInv, PageInv, Numbers, BeingSent
  <2> QED BY <2>2, <2>3, <2>4, <2>5, <2>6, <2>7 DEF LocalInv
<1> QED BY <1>1, <1>2

\* In every state the store, the memory of the process, the journal and the
\* page of the local runtime agree as LocalInv says.
THEOREM LocalInvHolds == Spec => []LocalInv
<1>1. Init => LocalInv
  BY InitInv
<1>2. LocalInv /\ [Next]_vars => LocalInv'
  BY NextInv
<1> QED BY <1>1, <1>2, PTL DEF Spec

LEMMA CardinalityOfOne ==
  ASSUME NEW x, NEW P \in BOOLEAN
  PROVE  Cardinality({y \in {x} : P}) = IF P THEN 1 ELSE 0
<1>1. CASE P
  <2>1. {y \in {x} : P} = {x}
    BY <1>1
  <2> QED BY <1>1, <2>1, FS_Singleton
<1>2. CASE ~P
  <2>1. {y \in {x} : P} = {}
    BY <1>2
  <2> QED BY <1>2, <2>1, FS_EmptySet
<1> QED BY <1>1, <1>2

LEMMA HoldersAre ==
  ASSUME LocalInv, NEW r \in Runs
  PROVE  Holders(r) = IF Held(r) THEN 1 ELSE 0
<1>0. /\ queue \in Seq(Runs) /\ IsInjective(queue) /\ r # NoRun
      /\ r \in accepted => r \notin Queued /\ r \notin pending /\ r # worker.run
      /\ r \in Queued => r \notin pending /\ r # worker.run
      /\ r = worker.run => r \notin pending
  BY LocalRunsAssumption DEF LocalInv, LocalTypeOK, MemoryTypeOK, HeldInv, NoRun
<1> DEFINE Places == {i \in DOMAIN queue : queue[i] = r}
<1>1. Cardinality(Places) = IF r \in Queued THEN 1 ELSE 0
  <2>1. CASE r \in Queued
    <3>1. PICK i \in DOMAIN queue : queue[i] = r
      BY <2>1 DEF Queued, Range
    <3>2. Places = {i}
      BY <1>0, <3>1 DEF IsInjective
    <3> QED BY <2>1, <3>2, FS_Singleton
  <2>2. CASE r \notin Queued
    <3>1. Places = {}
      BY <2>2 DEF Queued, Range
    <3> QED BY <2>2, <3>1, FS_EmptySet
  <2> QED BY <2>1, <2>2
<1>2. Cardinality({x \in {"api"} : r \in accepted}) = IF r \in accepted THEN 1 ELSE 0
  BY CardinalityOfOne
<1>3. Cardinality({x \in {"recovery"} : r \in pending}) = IF r \in pending THEN 1 ELSE 0
  BY CardinalityOfOne
<1>4. Cardinality({x \in {"worker"} : worker.run = r}) = IF worker.run = r THEN 1 ELSE 0
  BY CardinalityOfOne
<1>5. Holders(r) = (IF r \in accepted THEN 1 ELSE 0) + (IF r \in Queued THEN 1 ELSE 0)
                   + (IF r \in pending THEN 1 ELSE 0) + (IF worker.run = r THEN 1 ELSE 0)
  BY <1>1, <1>2, <1>3, <1>4 DEF Holders
<1> QED BY <1>0, <1>5 DEF Held

\* However many Attempts, keys and troubles there are: while the process
\* lives an Attempt is held at most once, and one that has not ended is held
\* as long as no store call raised.
THEOREM HeldOnce == Spec => []EachRunIsHeldOnce
<1>1. ASSUME LocalInv PROVE EachRunIsHeldOnce
  <2>1. \A r \in Runs : Holders(r) = IF Held(r) THEN 1 ELSE 0
    BY <1>1, HoldersAre
  <2>2. worker.pc # "down" /\ faults = 0 => \A r \in IncompleteAttempts : Held(r)
    BY <1>1 DEF LocalInv, KeptInv
  <2> QED BY <2>1, <2>2 DEF EachRunIsHeldOnce
<1> QED BY <1>1, LocalInvHolds, PTL

\* The terminal event ends the log of its Attempt, and the journal holds no
\* event twice and none that the store does not hold, whatever crashes.
THEOREM LogsAreSound == Spec => []LogIsSound
<1>1. ASSUME LocalInv PROVE TerminalIsLast
  <2> SUFFICES ASSUME NEW r \in Runs, NEW e \in log[r], e.seq < Newest(r)
               PROVE  e.kind # "completed" /\ (e.kind = "failed" => faults > 0)
    BY DEF TerminalIsLast
  <2>1. Numbers(r) \in SUBSET Nat /\ e.seq \in Numbers(r) /\ faults \in Nat
    <3>1. LocalTypeOK
      BY <1>1 DEF LocalInv
    <3> QED BY <3>1, NumbersAreNaturals DEF Numbers, LocalTypeOK, MemoryTypeOK
  <2>2. Newest(r) \in Numbers(r)
    <3>1. \E n \in Numbers(r) : \A m \in Numbers(r) : m <= n
      BY <1>1 DEF LocalInv, NumberInv
    <3>2. \E n \in Numbers(r) : \A m \in Numbers(r) : n >= m
      <4>1. PICK n \in Numbers(r) : \A m \in Numbers(r) : m <= n
        BY <3>1
      <4>2. \A m \in Numbers(r) : n >= m
        BY <2>1, <4>1
      <4> QED BY <4>2
    <3>3. Newest(r) = Max(Numbers(r))
      BY DEF Newest
    <3> QED BY <3>2, <3>3 DEF Max
  <2>3. ~(\A n \in Numbers(r) : n <= e.seq)
    BY <2>1, <2>2
  <2>4. e.kind # "completed" /\ ~(e.kind = "failed" /\ faults = 0)
    BY <1>1, <2>3 DEF LocalInv, EndInv
  <2> QED BY <2>1, <2>4
<1>2. LocalInv => LogIsSound
  BY <1>1 DEF LogIsSound, LocalInv, JournalInv
<1> QED BY <1>2, LocalInvHolds, PTL

\* What a page has received, over any number of connections, is the beginning
\* of the persisted events of its Attempt in their order.
THEOREM PagesSeeAPrefix == Spec => []PageSeesPrefix
<1>1. ASSUME LocalInv PROVE PageSeesPrefix
  <2> SUFFICES ASSUME page.run # NoRun
               PROVE  IsPrefix(page.got, Ascending(Numbers(page.run)))
    BY DEF PageSeesPrefix
  <2>1. LocalTypeOK /\ page \in Pages /\ page.run \in Runs
    BY <1>1 DEF LocalInv, LocalTypeOK, PageTypeOK, Pages
  <2>2. Numbers(page.run) \in SUBSET Nat /\ IsFiniteSet(Numbers(page.run))
    BY <1>1, <2>1, MissingIsFinite DEF LocalInv
  <2>3. page.got \in Seq(Nat) /\ Sees(page.got, Numbers(page.run))
    BY <1>1, <2>1 DEF Pages, LocalInv, PageInv, FollowInv
  <2> QED BY <2>2, <2>3, SeesIsPrefix
<1> QED BY <1>1, LocalInvHolds, PTL

\* The log of an Attempt only grows, and only beyond its last number: what a
\* page or the journal has taken from it never gets a new predecessor.
LogGrowsAtItsEnd ==
  \A r \in Runs :
    /\ Numbers(r) \subseteq Numbers(r)'
    /\ \A n \in Numbers(r)' \ Numbers(r), m \in Numbers(r) : m < n

\* No step inserts an event before a persisted one, takes one away or reuses
\* its number, although the recorder's counters are lost in a crash.
THEOREM LogsGrowAtTheirEnd == Spec => [][LogGrowsAtItsEnd]_vars
<1>1. LocalInv /\ [Next]_vars => [LogGrowsAtItsEnd]_vars
  BY NumbersGrow DEF LogGrowsAtItsEnd
<1> QED BY <1>1, LocalInvHolds, PTL DEF Spec

================================================================================
