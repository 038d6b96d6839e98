-------------------------- MODULE SchedulerProofs --------------------------
(***************************************************************************)
(* Theorems about Scheduler and MemoryQueue, for every value of their      *)
(* constants.                                                              *)
(***************************************************************************)
EXTENDS Scheduler, SequenceLemmas, FiniteSetTheorems, SequenceTheorems, TLAPS

-----------------------------------------------------------------------------
\* The operators.

\* What is left of the leases.
LEMMA WithoutProperties ==
  ASSUME QueueTypeOK, NEW S
  PROVE  Without(S) \in Seq(Requests) /\ Range(Without(S)) = Leased \ S
<1> DEFINE Kept(i) == IF leased[i] \in S THEN << >> ELSE <<leased[i]>>
           seqs    == [i \in DOMAIN leased |-> Kept(i)]
<1>1. leased \in Seq(Requests) /\ DOMAIN leased = 1 .. Len(leased) /\ Len(leased) \in Nat
  BY DEF QueueTypeOK
<1>2. \A i \in 1 .. Len(leased) : leased[i] \in Requests
  BY <1>1
<1>3. \A i \in 1 .. Len(leased) : Kept(i) \in Seq(Requests)
  BY <1>2
<1>4. seqs \in Seq(Seq(Requests)) /\ Len(seqs) = Len(leased)
  <2> HIDE DEF Kept
  <2>1. QED
    BY <1>1, <1>3
<1>5. Without(S) = FlattenSeq(seqs)
  BY DEF Without
<1>6. \A i \in 1 .. Len(leased) : seqs[i] = Kept(i)
  BY <1>1
<1> HIDE DEF seqs
<1>7. Without(S) \in Seq(Requests)
  BY <1>4, <1>5, FlattenSeqProperties
<1>8. ASSUME NEW x PROVE x \in Range(Without(S)) <=> x \in Leased \ S
  <2>1. x \in Range(Without(S)) <=> \E i \in 1 .. Len(leased) : x \in Range(Kept(i))
    <3> HIDE DEF Kept
    <3>1. QED
      BY <1>4, <1>5, <1>6, FlattenSeqRange
  <2>2. \A i : x \in Range(Kept(i)) <=> leased[i] \notin S /\ x = leased[i]
    BY DEF Range
  <2>3. x \in Leased <=> \E i \in 1 .. Len(leased) : x = leased[i]
    BY <1>1 DEF Leased, Range
  <2> HIDE DEF Kept
  <2>4. QED
    BY <2>1, <2>2, <2>3
<1>9. QED
  BY <1>7, <1>8

\* The head of a queue that is not empty is in it.
LEMMA HeadReady ==
  ASSUME QueueTypeOK, ready # {}
  PROVE  Head1 \in ready /\ Head1 \in Requests
<1>1. ready \in SUBSET Nat
  BY RequestsAssumption DEF QueueTypeOK
<1>2. QED
  BY <1>1, MinOfNats DEF Head1, QueueTypeOK

\* max of two numbers.
LEMMA MaxOfTwo ==
  ASSUME NEW a \in Int, NEW b \in Int
  PROVE  Max({a, b}) = IF a >= b THEN a ELSE b
BY DEF Max

\* min of two numbers.
LEMMA MinOfTwo ==
  ASSUME NEW a \in Int, NEW b \in Int
  PROVE  Min({a, b}) = IF a <= b THEN a ELSE b
BY DEF Min

\* The tokens and sentinels of a stream.
Stream == Seq({"token", "DONE"})

\* The service counts as this module does.
LEMMA ServiceCardinality ==
  \A S : Service!Cardinality(S) = Cardinality(S)
BY DEF Service!Cardinality, Cardinality

\* What a put into a token queue does to its tokens and DONEs.
LEMMA StreamCounts ==
  ASSUME NEW s \in Stream
  PROVE  /\ Service!Tokens(s) \in Nat /\ Service!Dones(s) \in Int
         /\ Service!Tokens(Append(s, "token")) = Service!Tokens(s) + 1
         /\ Service!Tokens(Append(s, "DONE")) = Service!Tokens(s)
         /\ Service!Dones(Append(s, "token")) = Service!Dones(s)
         /\ Service!Dones(Append(s, "DONE")) = Service!Dones(s) + 1
<1> DEFINE At(t) == {i \in DOMAIN t : t[i] = "token"}
           u == Append(s, "token")
           v == Append(s, "DONE")
           n == Len(s)
<1>1. n \in Nat /\ DOMAIN s = 1 .. n
  BY DEF Stream
<1>2. /\ u \in Stream /\ v \in Stream
      /\ Len(u) = n + 1 /\ Len(v) = n + 1
      /\ DOMAIN u = 1 .. n + 1 /\ DOMAIN v = 1 .. n + 1
      /\ u[n + 1] = "token" /\ v[n + 1] = "DONE"
      /\ \A i \in 1 .. n : u[i] = s[i] /\ v[i] = s[i]
  BY DEF Stream
<1> HIDE DEF u, v
<1>3. IsFiniteSet(At(s)) /\ Cardinality(At(s)) \in Nat
  <2>1. At(s) \in SUBSET (1 .. n)
    BY <1>1
  <2>2. IsFiniteSet(1 .. n)
    BY <1>1, FS_Interval
  <2>3. QED
    BY <2>1, <2>2, FS_Subset, FS_CardinalityType
<1>4. At(u) = At(s) \cup {n + 1}
  BY <1>1, <1>2
<1>5. At(v) = At(s)
  BY <1>1, <1>2
<1>6. n + 1 \notin At(s)
  BY <1>1
<1>7. Cardinality(At(u)) = Cardinality(At(s)) + 1
  <2> HIDE DEF At, n
  <2>1. QED
    BY <1>3, <1>4, <1>6, FS_AddElement
<1>8. /\ Service!Tokens(s) = Cardinality(At(s))
      /\ Service!Tokens(u) = Cardinality(At(u))
      /\ Service!Tokens(v) = Cardinality(At(v))
  BY ServiceCardinality, Zenon DEF Service!Tokens
<1>9. \A t : Service!Dones(t) = Len(t) - Service!Tokens(t)
  BY DEF Service!Dones
<1>10. /\ Service!Dones(s) = Len(s) - Service!Tokens(s)
       /\ Service!Dones(u) = Len(u) - Service!Tokens(u)
       /\ Service!Dones(v) = Len(v) - Service!Tokens(v)
  BY <1>9
<1>11. Len(s) \in Nat /\ Len(u) = Len(s) + 1 /\ Len(v) = Len(s) + 1
  BY <1>1, <1>2
<1> HIDE DEF At, n
<1>12. /\ Service!Tokens(s) \in Nat
       /\ Service!Tokens(u) = Service!Tokens(s) + 1
       /\ Service!Tokens(v) = Service!Tokens(s)
  BY <1>3, <1>5, <1>7, <1>8
<1>13. /\ Service!Dones(s) \in Int
       /\ Service!Dones(u) = Service!Dones(s)
       /\ Service!Dones(v) = Service!Dones(s) + 1
  BY <1>10, <1>11, <1>12
<1>14. QED
  BY <1>12, <1>13 DEF u, v

\* A token queue starts empty.
LEMMA EmptyStream ==
  /\ << >> \in Stream
  /\ Service!Tokens(<< >>) = 0 /\ Service!Dones(<< >>) = 0
<1>1. {i \in DOMAIN << >> : << >>[i] = "token"} = {}
  OBVIOUS
<1>2. Service!Tokens(<< >>) = 0
  BY <1>1, FS_EmptySet, ServiceCardinality DEF Service!Tokens
<1>3. QED
  BY <1>2 DEF Service!Dones, Stream

\* A closed stream holds a sentinel.
LEMMA ClosedStream ==
  ASSUME NEW s \in Stream, Service!Closed(s)
  PROVE  Service!Dones(s) >= 1
<1> DEFINE n == Len(s)
           T == {i \in DOMAIN s : s[i] = "token"}
<1>1. n \in Nat /\ n >= 1 /\ DOMAIN s = 1 .. n /\ s[n] = "DONE"
  BY DEF Service!Closed, Stream
<1>2. T \in SUBSET (1 .. n - 1)
  BY <1>1
<1>3. IsFiniteSet(1 .. n - 1) /\ Cardinality(1 .. n - 1) = n - 1
  <2>1. 1 \in Int /\ n - 1 \in Int /\ n - 1 >= 0
    BY <1>1
  <2> HIDE DEF n
  <2>2. /\ IsFiniteSet(1 .. n - 1)
        /\ Cardinality(1 .. n - 1) = IF 1 > n - 1 THEN 0 ELSE n - 1 - 1 + 1
    BY ONLY <2>1, FS_Interval
  <2>3. QED
    BY ONLY <2>1, <2>2, <1>1
<1>4. Cardinality(T) \in Nat /\ Cardinality(T) <= n - 1
  BY <1>2, <1>3, FS_Subset, FS_CardinalityType
<1>5. Service!Dones(s) = n - Cardinality(T)
  BY ServiceCardinality DEF Service!Dones, Service!Tokens
<1> HIDE DEF T, n
<1>6. QED
  BY <1>1, <1>4, <1>5

-----------------------------------------------------------------------------
\* The inductive invariant.

Waiting        == Jobs(taken) \cup Jobs(internal)
ClientIds(seq) == {j.id : j \in {i \in Jobs(seq) : i.client}}
ActiveClients  == Clients(Batch)

\* Jobs end, are leased and are fed in their own phases of the loop.
Phases ==
  /\ IsFiniteSet(Batch)
  /\ stage # "cleanup" => \A r \in Batch : ~active[r].finished
  /\ taken # << >> => stage \in {"lease", "inject", "stopped"}
  /\ DOMAIN fed # {} => stage \in {"forward", "stopped"}

\* What a step feeds a job fits the job.
FedFits ==
  stage = "forward" =>
    \A r \in DOMAIN fed :
      IF IsPrefilling(active[r]) THEN fed[r] <= Unfed[r]
      ELSE fed[r] = 1 /\ active[r].out > 0

\* A block in use has one holder, and a job that waits has none.
BlockEach ==
  /\ inUse = {active[r].block : r \in Batch} \cup {j.block : j \in overtaken}
  /\ \A r, s \in Batch : active[r].block = active[s].block => r = s
  /\ \A r \in Batch, j \in overtaken : active[r].block # j.block
  /\ \A i, j \in overtaken : i.block = j.block => i = j
  /\ \A j \in Waiting : j.block = NoBlock

\* A job's counters.
Counted(j) ==
  /\ j.out <= j.total /\ j.total <= MaxTokens /\ j.preempted <= MaxPreempt
  /\ ~j.finished => j.total < MaxTokens
  /\ j.input = plen[j.id] + j.total - j.out

Counts ==
  /\ \A r \in Batch : Counted(active[r])
  /\ \A j \in Waiting : Counted(j) /\ ~j.finished /\ j.out = 0

Positioned(j) ==
  /\ j.out > 0 => j.pos = j.input + j.out - 1
  /\ j.out = 0 => j.pos <= j.input
  /\ j.out = 0 /\ ~j.finished => j.pos < j.input \/ j.input = 0

Positions == \A r \in Batch : Positioned(active[r])

\* A submitter's object is in one place.
OneEach(seq) ==
  \A i, k \in DOMAIN seq :
    seq[i].client /\ seq[k].client /\ seq[i].id = seq[k].id => i = k

OneObject ==
  /\ OneEach(taken) /\ OneEach(internal)
  /\ ClientIds(taken) \cap ClientIds(internal) = {}
  /\ ClientIds(taken) \cap ActiveClients = {}
  /\ ClientIds(internal) \cap ActiveClients = {}
  /\ pending \cap (ClientIds(taken) \cup ClientIds(internal) \cup ActiveClients) = {}

\* The submitter of r has seen n tokens, and no answer but its own cancellation.
Served(r, n) ==
  /\ Service!Tokens(stream[r]) = n /\ Service!Dones(stream[r]) = 0
  /\ fut[r] \in {"waiting", "cancelled"}

\* The submitter of r when its job is finished: a failure was told.
Ended(r) ==
  /\ Service!Tokens(stream[r]) = active[r].total
  /\ IF active[r].reason = "error"
     THEN Service!Dones(stream[r]) = 1 /\ fut[r] \in {"error", "cancelled"}
     ELSE Service!Dones(stream[r]) = 0 /\ fut[r] # "new"

\* A future and a stream say how far the job is that they belong to.
NewStreams ==
  \A r \in Requests : fut[r] = "new" =>
    /\ stream[r] = << >> /\ answer[r] = 0
    /\ r \notin pending \cup ClientIds(taken) \cup ClientIds(internal) \cup ActiveClients
WaitingStreams ==
  /\ \A r \in pending : Served(r, 0)
  /\ \A j \in Waiting : j.client => Served(j.id, j.total)
ActiveStreams ==
  \A r \in ActiveClients :
    IF active[r].finished THEN Ended(r) ELSE Served(r, active[r].total)
CappedStreams ==
  \A r \in Requests : /\ Service!Tokens(stream[r]) <= MaxTokens
                      /\ answer[r] <= Service!Tokens(stream[r])

\* The messages of the jobs in the loop's hands are not settled.
Messages ==
  /\ pending \subseteq ready
  /\ UseQueue => Batch \cup {j.id : j \in Jobs(taken)} \subseteq Unsettled

\* A submitter that waits has a message or an object.
Remembered ==
  \A r \in Requests :
    fut[r] = "waiting" =>
      r \in pending \cup ActiveClients \cup ClientIds(taken) \cup ClientIds(internal)
              \cup {j.id : j \in {i \in overtaken : i.client}}

SchedInv ==
  /\ SchedTypeOK /\ Phases /\ FedFits /\ BlockEach /\ Counts /\ Positions
  /\ OneObject /\ NewStreams /\ WaitingStreams /\ ActiveStreams /\ CappedStreams
  /\ Messages /\ Remembered

-----------------------------------------------------------------------------
\* Sequences of jobs.

\* What a put into the list of jobs to inject does to the jobs in it,
LEMMA JobsAppend ==
  ASSUME NEW s \in Seq(Job), NEW j \in Job
  PROVE  /\ Append(s, j) \in Seq(Job)
         /\ Jobs(Append(s, j)) = Jobs(s) \cup {j}
         /\ ClientIds(Append(s, j)) = ClientIds(s) \cup (IF j.client THEN {j.id} ELSE {})
         /\ OneEach(s) /\ (j.client => j.id \notin ClientIds(s)) => OneEach(Append(s, j))
<1> DEFINE t == Append(s, j)
           n == Len(s)
<1>1. /\ n \in Nat /\ DOMAIN s = 1 .. n /\ DOMAIN t = 1 .. n + 1 /\ t \in Seq(Job)
      /\ t[n + 1] = j /\ \A i \in 1 .. n : t[i] = s[i]
  OBVIOUS
<1> HIDE DEF t, n
<1>2. Jobs(t) = Jobs(s) \cup {j}
  <2>1. \A i \in 1 .. n + 1 : i \in 1 .. n \/ i = n + 1
    BY <1>1
  <2>2. n + 1 \in 1 .. n + 1 /\ \A i \in 1 .. n : i \in 1 .. n + 1
    BY <1>1
  <2>3. QED
    BY <1>1, <2>1, <2>2 DEF Jobs
<1>3. ClientIds(t) = ClientIds(s) \cup (IF j.client THEN {j.id} ELSE {})
  BY <1>2 DEF ClientIds
<1>4. ASSUME OneEach(s), j.client => j.id \notin ClientIds(s),
             NEW i \in DOMAIN t, NEW k \in DOMAIN t,
             t[i].client, t[k].client, t[i].id = t[k].id
      PROVE  i = k
  <2>1. \A m \in 1 .. n : s[m].client => s[m].id \in ClientIds(s)
    BY <1>1 DEF ClientIds, Jobs
  <2>2. CASE i \in 1 .. n /\ k \in 1 .. n
    BY <1>1, <1>4, <2>2 DEF OneEach
  <2>3. CASE i \in 1 .. n /\ k = n + 1
    BY <1>1, <1>4, <2>1, <2>3
  <2>4. CASE i = n + 1 /\ k \in 1 .. n
    BY <1>1, <1>4, <2>1, <2>4
  <2>5. QED
    BY <1>1, <2>2, <2>3, <2>4
<1>5. OneEach(s) /\ (j.client => j.id \notin ClientIds(s)) => OneEach(t)
  BY <1>4 DEF OneEach
<1>6. QED
  BY <1>1, <1>2, <1>3, <1>5 DEF t

\* and a take from it.
LEMMA JobsTail ==
  ASSUME NEW s \in Seq(Job), s # << >>
  PROVE  /\ Tail(s) \in Seq(Job) /\ Head(s) \in Job
         /\ Jobs(s) = {Head(s)} \cup Jobs(Tail(s))
         /\ OneEach(s) =>
              /\ OneEach(Tail(s))
              /\ ClientIds(Tail(s))
                   = ClientIds(s) \ (IF Head(s).client THEN {Head(s).id} ELSE {})
<1> DEFINE t == Tail(s)
           h == Head(s)
           n == Len(s)
<1>1. /\ n \in Nat /\ n >= 1 /\ DOMAIN s = 1 .. n /\ DOMAIN t = 1 .. n - 1
      /\ t \in Seq(Job) /\ h \in Job
      /\ h = s[1] /\ \A i \in 1 .. n - 1 : t[i] = s[i + 1]
  OBVIOUS
<1> HIDE DEF t, h, n
<1>2. Jobs(s) = {h} \cup Jobs(t)
  <2>1. ASSUME NEW i \in 1 .. n PROVE s[i] \in {h} \cup Jobs(t)
    <3>1. CASE i = 1
      BY <1>1, <3>1
    <3>2. CASE i # 1
      <4>1. i - 1 \in 1 .. n - 1 /\ (i - 1) + 1 = i
        BY <1>1, <3>2
      <4>2. t[i - 1] = s[i]
        BY <1>1, <4>1
      <4>3. QED
        BY <1>1, <4>1, <4>2 DEF Jobs
    <3>3. QED
      BY <3>1, <3>2
  <2>2. ASSUME NEW i \in 1 .. n - 1 PROVE t[i] \in Jobs(s)
    <3>1. i + 1 \in 1 .. n /\ t[i] = s[i + 1]
      BY <1>1
    <3>2. QED
      BY <1>1, <3>1 DEF Jobs
  <2>3. h \in Jobs(s)
    <3>1. 1 \in 1 .. n
      BY <1>1
    <3>2. QED
      BY <1>1, <3>1 DEF Jobs
  <2>4. Jobs(s) \subseteq {h} \cup Jobs(t)
    BY <1>1, <2>1 DEF Jobs
  <2>5. Jobs(t) \subseteq Jobs(s)
    BY <1>1, <2>2 DEF Jobs
  <2>6. QED
    BY <2>3, <2>4, <2>5
<1>3. ASSUME OneEach(s)
      PROVE  /\ OneEach(t)
             /\ ClientIds(t) = ClientIds(s) \ (IF h.client THEN {h.id} ELSE {})
  <2>1. OneEach(t)
    <3> SUFFICES ASSUME NEW i \in 1 .. n - 1, NEW k \in 1 .. n - 1,
                        t[i].client, t[k].client, t[i].id = t[k].id
                 PROVE  i = k
      BY <1>1 DEF OneEach
    <3>1. /\ i + 1 \in 1 .. n /\ t[i] = s[i + 1]
          /\ k + 1 \in 1 .. n /\ t[k] = s[k + 1]
      BY <1>1
    <3>2. i + 1 = k + 1
      BY <1>1, <1>3, <3>1 DEF OneEach
    <3>3. QED
      BY <3>2
  <2>2. h.client => h.id \notin ClientIds(t)
    <3> SUFFICES ASSUME h.client, NEW i \in 1 .. n - 1, t[i].client, t[i].id = h.id
                 PROVE  FALSE
      BY <1>1 DEF ClientIds, Jobs
    <3>1. i + 1 \in 1 .. n /\ t[i] = s[i + 1] /\ 1 \in 1 .. n /\ i + 1 # 1
      BY <1>1
    <3>2. i + 1 = 1
      BY <1>1, <1>3, <3>1 DEF OneEach
    <3>3. QED
      BY <3>1, <3>2
  <2>3. ClientIds(s) = ClientIds(t) \cup (IF h.client THEN {h.id} ELSE {})
    BY <1>2 DEF ClientIds
  <2>4. QED
    BY <2>1, <2>2, <2>3
<1>4. QED
  BY <1>1, <1>2, <1>3 DEF t, h

\* The empty list.
LEMMA EmptyJobs ==
  << >> \in Seq(Job) /\ Jobs(<< >>) = {} /\ ClientIds(<< >>) = {} /\ OneEach(<< >>)
BY DEF Jobs, ClientIds, OneEach

-----------------------------------------------------------------------------
\* Jobs.

\* A new RequestJob.
LEMMA RequestJobProperties ==
  ASSUME NEW r \in Requests, NEW client \in BOOLEAN, plen \in [Requests -> PromptLens]
  PROVE  LET j == RequestJob(r, client) IN
         /\ j \in Job /\ j.id = r /\ j.client = client /\ j.block = NoBlock
         /\ ~j.finished /\ j.out = 0 /\ j.total = 0 /\ Counted(j)
<1> DEFINE j == RequestJob(r, client)
<1>1. plen[r] \in Nat
  BY SchedulerAssumption
<1>2. /\ j = [id |-> r, client |-> client, block |-> NoBlock, pos |-> 0,
              input |-> plen[r], out |-> 0, total |-> 0, finished |-> FALSE,
              reason |-> "", preempted |-> 0]
  BY DEF RequestJob
<1> HIDE DEF j
<1>3. j \in Job
  BY <1>1, <1>2 DEF Job, Reasons
<1>4. /\ j.id = r /\ j.client = client /\ j.block = NoBlock /\ ~j.finished
      /\ j.out = 0 /\ j.total = 0 /\ j.input = plen[r] /\ j.preempted = 0
  BY <1>2
<1>5. MaxTokens \in Nat \ {0} /\ MaxPreempt \in Nat
  BY SchedulerAssumption
<1>6. Counted(j)
  BY <1>1, <1>4, <1>5 DEF Counted
<1>7. QED
  BY <1>3, <1>4, <1>6 DEF j

\* A preempted job: its output becomes input, and it starts over without a block.
LEMMA PreemptedProperties ==
  ASSUME NEW j \in Job
  PROVE  LET k == Preempted(j) IN
         /\ k \in Job /\ k.block = NoBlock /\ k.pos = 0
         /\ k.id = j.id /\ k.client = j.client /\ k.input = j.input + j.out
         /\ k.out = 0 /\ k.total = j.total /\ k.finished = j.finished
         /\ k.reason = j.reason /\ k.preempted = j.preempted + 1
<1> DEFINE a == j.input + j.out
           p == j.preempted + 1
<1>1. a \in Nat /\ p \in Nat
  BY DEF Job
<1>2. Preempted(j) = [j EXCEPT !.input = a, !.out = 0, !.block = NoBlock, !.pos = 0,
                               !.preempted = p]
  BY DEF Preempted
<1> HIDE DEF a, p
<1>3. LET k == [j EXCEPT !.input = a, !.out = 0, !.block = NoBlock, !.pos = 0,
                         !.preempted = p] IN
      /\ k \in Job /\ k.block = NoBlock /\ k.pos = 0
      /\ k.id = j.id /\ k.client = j.client /\ k.input = a
      /\ k.out = 0 /\ k.total = j.total /\ k.finished = j.finished
      /\ k.reason = j.reason /\ k.preempted = p
  BY <1>1 DEF Job
<1>4. QED
  BY <1>2, <1>3 DEF a, p

\* A job that is marked finished is the same otherwise,
LEMMA FinishedProperties ==
  ASSUME NEW j \in Job, NEW why \in Reasons
  PROVE  LET k == [j EXCEPT !.finished = TRUE, !.reason = why] IN
         /\ k \in Job /\ k.finished = TRUE /\ k.reason = why
         /\ k.block = j.block /\ k.pos = j.pos
         /\ k.id = j.id /\ k.client = j.client /\ k.input = j.input
         /\ k.out = j.out /\ k.total = j.total /\ k.preempted = j.preempted
BY DEF Job

\* and keeps its counts and its position.
LEMMA FinishedJob ==
  ASSUME NEW j \in Job, NEW why \in Reasons, Counted(j), Positioned(j)
  PROVE  LET k == [j EXCEPT !.finished = TRUE, !.reason = why] IN
         /\ k \in Job /\ k.finished /\ k.reason = why /\ k.id = j.id
         /\ k.client = j.client /\ k.block = j.block /\ k.total = j.total
         /\ Counted(k) /\ Positioned(k)
<1> DEFINE k == [j EXCEPT !.finished = TRUE, !.reason = why]
<1>1. /\ k \in Job /\ k.finished = TRUE /\ k.reason = why
      /\ k.block = j.block /\ k.pos = j.pos
      /\ k.id = j.id /\ k.client = j.client /\ k.input = j.input
      /\ k.out = j.out /\ k.total = j.total /\ k.preempted = j.preempted
  BY FinishedProperties
<1> HIDE DEF k
<1>2. Counted(k) /\ Positioned(k)
  BY <1>1 DEF Counted, Positioned
<1>3. QED
  BY <1>1, <1>2 DEF k

\* A job after _mark_cancelled_jobs_finished.
LEMMA MarkedProperties ==
  ASSUME NEW j \in Job
  PROVE  LET k == Marked(j) IN
         /\ k \in Job /\ k.id = j.id /\ k.client = j.client /\ k.block = j.block
         /\ k.pos = j.pos /\ k.input = j.input /\ k.out = j.out
         /\ k.total = j.total /\ k.preempted = j.preempted
         /\ \/ k = j
            \/ ~j.finished /\ IsCancelled(j) /\ k.finished /\ k.reason = "cancelled"
<1>1. CASE ~j.finished /\ IsCancelled(j)
  <2>1. Marked(j) = [j EXCEPT !.finished = TRUE, !.reason = "cancelled"]
    BY <1>1 DEF Marked
  <2>2. "cancelled" \in Reasons
    BY DEF Reasons
  <2> DEFINE k == [j EXCEPT !.finished = TRUE, !.reason = "cancelled"]
  <2>3. /\ k \in Job /\ k.finished = TRUE /\ k.reason = "cancelled"
        /\ k.block = j.block /\ k.pos = j.pos
        /\ k.id = j.id /\ k.client = j.client /\ k.input = j.input
        /\ k.out = j.out /\ k.total = j.total /\ k.preempted = j.preempted
    BY <2>2, FinishedProperties
  <2> HIDE DEF k
  <2>4. QED
    BY <1>1, <2>1, <2>3 DEF k
<1>2. CASE ~ (~j.finished /\ IsCancelled(j))
  BY <1>2 DEF Marked
<1>3. QED
  BY <1>1, <1>2

\* A forward pass over a job that has n tokens of its input left to feed, or
\* feeds back its last token.
LEMMA AppliedProperties ==
  ASSUME NEW j \in Job, NEW n \in Nat \ {0}, NEW eos \in BOOLEAN,
         Counted(j), Positioned(j), ~j.finished,
         IF IsPrefilling(j) THEN n <= j.input - j.pos ELSE n = 1 /\ j.out > 0,
         plen[j.id] \in Nat
  PROVE  LET k     == Applied(j, n, eos)
             emits == ~IsPrefilling([j EXCEPT !.pos = @ + n])
         IN
         /\ k \in Job /\ k.id = j.id /\ k.client = j.client /\ k.block = j.block
         /\ Counted(k) /\ Positioned(k)
         /\ k.total = IF emits THEN j.total + 1 ELSE j.total
         /\ ~emits => ~k.finished
         /\ k.finished => k.reason # "error"
<1> DEFINE moved == [j EXCEPT !.pos = @ + n]
           k     == Applied(j, n, eos)
<1>1. /\ moved \in Job /\ moved.pos = j.pos + n /\ moved.id = j.id
      /\ moved.client = j.client /\ moved.block = j.block /\ moved.input = j.input
      /\ moved.out = j.out /\ moved.total = j.total /\ moved.finished = j.finished
      /\ moved.reason = j.reason /\ moved.preempted = j.preempted
  BY DEF Job
<1>2. /\ j.pos \in Nat /\ j.input \in Nat /\ j.out \in Nat /\ j.total \in Nat
      /\ j.preempted \in Nat /\ MaxTokens \in Nat /\ n \in Nat /\ n > 0
  BY SchedulerAssumption DEF Job
<1>3. j.out <= j.total /\ j.total < MaxTokens /\ j.preempted <= MaxPreempt
      /\ j.input = plen[j.id] + j.total - j.out
  BY DEF Counted
<1>4. j.out > 0 => j.pos = j.input + j.out - 1
  BY DEF Positioned
<1>5. j.out = 0 => j.pos <= j.input /\ (j.pos < j.input \/ j.input = 0)
  BY DEF Positioned
<1>6. /\ j.pos < j.input => n <= j.input - j.pos
      /\ ~(j.pos < j.input) => n = 1 /\ j.out > 0
  BY DEF IsPrefilling
<1> HIDE DEF moved
<1>7. CASE IsPrefilling(moved)
  <2>1. k = moved
    BY <1>7 DEF Applied, moved
  <2>2. j.pos + n < j.input
    BY <1>1, <1>7 DEF IsPrefilling
  <2>3. j.out = 0
    BY <1>2, <1>4, <2>2
  <2>4. Counted(k)
    BY <1>1, <2>1 DEF Counted
  <2>5. Positioned(k)
    BY <1>1, <1>2, <2>1, <2>2, <2>3 DEF Positioned
  <2> HIDE DEF k
  <2>6. QED
    BY <1>1, <1>7, <2>1, <2>4, <2>5 DEF k, moved
<1>8. CASE ~IsPrefilling(moved)
  <2> DEFINE last == j.total + 1 >= MaxTokens
             why  == IF eos THEN "stop" ELSE IF last THEN "length" ELSE moved.reason
             done == eos \/ last
             x    == moved.out + 1
             y    == moved.total + 1
  <2>1. k = [moved EXCEPT !.out = x, !.total = y, !.finished = done, !.reason = why]
    BY <1>8 DEF Applied, moved
  <2>2. ~ (j.pos + n < j.input)
    BY <1>1, <1>8 DEF IsPrefilling
  <2>3. why \in Reasons /\ (done => why # "error")
    BY <1>1 DEF Job, Reasons
  <2>4. /\ done \in BOOLEAN /\ (~done => j.total + 1 < MaxTokens)
        /\ x \in Nat /\ y \in Nat /\ x = j.out + 1 /\ y = j.total + 1
    BY <1>1, <1>2
  <2> HIDE DEF why, k, done, x, y
  <2>5. /\ k \in Job /\ k.pos = moved.pos /\ k.id = moved.id
        /\ k.client = moved.client /\ k.block = moved.block /\ k.input = moved.input
        /\ k.out = x /\ k.total = y /\ k.finished = done
        /\ k.reason = why /\ k.preempted = moved.preempted
    BY <1>1, <2>1, <2>3, <2>4 DEF Job
  <2>6. /\ k.pos = j.pos + n /\ k.input = j.input /\ k.id = j.id
        /\ k.out = j.out + 1 /\ k.total = j.total + 1 /\ k.preempted = j.preempted
        /\ ~k.finished => j.total + 1 < MaxTokens
    BY <1>1, <2>4, <2>5
  <2>7. Counted(k)
    BY <1>2, <1>3, <2>6 DEF Counted
  <2>8. j.pos + n = j.input + (j.out + 1) - 1
    BY <1>2, <1>4, <1>5, <1>6, <2>2
  <2>9. Positioned(k)
    BY <1>2, <2>6, <2>8 DEF Positioned
  <2>10. QED
    BY <1>1, <1>8, <2>3, <2>5, <2>6, <2>7, <2>9 DEF k, moved
<1>9. QED
  BY <1>7, <1>8

-----------------------------------------------------------------------------
\* Steps.

\* A part of the invariant holds on when its variables do not change.
LEMMA Frame ==
  /\ FedFits /\ UNCHANGED <<stage, active, fed>> => FedFits'
  /\ BlockEach /\ UNCHANGED <<inUse, active, overtaken, taken, internal>> => BlockEach'
  /\ Counts /\ UNCHANGED <<active, taken, internal, plen>> => Counts'
  /\ Positions /\ UNCHANGED active => Positions'
  /\ OneObject /\ UNCHANGED <<taken, internal, active, pending>> => OneObject'
  /\ NewStreams /\ UNCHANGED <<fut, stream, answer, pending, taken, internal, active>>
       => NewStreams'
  /\ WaitingStreams /\ UNCHANGED <<fut, stream, pending, taken, internal>>
       => WaitingStreams'
  /\ ActiveStreams /\ UNCHANGED <<fut, stream, active>> => ActiveStreams'
  /\ CappedStreams /\ UNCHANGED <<stream, answer>> => CappedStreams'
  /\ Messages /\ UNCHANGED <<pending, ready, leased, active, taken>> => Messages'
  /\ Remembered /\ UNCHANGED <<fut, pending, active, taken, internal, overtaken>>
       => Remembered'
<1>1. FedFits /\ UNCHANGED <<stage, active, fed>> => FedFits'
  BY DEF FedFits, IsPrefilling, Unfed, Batch
<1>2. BlockEach /\ UNCHANGED <<inUse, active, overtaken, taken, internal>> => BlockEach'
  BY DEF BlockEach, Batch, Waiting, Jobs
<1>3. Counts /\ UNCHANGED <<active, taken, internal, plen>> => Counts'
  BY DEF Counts, Counted, Batch, Waiting, Jobs
<1>4. Positions /\ UNCHANGED active => Positions'
  BY DEF Positions, Positioned, Batch
<1>5. OneObject /\ UNCHANGED <<taken, internal, active, pending>> => OneObject'
  BY DEF OneObject, OneEach, ClientIds, Jobs, ActiveClients, Clients, Batch
<1>6. NewStreams /\ UNCHANGED <<fut, stream, answer, pending, taken, internal, active>>
        => NewStreams'
  BY DEF NewStreams, ClientIds, Jobs, ActiveClients, Clients, Batch
<1>7. WaitingStreams /\ UNCHANGED <<fut, stream, pending, taken, internal>>
        => WaitingStreams'
  BY DEF WaitingStreams, Served, Waiting, Jobs
<1>8. ActiveStreams /\ UNCHANGED <<fut, stream, active>> => ActiveStreams'
  BY DEF ActiveStreams, ActiveClients, Clients, Batch, Ended, Served
<1>9. CappedStreams /\ UNCHANGED <<stream, answer>> => CappedStreams'
  BY DEF CappedStreams
<1>10. Messages /\ UNCHANGED <<pending, ready, leased, active, taken>> => Messages'
  BY DEF Messages, Batch, Jobs, Unsettled, Leased
<1>11. Remembered /\ UNCHANGED <<fut, pending, active, taken, internal, overtaken>>
        => Remembered'
  BY DEF Remembered, ClientIds, Jobs, ActiveClients, Clients, Batch
<1>12. QED
  BY <1>1, <1>2, <1>3, <1>4, <1>5, <1>6, <1>7, <1>8, <1>9, <1>10, <1>11

\* The initial states.
LEMMA InitSched == SchedInit => SchedInv
<1> SUFFICES ASSUME SchedInit PROVE SchedInv
  OBVIOUS
<1>1. /\ ready = {} /\ leased = << >> /\ expired = {}
      /\ fut = [r \in Requests |-> "new"] /\ stream = [r \in Requests |-> << >>]
      /\ stage = "idle" /\ model \in Models /\ plen \in [Requests -> PromptLens]
      /\ order = << >> /\ pending = {} /\ internal = << >> /\ taken = << >>
      /\ active = << >> /\ fed = << >> /\ inUse = {} /\ batchSize = 1
      /\ answer = [r \in Requests |-> 0] /\ failures = 0 /\ late = 0 /\ overtaken = {}
  BY DEF SchedInit, QueueInit, Service!Init
<1>2. DOMAIN << >> = {}
  OBVIOUS
<1>3. MaxTokens \in Nat \ {0} /\ MaxBatch \in Nat \ {0} /\ MaxFailures \in Nat /\ MaxLate \in Nat
  BY SchedulerAssumption
<1>4. Batch = {} /\ ActiveClients = {} /\ Waiting = {} /\ Jobs(taken) = {}
      /\ ClientIds(taken) = {} /\ ClientIds(internal) = {}
      /\ OneEach(taken) /\ OneEach(internal)
  BY <1>1, <1>2, EmptyJobs DEF Batch, ActiveClients, Clients, Waiting
<1>5. SchedTypeOK
  <2>1. QueueTypeOK
    BY <1>1 DEF QueueTypeOK
  <2>2. fut \in [Requests -> {"new", "waiting"} \cup Service!Answer]
    BY <1>1
  <2>3. stream \in [Requests -> Seq({"token", "DONE"})]
    BY <1>1
  <2>4. answer \in [Requests -> 0 .. MaxTokens] /\ batchSize \in 1 .. MaxBatch
        /\ failures \in 0 .. MaxFailures /\ late \in 0 .. MaxLate
    BY <1>1, <1>3
  <2>5. DOMAIN fed = {}
    BY <1>1, <1>2
  <2>6. order \in Seq(Requests) /\ internal \in Seq(Job) /\ taken \in Seq(Job)
    BY <1>1
  <2>7. QED
    BY <1>1, <1>4, <2>1, <2>2, <2>3, <2>4, <2>5, <2>6 DEF SchedTypeOK
<1>6. Phases
  BY <1>1, <1>2, <1>4, FS_EmptySet DEF Phases
<1>7. FedFits /\ BlockEach /\ Counts /\ Positions
  BY <1>1, <1>4 DEF FedFits, BlockEach, Counts, Positions
<1>8. OneObject /\ Messages
  BY <1>1, <1>4 DEF OneObject, Messages
<1>9. NewStreams /\ WaitingStreams /\ ActiveStreams /\ Remembered
  BY <1>1, <1>4 DEF NewStreams, WaitingStreams, ActiveStreams, Remembered
<1>10. CappedStreams
  BY <1>1, <1>3, EmptyStream DEF CappedStreams
<1>11. QED
  BY <1>5, <1>6, <1>7, <1>8, <1>9, <1>10 DEF SchedInv

\* Wake, EndLease, EndInject and ExecuteRaises move the loop on.
LEMMA StageMoves ==
  ASSUME SchedInv, UNCHANGED <<queueVars, loopVars, clientVars, history>>,
         stage' \in {"idle", "cleanup", "lease", "inject", "execute", "stopped"},
         taken # << >> => stage' \in {"lease", "inject", "stopped"},
         DOMAIN fed # {} => stage' = "stopped",
         stage # "cleanup"
  PROVE  SchedInv'
<1> USE DEF SchedInv, queueVars, loopVars, clientVars, history
<1>1. SchedTypeOK'
  BY DEF SchedTypeOK, QueueTypeOK, Batch
<1>2. Phases'
  BY DEF Phases, Batch
<1>3. FedFits'
  BY DEF FedFits
<1>4. QED
  BY <1>1, <1>2, <1>3, Frame
\* The fields of the jobs the loop holds.
LEMMA WaitingJobs ==
  ASSUME SchedTypeOK
  PROVE  \A j \in Waiting : j \in Job /\ j.id \in Requests
<1>1. \A j \in Waiting : j \in Job
  BY DEF Waiting, Jobs, SchedTypeOK
<1>2. \A j \in Job : j.id \in Requests
  BY DEF Job
<1>3. QED
  BY <1>1, <1>2

\* The fields of an active job, by type.
LEMMA ActiveJobFields ==
  ASSUME SchedTypeOK, NEW r \in Batch
  PROVE  /\ r \in Requests /\ active[r] \in Job /\ active[r].id = r
         /\ active[r].block \in Blocks \cup {NoBlock} /\ active[r].reason \in Reasons
         /\ active[r].client \in BOOLEAN /\ active[r].finished \in BOOLEAN
         /\ active[r].pos \in Nat /\ active[r].input \in Nat /\ active[r].out \in Nat
         /\ active[r].total \in Nat /\ active[r].preempted \in Nat
<1>1. r \in Requests /\ active[r] \in Job /\ active[r].id = r
  BY DEF SchedTypeOK
<1>2. QED
  BY <1>1 DEF Job

\* What a longer sequence holds.
LEMMA AppendRange ==
  ASSUME NEW S, NEW s \in Seq(S), NEW x \in S
  PROVE  Append(s, x) \in Seq(S) /\ Range(Append(s, x)) = Range(s) \cup {x}
<1> DEFINE t == Append(s, x)
           n == Len(s)
<1>1. /\ n \in Nat /\ DOMAIN s = 1 .. n /\ DOMAIN t = 1 .. n + 1 /\ t \in Seq(S)
      /\ t[n + 1] = x /\ \A i \in 1 .. n : t[i] = s[i]
  OBVIOUS
<1> HIDE DEF t, n
<1>2. \A i : i \in 1 .. n + 1 <=> i \in 1 .. n \/ i = n + 1
  BY <1>1
<1>3. Range(t) = Range(s) \cup {x}
  BY <1>1, <1>2 DEF Range
<1>4. QED
  BY <1>1, <1>3 DEF t

\* The queue: no step of it but an acknowledgement settles a message.
LEMMA SweepQueue ==
  ASSUME QueueTypeOK, Sweep
  PROVE  QueueTypeOK' /\ ready \subseteq ready' /\ Unsettled' = Unsettled
<1>1. /\ leased' \in Seq(Requests) /\ Range(leased') = Range(leased) \ expired
      /\ ready' = ready \cup expired /\ expired' = {}
  BY WithoutProperties DEF Sweep, Leased
<1>2. \A x : x \in Range(leased) => x \in Requests
  BY DEF QueueTypeOK, Range
<1>3. QED
  BY <1>1, <1>2 DEF QueueTypeOK, Unsettled, Leased

\* Leasing a message keeps it unsettled.
LEMMA TakeQueue ==
  ASSUME QueueTypeOK, Take
  PROVE  /\ QueueTypeOK' /\ Unsettled' = Unsettled /\ ready' = ready \ {Head1}
         /\ Head1 \in Requests /\ Head1 \in Unsettled
<1>1. /\ ready # {} /\ ready' = ready \ {Head1} /\ leased' = Append(leased, Head1)
      /\ expired' = expired
  BY DEF Take
<1>2. Head1 \in ready /\ Head1 \in Requests
  BY <1>1, HeadReady
<1>3. leased \in Seq(Requests)
  BY DEF QueueTypeOK
<1>4. leased' \in Seq(Requests) /\ Range(leased') = Range(leased) \cup {Head1}
  BY <1>1, <1>2, <1>3, AppendRange
<1>5. QED
  BY <1>1, <1>2, <1>4 DEF QueueTypeOK, Unsettled, Leased

\* ack and nack settle what they name and nothing else.
LEMMA SettleQueue ==
  ASSUME QueueTypeOK, NEW acked, NEW nacked, Settle(acked, nacked)
  PROVE  /\ QueueTypeOK' /\ ready \subseteq ready'
         /\ Unsettled \ (acked \cup nacked) \subseteq Unsettled'
<1>1. /\ leased' \in Seq(Requests) /\ Range(leased') = Range(leased) \ (acked \cup nacked)
      /\ ready' = ready \cup (nacked \cap (Range(leased) \ acked))
      /\ expired' = expired \ (acked \cup nacked)
  BY WithoutProperties DEF Settle, Leased
<1>2. \A x : x \in Range(leased) => x \in Requests
  BY DEF QueueTypeOK, Range
<1>3. QED
  BY <1>1, <1>2 DEF QueueTypeOK, Unsettled, Leased

-----------------------------------------------------------------------------
\* The environment's steps.

\* A request is handed in.
LEMMA SubmitStep ==
  ASSUME SchedInv, NEW r \in Requests, Submit(r)
  PROVE  SchedInv'
<1> USE DEF SchedInv
<1>1. /\ fut[r] = "new" /\ fut' = [fut EXCEPT ![r] = "waiting"]
      /\ order' = Append(order, r)
      /\ UNCHANGED <<stage, model, plen, taken, active, fed, inUse, batchSize,
                     stream, answer, failures, late, overtaken>>
  BY DEF Submit, history
<1>2. \/ /\ UseQueue /\ ready' = ready \cup {r} /\ UNCHANGED <<leased, expired>>
         /\ pending' = pending \cup {r} /\ internal' = internal
      \/ /\ UNCHANGED <<ready, leased, expired, pending>>
         /\ internal' = Append(internal, RequestJob(r, TRUE))
  BY DEF Submit, Enqueue, queueVars
<1> DEFINE j == RequestJob(r, TRUE)
<1>3. /\ fut \in [Requests -> {"new", "waiting"} \cup Service!Answer]
      /\ internal \in Seq(Job) /\ plen \in [Requests -> PromptLens]
      /\ QueueTypeOK /\ pending \subseteq Requests
  BY DEF SchedTypeOK
<1>4. /\ j \in Job /\ j.id = r /\ j.client = TRUE /\ j.block = NoBlock
      /\ ~j.finished /\ j.out = 0 /\ j.total = 0 /\ Counted(j)
  BY <1>3, RequestJobProperties
<1> HIDE DEF j
<1>5. r \notin pending \cup ClientIds(taken) \cup ClientIds(internal) \cup ActiveClients
  BY <1>1 DEF NewStreams
<1>6. \/ /\ internal' = internal /\ pending' = pending \cup {r}
         /\ ready' = ready \cup {r}
      \/ /\ internal' \in Seq(Job) /\ pending' = pending /\ ready' = ready
         /\ Jobs(internal') = Jobs(internal) \cup {j}
         /\ ClientIds(internal') = ClientIds(internal) \cup {r}
         /\ OneEach(internal')
  <2>1. CASE internal' = Append(internal, j) /\ UNCHANGED <<ready, pending>>
    <3>1. OneEach(internal) /\ j.id \notin ClientIds(internal)
      BY <1>4, <1>5 DEF OneObject
    <3>2. QED
      BY <1>3, <1>4, <2>1, <3>1, JobsAppend
  <2>2. QED
    BY <1>2, <2>1 DEF j
<1>7. leased' = leased /\ expired' = expired
  BY <1>2
<1>8. fut'[r] = "waiting" /\ \A q \in Requests : q # r => fut'[q] = fut[q]
  BY <1>1, <1>3
<1>9. SchedTypeOK'
  <2>1. fut' \in [Requests -> {"new", "waiting"} \cup Service!Answer]
    BY <1>1, <1>3
  <2>2. order' \in Seq(Requests)
    BY <1>1 DEF SchedTypeOK
  <2>3. QueueTypeOK' /\ pending' \subseteq Requests /\ internal' \in Seq(Job)
    BY <1>3, <1>6, <1>7 DEF QueueTypeOK
  <2>4. QED
    BY <1>1, <2>1, <2>2, <2>3 DEF SchedTypeOK, Batch
<1>10. Phases'
  BY <1>1 DEF Phases, Batch
<1>11. FedFits' /\ Positions' /\ CappedStreams'
  BY <1>1, Frame
<1>12. \A i \in Jobs(internal') : i \in Jobs(internal) \/ i = j
  BY <1>6
<1>13. Jobs(taken') = Jobs(taken) /\ ClientIds(taken') = ClientIds(taken)
  BY <1>1
<1>14. BlockEach'
  <2>1. \A i \in Waiting' : i \in Waiting \/ i = j
    BY <1>12, <1>13 DEF Waiting
  <2>2. \A i \in Waiting' : i.block = NoBlock
    BY <1>4, <2>1 DEF BlockEach
  <2> HIDE DEF SchedInv
  <2>3. BlockEach
    BY DEF SchedInv
  <2>4. QED
    BY <1>1, <2>2, <2>3 DEF BlockEach, Batch
<1>15. Counts'
  <2>1. \A i : Counted(i)' <=> Counted(i)
    BY <1>1 DEF Counted
  <2>2. \A i \in Waiting' : i \in Waiting \/ i = j
    BY <1>12, <1>13 DEF Waiting
  <2>3. QED
    BY <1>1, <1>4, <2>1, <2>2 DEF Counts, Batch
<1>16. ActiveClients' = ActiveClients
  BY <1>1 DEF ActiveClients, Clients, Batch
<1>17. \A i \in Waiting : i.client => i.id \in ClientIds(taken) \cup ClientIds(internal)
  BY DEF Waiting, ClientIds
<1>18. OneObject'
  <2>1. OneEach(taken)' /\ OneEach(internal)'
    BY <1>1, <1>6 DEF OneObject, OneEach
  <2>2. QED
    BY <1>5, <1>6, <1>13, <1>16, <2>1 DEF OneObject
<1>19. NewStreams'
  <2> SUFFICES ASSUME NEW q \in Requests, fut'[q] = "new"
               PROVE  /\ stream'[q] = << >> /\ answer'[q] = 0
                      /\ q \notin pending' \cup ClientIds(taken') \cup ClientIds(internal')
                                    \cup ActiveClients'
    BY DEF NewStreams
  <2>1. q # r /\ fut[q] = "new"
    BY <1>8
  <2>2. QED
    BY <1>1, <1>6, <1>13, <1>16, <2>1 DEF NewStreams
<1>20. Served(r, 0)'
  <2>1. stream[r] = << >>
    BY <1>1 DEF NewStreams
  <2>2. QED
    BY <1>1, <1>8, <2>1, EmptyStream DEF Served
<1>21. \A q \in Requests : \A n : q # r /\ Served(q, n) => Served(q, n)'
  BY <1>1, <1>8 DEF Served
<1>22. WaitingStreams'
  <2>1. \A q \in pending' : Served(q, 0)'
    BY <1>3, <1>5, <1>6, <1>20, <1>21 DEF WaitingStreams
  <2>2. ASSUME NEW i \in Waiting', i.client PROVE Served(i.id, i.total)'
    <3>1. CASE i = j
      BY <1>4, <1>20, <3>1
    <3>2. CASE i \in Waiting
      <4>1. i.id # r /\ Served(i.id, i.total)
        BY <1>5, <1>17, <2>2, <3>2 DEF WaitingStreams
      <4>2. i \in Job
        BY <3>2 DEF Waiting, Jobs, SchedTypeOK
      <4>3. i.id \in Requests
        BY <4>2 DEF Job
      <4>4. QED
        BY <1>21, <4>1, <4>3
    <3>3. QED
      BY <1>12, <1>13, <2>2, <3>1, <3>2 DEF Waiting
  <2>3. QED
    BY <2>1, <2>2 DEF WaitingStreams
<1>23. ActiveStreams'
  <2>1. ASSUME NEW q \in ActiveClients
        PROVE  IF active[q].finished THEN Ended(q)' ELSE Served(q, active[q].total)'
    <3>1. q # r /\ q \in Requests
      BY <1>5 DEF ActiveClients, Clients, SchedTypeOK
    <3>2. CASE active[q].finished
      BY <1>1, <1>8, <3>1, <3>2 DEF ActiveStreams, Ended
    <3>3. CASE ~active[q].finished
      BY <1>1, <1>8, <3>1, <3>3 DEF ActiveStreams, Served
    <3>4. QED
      BY <3>2, <3>3
  <2>2. QED
    BY <1>1, <1>16, <2>1 DEF ActiveStreams
<1>24. Messages'
  BY <1>1, <1>6, <1>7 DEF Messages, Unsettled, Leased, Batch, Jobs
<1>25. Remembered'
  <2> SUFFICES ASSUME NEW q \in Requests, fut'[q] = "waiting"
               PROVE  q \in pending' \cup ActiveClients' \cup ClientIds(taken')
                              \cup ClientIds(internal')
                              \cup {i.id : i \in {k \in overtaken' : k.client}}
    BY DEF Remembered
  <2>1. CASE q = r
    BY <1>6, <2>1
  <2>2. CASE q # r
    BY <1>1, <1>6, <1>8, <1>13, <1>16, <2>2 DEF Remembered
  <2>3. QED
    BY <2>1, <2>2
<1>26. QED
  BY <1>9, <1>10, <1>11, <1>14, <1>15, <1>18, <1>19, <1>22, <1>23, <1>24, <1>25

\* A client cancels its future.
LEMMA CancelStep ==
  ASSUME SchedInv, NEW r \in Requests, Cancel(r)
  PROVE  SchedInv'
<1> USE DEF SchedInv
<1>1. /\ fut[r] = "waiting" /\ fut' = [fut EXCEPT ![r] = "cancelled"]
      /\ UNCHANGED <<ready, leased, expired, stage, model, plen, order, pending, internal,
                     taken, active, fed, inUse, batchSize, stream, answer,
                     failures, late, overtaken>>
  BY DEF Cancel, queueVars, loopVars, history
<1>2. fut \in [Requests -> {"new", "waiting"} \cup Service!Answer]
  BY DEF SchedTypeOK
<1>3. fut'[r] = "cancelled" /\ \A q \in Requests : q # r => fut'[q] = fut[q]
  BY <1>1, <1>2
<1>4. SchedTypeOK'
  <2>1. fut' \in [Requests -> {"new", "waiting"} \cup Service!Answer]
    BY <1>1, <1>2 DEF Service!Answer
  <2>2. QED
    BY <1>1, <2>1 DEF SchedTypeOK, QueueTypeOK, Batch
<1>5. Phases'
  BY <1>1 DEF Phases, Batch
<1>6. /\ FedFits' /\ BlockEach' /\ Counts' /\ Positions' /\ OneObject'
      /\ CappedStreams' /\ Messages'
  BY <1>1, Frame
<1>7. /\ ClientIds(taken') = ClientIds(taken) /\ ClientIds(internal') = ClientIds(internal)
      /\ ActiveClients' = ActiveClients /\ Waiting' = Waiting
  BY <1>1 DEF ActiveClients, Clients, Batch, Waiting, Jobs
<1>8. \A q \in Requests : \A n : Served(q, n) => Served(q, n)'
  BY <1>1, <1>3 DEF Served
<1>9. NewStreams'
  BY <1>1, <1>3, <1>7 DEF NewStreams
<1>10. WaitingStreams'
  <2>1. \A q \in pending : q \in Requests
    BY DEF SchedTypeOK
  <2>2. \A i \in Waiting : i.id \in Requests
    BY WaitingJobs
  <2>3. QED
    BY <1>1, <1>7, <1>8, <2>1, <2>2 DEF WaitingStreams
<1>11. ActiveStreams'
  <2> SUFFICES ASSUME NEW q \in ActiveClients
               PROVE  (IF active[q].finished THEN Ended(q) ELSE Served(q, active[q].total))'
    BY <1>7 DEF ActiveStreams
  <2>1. q \in Requests
    BY DEF ActiveClients, Clients, SchedTypeOK
  <2>2. CASE active[q].finished
    BY <1>1, <1>3, <2>1, <2>2 DEF ActiveStreams, Ended
  <2>3. CASE ~active[q].finished
    BY <1>1, <1>3, <2>1, <2>3 DEF ActiveStreams, Served
  <2>4. QED
    BY <2>2, <2>3
<1>12. Remembered'
  BY <1>1, <1>3, <1>7 DEF Remembered
<1>13. QED
  BY <1>4, <1>5, <1>6, <1>9, <1>10, <1>11, <1>12

\* A lease runs out, and its message is ready again.
LEMMA LeaseExpiresStep ==
  ASSUME SchedInv, NEW m \in Requests, LeaseExpires(m)
  PROVE  SchedInv'
<1> USE DEF SchedInv
<1>1. /\ m \in Leased /\ expired' = expired \cup {m} /\ UNCHANGED <<ready, leased>>
      /\ UNCHANGED <<stage, model, plen, order, pending, internal, taken, active, fed,
                     inUse, batchSize, fut, stream, answer, failures, overtaken>>
  BY DEF LeaseExpires, Expire, loopVars, clientVars
<1>2. late' \in 0 .. MaxLate
  <2>1. (late < MaxLate /\ late' = late + 1) \/ late' = late
    BY Zenon DEF LeaseExpires
  <2>2. late \in 0 .. MaxLate /\ MaxLate \in Nat
    BY SchedulerAssumption DEF SchedTypeOK
  <2>3. QED
    BY <2>1, <2>2
<1>3. QueueTypeOK'
  BY <1>1 DEF SchedTypeOK, QueueTypeOK, Leased
<1>4. SchedTypeOK'
  BY <1>1, <1>2, <1>3 DEF SchedTypeOK, Batch
<1>5. Phases'
  BY <1>1 DEF Phases, Batch
<1>6. QED
  BY <1>1, <1>4, <1>5, Frame

\* The loop is stopped.
LEMMA StopStep == ASSUME SchedInv, Stop PROVE SchedInv'
<1>1. stage # "cleanup" /\ stage' = "stopped"
      /\ UNCHANGED <<queueVars, loopVars, clientVars, history>>
  BY DEF Stop, Awaiting
<1>2. QED
  BY <1>1, StageMoves

-----------------------------------------------------------------------------
\* The loop's steps.

\* The loop starts another round.
LEMMA WakeStep == ASSUME SchedInv, Wake PROVE SchedInv'
<1>1. stage = "idle" /\ stage' = "cleanup"
      /\ UNCHANGED <<queueVars, loopVars, clientVars, history>>
  BY DEF Wake
<1>2. taken = << >> /\ DOMAIN fed = {}
  BY <1>1 DEF SchedInv, Phases
<1>3. QED
  BY <1>1, <1>2, StageMoves

\* The lease window closes.
LEMMA EndLeaseStep == ASSUME SchedInv, EndLease PROVE SchedInv'
<1>1. stage = "lease" /\ stage' = "inject"
      /\ UNCHANGED <<queueVars, loopVars, clientVars, history>>
  BY DEF EndLease
<1>2. DOMAIN fed = {}
  BY <1>1 DEF SchedInv, Phases
<1>3. QED
  BY <1>1, <1>2, StageMoves

\* Nothing is left to inject.
LEMMA EndInjectStep == ASSUME SchedInv, EndInject PROVE SchedInv'
<1>1. stage = "inject" /\ stage' \in {"idle", "execute"} /\ taken = << >>
      /\ UNCHANGED <<queueVars, loopVars, clientVars, history>>
  BY DEF EndInject
<1>2. DOMAIN fed = {}
  BY <1>1 DEF SchedInv, Phases
<1>3. QED
  BY <1>1, <1>2, StageMoves

\* A decode job without a token to feed makes Execute raise before anything changes.
LEMMA ExecuteRaisesStep == ASSUME SchedInv, ExecuteRaises PROVE SchedInv'
<1>1. stage = "execute" /\ stage' = "idle"
      /\ UNCHANGED <<queueVars, loopVars, clientVars, history>>
  BY DEF ExecuteRaises
<1>2. taken = << >> /\ DOMAIN fed = {}
  BY <1>1 DEF SchedInv, Phases
<1>3. QED
  BY <1>1, <1>2, StageMoves

\* Expired leases are swept before messages are taken.
LEMMA StartLeaseStep == ASSUME SchedInv, StartLease PROVE SchedInv'
<1> USE DEF SchedInv
<1>1. stage = "sweep" /\ stage' = "lease"
      /\ UNCHANGED <<model, plen, order, pending, internal, taken, active, fed,
                     inUse, batchSize, fut, stream, answer, failures, late, overtaken>>
  BY DEF StartLease, loopVars, clientVars, history
<1>2. QueueTypeOK
  BY DEF SchedTypeOK
<1>3. QueueTypeOK' /\ ready \subseteq ready' /\ Unsettled' = Unsettled
  <2>1. CASE UseQueue
    BY <1>2, <2>1, SweepQueue DEF StartLease
  <2>2. CASE ~UseQueue
    <3>1. UNCHANGED <<ready, leased, expired>>
      BY <2>2 DEF StartLease, queueVars
    <3>2. QED
      BY <1>2, <3>1 DEF QueueTypeOK, Unsettled, Leased
  <2>3. QED
    BY <2>1, <2>2
<1>4. SchedTypeOK'
  BY <1>1, <1>3 DEF SchedTypeOK, Batch
<1>5. Phases'
  BY <1>1 DEF Phases, Batch
<1>6. FedFits'
  BY <1>1 DEF FedFits
<1>7. Messages'
  BY <1>1, <1>3 DEF Messages, Batch, Jobs
<1>8. QED
  BY <1>1, <1>4, <1>5, <1>6, <1>7, Frame

\* One message leased: the submitted object if it is still pending, a new one if not.
LEMMA LeaseMessageStep == ASSUME SchedInv, LeaseMessage PROVE SchedInv'
<1> USE DEF SchedInv
<1> DEFINE m == Head1
           c == m \in pending
           j == RequestJob(m, c)
<1>1. /\ stage = "lease" /\ UseQueue /\ Take
      /\ taken' = Append(taken, j) /\ pending' = pending \ {m}
      /\ UNCHANGED <<stage, model, plen, order, internal, active, fed, inUse,
                     batchSize, fut, stream, answer, failures, late, overtaken>>
  BY DEF LeaseMessage, clientVars, history
<1>2. /\ QueueTypeOK /\ taken \in Seq(Job) /\ plen \in [Requests -> PromptLens]
      /\ pending \subseteq Requests
  BY DEF SchedTypeOK
<1>3. /\ QueueTypeOK' /\ Unsettled' = Unsettled /\ ready' = ready \ {m}
      /\ m \in Requests /\ m \in Unsettled
  BY <1>1, <1>2, TakeQueue
<1> HIDE DEF m
<1>4. /\ j \in Job /\ j.id = m /\ j.client = (m \in pending) /\ j.block = NoBlock
      /\ ~j.finished /\ j.out = 0 /\ j.total = 0 /\ Counted(j)
  <2>1. c \in BOOLEAN /\ c = (m \in pending)
    OBVIOUS
  <2> HIDE DEF c
  <2>2. /\ j \in Job /\ j.id = m /\ j.client = c /\ j.block = NoBlock
        /\ ~j.finished /\ j.out = 0 /\ j.total = 0 /\ Counted(j)
    BY <1>2, <1>3, <2>1, RequestJobProperties
  <2> HIDE DEF j
  <2>3. QED
    BY <2>1, <2>2
<1> HIDE DEF j
<1>5. OneEach(taken) /\ (j.client => j.id \notin ClientIds(taken))
  BY <1>4 DEF OneObject
<1>6. /\ taken' \in Seq(Job) /\ Jobs(taken') = Jobs(taken) \cup {j} /\ OneEach(taken')
      /\ ClientIds(taken') = ClientIds(taken) \cup (IF j.client THEN {m} ELSE {})
  BY <1>1, <1>2, <1>4, <1>5, JobsAppend
<1>7. /\ ClientIds(internal') = ClientIds(internal) /\ Jobs(internal') = Jobs(internal)
      /\ ActiveClients' = ActiveClients /\ Batch' = Batch
  BY <1>1 DEF ActiveClients, Clients, Batch
<1>8. \A i \in Waiting' : i \in Waiting \/ i = j
  BY <1>6, <1>7 DEF Waiting
<1>9. SchedTypeOK'
  BY <1>1, <1>2, <1>3, <1>6 DEF SchedTypeOK, Batch
<1>10. Phases'
  BY <1>1 DEF Phases, Batch
<1>11. FedFits' /\ Positions' /\ CappedStreams' /\ ActiveStreams'
  BY <1>1, Frame
<1>12. BlockEach'
  <2>1. \A i \in Waiting' : i.block = NoBlock
    BY <1>4, <1>8 DEF BlockEach
  <2> HIDE DEF SchedInv
  <2>2. BlockEach
    BY DEF SchedInv
  <2>3. QED
    BY <1>1, <2>1, <2>2 DEF BlockEach, Batch
<1>13. Counts'
  <2>1. \A i : Counted(i)' <=> Counted(i)
    BY <1>1 DEF Counted
  <2>2. QED
    BY <1>1, <1>4, <1>8, <2>1 DEF Counts, Batch
<1>14. OneObject'
  <2>1. OneEach(taken)' /\ OneEach(internal)'
    BY <1>1, <1>6 DEF OneObject, OneEach
  <2>2. QED
    BY <1>1, <1>4, <1>6, <1>7, <2>1 DEF OneObject
<1>15. NewStreams'
  <2>1. fut[m] = "new" => m \notin pending
    BY <1>3 DEF NewStreams
  <2>2. QED
    BY <1>1, <1>4, <1>6, <1>7, <2>1 DEF NewStreams
<1>16. WaitingStreams'
  <2>1. \A q, n : Served(q, n)' <=> Served(q, n)
    BY <1>1 DEF Served
  <2>2. j.client => Served(j.id, j.total)
    BY <1>4 DEF WaitingStreams
  <2>3. QED
    BY <1>1, <1>8, <2>1, <2>2 DEF WaitingStreams
<1>17. Messages'
  <2>1. \A i \in Jobs(taken') : i \in Jobs(taken) \/ i.id = m
    BY <1>4, <1>6
  <2>2. QED
    BY <1>1, <1>3, <1>7, <2>1 DEF Messages
<1>18. Remembered'
  BY <1>1, <1>4, <1>6, <1>7 DEF Remembered
<1>19. QED
  BY <1>9, <1>10, <1>11, <1>12, <1>13, <1>14, <1>15, <1>16, <1>17, <1>18

\* One job taken from the internal queue.
LEMMA LeaseInternalStep == ASSUME SchedInv, LeaseInternal PROVE SchedInv'
<1> USE DEF SchedInv
<1> DEFINE j == Head(internal)
<1>1. /\ stage = "lease" /\ ~UseQueue /\ internal # << >>
      /\ taken' = Append(taken, j) /\ internal' = Tail(internal)
      /\ UNCHANGED <<ready, leased, expired, stage, model, plen, order, pending, active,
                     fed, inUse, batchSize, fut, stream, answer, failures, late, overtaken>>
  BY DEF LeaseInternal, clientVars, history, queueVars
<1>2. taken \in Seq(Job) /\ internal \in Seq(Job)
  BY DEF SchedTypeOK
<1>3. OneEach(taken) /\ OneEach(internal)
  BY DEF OneObject
<1>4. /\ internal' \in Seq(Job) /\ j \in Job
      /\ Jobs(internal) = {j} \cup Jobs(internal') /\ OneEach(internal')
      /\ ClientIds(internal') = ClientIds(internal) \ (IF j.client THEN {j.id} ELSE {})
  BY <1>1, <1>2, <1>3, JobsTail
<1>5. j \in Waiting
  BY <1>4 DEF Waiting
<1> HIDE DEF j
<1>6. j.client => j.id \in ClientIds(internal)
  BY <1>4 DEF ClientIds
<1>7. j.client => j.id \notin ClientIds(taken)
  BY <1>6 DEF OneObject
<1>8. /\ taken' \in Seq(Job) /\ Jobs(taken') = Jobs(taken) \cup {j} /\ OneEach(taken')
      /\ ClientIds(taken') = ClientIds(taken) \cup (IF j.client THEN {j.id} ELSE {})
  BY <1>1, <1>2, <1>3, <1>4, <1>7, JobsAppend
<1>9. ActiveClients' = ActiveClients /\ Batch' = Batch
  BY <1>1 DEF ActiveClients, Clients, Batch
<1>10. Waiting' = Waiting
  BY <1>4, <1>8 DEF Waiting
<1>11. ClientIds(taken') \cup ClientIds(internal') = ClientIds(taken) \cup ClientIds(internal)
  BY <1>4, <1>6, <1>8
<1>12. SchedTypeOK'
  BY <1>1, <1>4, <1>8 DEF SchedTypeOK, QueueTypeOK, Batch
<1>13. Phases'
  BY <1>1 DEF Phases, Batch
<1>14. FedFits' /\ Positions' /\ CappedStreams' /\ ActiveStreams'
  BY <1>1, Frame
<1>15. BlockEach'
  <2> HIDE DEF SchedInv
  <2>1. BlockEach
    BY DEF SchedInv
  <2>2. QED
    BY <1>1, <1>10, <2>1 DEF BlockEach, Batch
<1>16. Counts'
  <2>1. \A i : Counted(i)' <=> Counted(i)
    BY <1>1 DEF Counted
  <2>2. QED
    BY <1>1, <1>10, <2>1 DEF Counts, Batch
<1>17. OneObject'
  <2>1. OneEach(taken)' /\ OneEach(internal)'
    BY <1>4, <1>8 DEF OneEach
  <2>2. QED
    BY <1>1, <1>4, <1>6, <1>8, <1>9, <2>1 DEF OneObject
<1>18. NewStreams'
  BY <1>1, <1>9, <1>11 DEF NewStreams
<1>19. WaitingStreams'
  <2>1. \A q, n : Served(q, n)' <=> Served(q, n)
    BY <1>1 DEF Served
  <2>2. QED
    BY <1>1, <1>10, <2>1 DEF WaitingStreams
<1>20. Messages'
  BY <1>1 DEF Messages
<1>21. Remembered'
  BY <1>1, <1>9, <1>11 DEF Remembered
<1>22. QED
  BY <1>12, <1>13, <1>14, <1>15, <1>16, <1>17, <1>18, <1>19, <1>20, <1>21
\* What Activate does, when the jobs S of the batch keep their places.
LEMMA ActivateProperties ==
  ASSUME SchedInv, stage = "inject", taken # << >>, NEW S \in SUBSET Batch,
         NEW batch, DOMAIN batch = S, \A s \in S : batch[s] = active[s],
         NEW b \in Blocks, NEW m \in Nat, Activate(batch, b, m), plen' = plen
  PROVE  LET j == Head(taken)
             r == j.id
             k == active'[r]
         IN
         /\ j \in Job /\ r \in Requests /\ Batch' = S \cup {r}
         /\ \A s \in S \ {r} : active'[s] = active[s]
         /\ k \in Job /\ k.id = r /\ k.client = j.client /\ k.block = b
         /\ ~k.finished /\ k.total = j.total /\ Counted(k) /\ Positioned(k)
         /\ overtaken' = overtaken \cup {active[s] : s \in S \cap {r}}
         /\ order' \in Seq(Requests)
         /\ taken' \in Seq(Job) /\ Jobs(taken) = {j} \cup Jobs(taken')
         /\ OneEach(taken')
         /\ ClientIds(taken') = ClientIds(taken) \ (IF j.client THEN {r} ELSE {})
<1> USE DEF SchedInv
<1> DEFINE j == Head(taken)
           r == j.id
           p == IF m < j.input THEN m ELSE IF j.input > 0 THEN j.input - 1 ELSE 0
           k == [j EXCEPT !.block = b, !.pos = p]
<1>1. /\ active' = [s \in S \cup {r} |-> IF s = r THEN k ELSE batch[s]]
      /\ overtaken' = IF r \in S THEN overtaken \cup {batch[r]} ELSE overtaken
      /\ order' = IF j.client THEN order ELSE Append(RemoveFirst(order, r), r)
      /\ taken' = Tail(taken)
  BY DEF Activate
<1>2. taken \in Seq(Job) /\ order \in Seq(Requests) /\ OneEach(taken)
  BY DEF SchedTypeOK, OneObject
<1>3. /\ taken' \in Seq(Job) /\ j \in Job /\ Jobs(taken) = {j} \cup Jobs(taken')
      /\ OneEach(taken')
      /\ ClientIds(taken') = ClientIds(taken) \ (IF j.client THEN {r} ELSE {})
  BY <1>1, <1>2, JobsTail
<1>4. j \in Waiting
  BY <1>3 DEF Waiting
<1>5. r \in Requests
  BY <1>4, WaitingJobs
<1> HIDE DEF j
<1>6. j.input \in Nat /\ p \in Nat /\ (p < j.input \/ (p = 0 /\ j.input = 0))
  BY <1>3 DEF Job
<1>7. ~j.finished /\ j.out = 0 /\ Counted(j)
  BY <1>4 DEF Counts
<1> HIDE DEF p
<1>8. /\ k \in Job /\ k.block = b /\ k.pos = p
      /\ k.id = j.id /\ k.client = j.client /\ k.input = j.input /\ k.out = j.out
      /\ k.total = j.total /\ k.finished = j.finished /\ k.reason = j.reason
      /\ k.preempted = j.preempted
  <2> HIDE DEF SchedInv, r
  <2>1. j \in Job /\ p \in Nat
    BY <1>3, <1>6
  <2>2. QED
    BY <2>1 DEF Job
<1> HIDE DEF k
<1>9. Counted(k)
  BY <1>7, <1>8 DEF Counted
<1>10. Positioned(k)
  BY <1>6, <1>7, <1>8 DEF Positioned
<1>11. order' \in Seq(Requests)
  <2>1. RemoveFirst(order, r) \in Seq(Requests)
    BY <1>2, RemoveFirstProperties
  <2>2. QED
    BY <1>1, <1>2, <1>5, <2>1
<1> HIDE DEF r
<1>12. Batch' = S \cup {r} /\ active'[r] = k
  BY <1>1 DEF Batch
<1>13. \A s \in S \ {r} : active'[s] = active[s]
  BY <1>1
<1>14. overtaken' = overtaken \cup {active[s] : s \in S \cap {r}}
  BY <1>1
<1>15. QED
  BY <1>3, <1>5, <1>7, <1>8, <1>9, <1>10, <1>11, <1>12, <1>13, <1>14 DEF r, j

\* A job takes its place in the batch with a free block, or with the block of
\* the jobs that are preempted for it, those outside S.
LEMMA ActivateStep ==
  ASSUME SchedInv, stage = "inject", taken # << >>, NEW S \in SUBSET Batch,
         NEW batch, DOMAIN batch = S, \A s \in S : batch[s] = active[s],
         NEW b \in Blocks, NEW m \in Nat, Activate(batch, b, m),
         UNCHANGED <<queueVars, stage, model, plen, pending, fed, batchSize,
                     clientVars, failures, late>>,
         inUse' = {active[s].block : s \in S} \cup {i.block : i \in overtaken} \cup {b},
         \A s \in S : active[s].block # b, \A i \in overtaken : i.block # b,
         internal' \in Seq(Job), OneEach(internal'),
         Jobs(internal') = Jobs(internal) \cup {Preempted(active[s]) : s \in Batch \ S},
         ClientIds(internal') = ClientIds(internal) \cup Clients(Batch \ S),
         \A s \in Batch \ S : active[s].preempted < MaxPreempt,
         UseQueue => S = Batch
  PROVE  SchedInv'
<1> USE DEF SchedInv
<1> DEFINE j == Head(taken)
           r == j.id
           k == active'[r]
<1>1. /\ j \in Job /\ r \in Requests /\ Batch' = S \cup {r}
      /\ \A s \in S \ {r} : active'[s] = active[s]
      /\ k \in Job /\ k.id = r /\ k.client = j.client /\ k.block = b
      /\ ~k.finished /\ k.total = j.total /\ Counted(k) /\ Positioned(k)
      /\ overtaken' = overtaken \cup {active[s] : s \in S \cap {r}}
      /\ order' \in Seq(Requests)
      /\ taken' \in Seq(Job) /\ Jobs(taken) = {j} \cup Jobs(taken')
      /\ OneEach(taken')
      /\ ClientIds(taken') = ClientIds(taken) \ (IF j.client THEN {r} ELSE {})
  BY ActivateProperties
<1>2. UNCHANGED <<ready, leased, expired, stage, model, plen, pending, fed, batchSize,
                  fut, stream, answer, failures, late>>
  BY DEF queueVars, clientVars
<1> HIDE DEF k, r, j
<1>3. \A s \in Batch : s \in Requests /\ active[s] \in Job /\ active[s].id = s
  BY DEF SchedTypeOK
<1>4. DOMAIN fed = {} /\ \A s \in Batch : ~active[s].finished
  BY DEF Phases
<1>5. \A s \in Batch \ S :
        LET i == Preempted(active[s]) IN
        /\ i.block = NoBlock /\ i.id = s /\ i.client = active[s].client
        /\ ~i.finished /\ i.out = 0 /\ i.total = active[s].total /\ Counted(i)
  <2> SUFFICES ASSUME NEW s \in Batch \ S
               PROVE  LET i == Preempted(active[s]) IN
                      /\ i.block = NoBlock /\ i.id = s /\ i.client = active[s].client
                      /\ ~i.finished /\ i.out = 0 /\ i.total = active[s].total
                      /\ Counted(i)
    OBVIOUS
  <2> DEFINE a == active[s]
             i == Preempted(a)
  <2>1. /\ a \in Job /\ a.id = s /\ ~a.finished /\ Counted(a) /\ a.preempted < MaxPreempt
    BY <1>3, <1>4 DEF Counts
  <2> HIDE DEF a
  <2>2. /\ i.block = NoBlock /\ i.id = a.id /\ i.client = a.client
        /\ i.input = a.input + a.out /\ i.out = 0 /\ i.total = a.total
        /\ i.finished = a.finished /\ i.preempted = a.preempted + 1
    BY <2>1, PreemptedProperties
  <2> HIDE DEF i
  <2>3. /\ a.out \in Nat /\ a.total \in Nat /\ a.input \in Nat /\ a.preempted \in Nat
        /\ MaxTokens \in Nat /\ MaxPreempt \in Nat
    BY <2>1, SchedulerAssumption DEF Job
  <2>4. plen[s] \in Nat
    <3>1. s \in Requests /\ plen \in [Requests -> PromptLens] /\ PromptLens \in SUBSET Nat
      BY <1>3, SchedulerAssumption DEF SchedTypeOK
    <3>2. QED
      BY ONLY <3>1
  <2>5. Counted(i)
    <3>1. Counted(a) /\ a.id = s
      BY <2>1
    <3>2. i.id = s
      BY <2>1, <2>2
    <3>3. QED
      BY ONLY <2>1, <2>2, <2>3, <2>4, <3>1, <3>2 DEF Counted
  <2>6. QED
    BY <2>1, <2>2, <2>5 DEF i, a
<1>6. \A i \in Waiting' : i \in Waiting \/ \E s \in Batch \ S : i = Preempted(active[s])
  BY <1>1 DEF Waiting
<1>7. j \in Waiting /\ (j.client => r \in ClientIds(taken))
  BY <1>1 DEF Waiting, ClientIds, r
<1>8. ActiveClients' = (Clients(S) \ {r}) \cup (IF j.client THEN {r} ELSE {})
  BY <1>1 DEF ActiveClients, Clients, k
<1>9. ActiveClients = Clients(S) \cup Clients(Batch \ S)
  BY DEF ActiveClients, Clients
<1>10. Clients(S) \cap Clients(Batch \ S) = {}
  BY DEF Clients
<1>11. SchedTypeOK'
  <2>1. inUse' \subseteq Blocks
    <3>1. \A s \in S : active[s].block \in inUse
      BY DEF BlockEach
    <3>2. \A i \in overtaken : i.block \in inUse
      BY DEF BlockEach
    <3>3. inUse \subseteq Blocks
      BY DEF SchedTypeOK
    <3>4. QED
      BY <3>1, <3>2, <3>3
  <2>2. overtaken' \subseteq Job
    BY <1>1, <1>3 DEF SchedTypeOK
  <2>3. Batch' \subseteq Requests /\ \A s \in Batch' : active'[s] \in Job /\ active'[s].id = s
    BY <1>1, <1>3 DEF k
  <2>4. QED
    BY <1>1, <1>2, <1>4, <2>1, <2>2, <2>3 DEF SchedTypeOK, QueueTypeOK
<1>12. Phases'
  <2>1. IsFiniteSet(Batch')
    <3>1. IsFiniteSet(S)
      BY FS_Subset DEF Phases
    <3>2. QED
      BY <1>1, <3>1, FS_AddElement
  <2>2. \A s \in Batch' : ~active'[s].finished
    BY <1>1, <1>4 DEF k
  <2>3. QED
    BY <1>2, <1>4, <2>1, <2>2 DEF Phases
<1>13. FedFits'
  BY <1>2 DEF FedFits
<1>14. BlockEach'
  <2>1. /\ \A s, t \in Batch : active[s].block = active[t].block => s = t
        /\ \A s \in Batch, i \in overtaken : active[s].block # i.block
        /\ \A i, h \in overtaken : i.block = h.block => i = h
        /\ \A i \in Waiting : i.block = NoBlock
    BY DEF BlockEach
  <2>2. active'[r].block = b
    BY <1>1 DEF k
  <2> HIDE DEF SchedInv
  <2>3. \A i : i \in overtaken' <=> i \in overtaken \/ (r \in S /\ i = active[r])
    BY <1>1
  <2>4. \A s : s \in Batch' <=> s \in S \ {r} \/ s = r
    BY <1>1
  <2>5. inUse' = {active'[s].block : s \in Batch'} \cup {i.block : i \in overtaken'}
    <3>1. ASSUME NEW x \in inUse'
          PROVE  x \in {active'[s].block : s \in Batch'} \cup {i.block : i \in overtaken'}
      <4>1. CASE x = b
        BY <2>2, <2>4, <4>1
      <4>2. CASE \E i \in overtaken : x = i.block
        BY <2>3, <4>2
      <4>3. CASE \E s \in S \ {r} : x = active[s].block
        BY <1>1, <2>4, <4>3
      <4>4. CASE r \in S /\ x = active[r].block
        BY <2>3, <4>4
      <4>5. QED
        BY <3>1, <4>1, <4>2, <4>3, <4>4
    <3>2. ASSUME NEW s \in Batch' PROVE active'[s].block \in inUse'
      BY <1>1, <2>2, <2>4
    <3>3. ASSUME NEW i \in overtaken' PROVE i.block \in inUse'
      BY <2>3
    <3>4. inUse' \subseteq {active'[s].block : s \in Batch'} \cup {i.block : i \in overtaken'}
      BY <3>1, Zenon
    <3>5. {active'[s].block : s \in Batch'} \subseteq inUse'
      BY <3>2
    <3>6. {i.block : i \in overtaken'} \subseteq inUse'
      BY <3>3
    <3>7. QED
      BY <3>4, <3>5, <3>6, Zenon
  <2>6. ASSUME NEW s \in Batch', NEW t \in Batch', active'[s].block = active'[t].block
        PROVE  s = t
    BY <1>1, <2>1, <2>2, <2>4, <2>6
  <2>7. ASSUME NEW s \in Batch', NEW i \in overtaken' PROVE active'[s].block # i.block
    <3>1. CASE s = r
      BY <2>2, <2>3, <3>1
    <3>2. CASE s \in S \ {r}
      BY <1>1, <2>1, <2>3, <3>2
    <3>3. QED
      BY <2>4, <3>1, <3>2
  <2>8. ASSUME NEW i \in overtaken', NEW h \in overtaken', i.block = h.block PROVE i = h
    BY <2>1, <2>3, <2>8
  <2>9. ASSUME NEW i \in Waiting' PROVE i.block = NoBlock
    BY <1>5, <1>6, <2>1
  <2>10. QED
    BY <2>5, <2>6, <2>7, <2>8, <2>9 DEF BlockEach
<1>15. Counts'
  <2>1. \A i : Counted(i)' <=> Counted(i)
    BY <1>2 DEF Counted
  <2>2. \A i \in Waiting' : Counted(i) /\ ~i.finished /\ i.out = 0
    BY <1>5, <1>6 DEF Counts
  <2>3. \A s \in Batch' : Counted(active'[s])
    BY <1>1 DEF Counts, k
  <2>4. QED
    BY <2>2, <2>3, <1>2 DEF Counts, Counted
<1>16. Positions'
  BY <1>1 DEF Positions, Positioned, k
<1>17. OneObject'
  <2>1. OneEach(taken)' /\ OneEach(internal)'
    BY <1>1 DEF OneEach
  <2> DEFINE CT == ClientIds(taken)
             CI == ClientIds(internal)
             A  == Clients(S)
             V  == Clients(Batch \ S)
             own == IF j.client THEN {r} ELSE {}
  <2>2. /\ CT \cap CI = {} /\ CT \cap ActiveClients = {} /\ CI \cap ActiveClients = {}
        /\ pending \cap (CT \cup CI \cup ActiveClients) = {}
    BY DEF OneObject
  <2>3. /\ ClientIds(taken)' = CT \ own /\ ClientIds(internal)' = CI \cup V
        /\ ActiveClients' = (A \ {r}) \cup own /\ ActiveClients = A \cup V
        /\ A \cap V = {} /\ pending' = pending /\ own \subseteq CT
    BY <1>1, <1>2, <1>7, <1>8, <1>9, <1>10
  <2> HIDE DEF CT, CI, A, V, own, SchedInv
  <2>4. QED
    BY <2>1, <2>2, <2>3 DEF OneObject
<1>18. NewStreams'
  BY <1>1, <1>2, <1>7, <1>8, <1>9 DEF NewStreams
<1>19. \A q, n : Served(q, n)' <=> Served(q, n)
  BY <1>2 DEF Served
<1>20. WaitingStreams'
  <2>1. ASSUME NEW i \in Waiting', i.client PROVE Served(i.id, i.total)
    <3>1. CASE i \in Waiting
      BY <2>1, <3>1 DEF WaitingStreams
    <3>2. CASE \E s \in Batch \ S : i = Preempted(active[s])
      <4>1. PICK s \in Batch \ S : i = Preempted(active[s])
        BY <3>2
      <4>2. i.id = s /\ i.total = active[s].total /\ s \in ActiveClients
        BY <1>5, <2>1, <4>1 DEF ActiveClients, Clients
      <4>3. Served(s, active[s].total)
        BY <1>4, <4>2 DEF ActiveStreams
      <4>4. QED
        BY <4>2, <4>3
    <3>3. QED
      BY <1>6, <3>1, <3>2
  <2>2. QED
    BY <1>2, <1>19, <2>1 DEF WaitingStreams
<1>21. ActiveStreams'
  <2>1. ASSUME NEW q \in ActiveClients'
        PROVE  ~active'[q].finished /\ Served(q, active'[q].total)
    <3>1. CASE q = r
      <4>1. j.client
        BY <1>8, <2>1, <3>1
      <4>2. Served(r, j.total)
        BY <1>7, <4>1 DEF WaitingStreams, r
      <4>3. QED
        BY <1>1, <3>1, <4>2 DEF k
    <3>2. CASE q # r
      <4>1. q \in S /\ q \in ActiveClients
        BY <1>8, <1>9, <2>1, <3>2 DEF Clients
      <4>2. ~active[q].finished /\ Served(q, active[q].total)
        BY <1>4, <4>1 DEF ActiveStreams
      <4>3. QED
        BY <1>1, <3>2, <4>1, <4>2
    <3>3. QED
      BY <3>1, <3>2
  <2>2. QED
    BY <1>19, <2>1 DEF ActiveStreams
<1>22. CappedStreams'
  BY <1>2, Frame
<1>23. Messages'
  <2>1. Unsettled' = Unsettled
    BY <1>2 DEF Unsettled, Leased
  <2>2. r \in {i.id : i \in Jobs(taken)}
    BY <1>1 DEF r
  <2>3. QED
    BY <1>1, <1>2, <2>1, <2>2 DEF Messages
<1>24. Remembered'
  <2>1. r \in Clients(S) => r \in {i.id : i \in {h \in overtaken' : h.client}}
    BY <1>1, <1>3 DEF Clients
  <2>2. {i.id : i \in {h \in overtaken : h.client}}
          \subseteq {i.id : i \in {h \in overtaken' : h.client}}
    BY <1>1
  <2> DEFINE CT == ClientIds(taken)
             CI == ClientIds(internal)
             A  == Clients(S)
             V  == Clients(Batch \ S)
             T  == {i.id : i \in {h \in overtaken : h.client}}
             T1 == {i.id : i \in {h \in overtaken' : h.client}}
             own == IF j.client THEN {r} ELSE {}
  <2>3. /\ ClientIds(taken)' = CT \ own /\ ClientIds(internal)' = CI \cup V
        /\ ActiveClients' = (A \ {r}) \cup own /\ ActiveClients = A \cup V
        /\ pending' = pending /\ fut' = fut
    BY <1>1, <1>2, <1>8, <1>9
  <2>4. \A q \in Requests : fut[q] = "waiting" =>
          q \in pending \cup ActiveClients \cup CT \cup CI \cup T
    BY DEF Remembered
  <2>5. (r \in A => r \in T1) /\ T \subseteq T1
    BY <2>1, <2>2
  <2> HIDE DEF CT, CI, A, V, T, T1, own, SchedInv
  <2>6. \A q \in Requests : fut'[q] = "waiting" =>
          q \in pending' \cup ActiveClients' \cup ClientIds(taken)' \cup ClientIds(internal)'
                  \cup T1
    BY <2>3, <2>4, <2>5
  <2>7. QED
    BY <2>6 DEF Remembered, T1
<1>25. QED
  BY <1>11, <1>12, <1>13, <1>14, <1>15, <1>16, <1>17, <1>18, <1>20, <1>21, <1>22,
     <1>23, <1>24

\* A job gets a free block.
LEMMA InjectFreeStep ==
  ASSUME SchedInv, NEW b \in Blocks, NEW m \in Nat, InjectFree(b, m)
  PROVE  SchedInv'
<1>1. /\ stage = "inject" /\ taken # << >> /\ b \notin inUse /\ Activate(active, b, m)
      /\ inUse' = inUse \cup {b} /\ internal' = internal
      /\ UNCHANGED <<queueVars, stage, model, plen, pending, fed, batchSize,
                     clientVars, failures, late>>
  BY DEF InjectFree
<1>2. inUse = {active[r].block : r \in Batch} \cup {j.block : j \in overtaken}
  BY DEF SchedInv, BlockEach
<1>3. /\ \A s \in Batch : active[s].block # b
      /\ \A i \in overtaken : i.block # b
  BY <1>1, <1>2
<1>4. inUse' = {active[s].block : s \in Batch} \cup {i.block : i \in overtaken} \cup {b}
  BY <1>1, <1>2
<1>5. internal' \in Seq(Job) /\ OneEach(internal')
  BY <1>1 DEF SchedInv, SchedTypeOK, OneObject
<1>6. Jobs(internal') = Jobs(internal) \cup {Preempted(active[s]) : s \in Batch \ Batch}
  BY <1>1
<1>7. ClientIds(internal') = ClientIds(internal) \cup Clients(Batch \ Batch)
  BY <1>1 DEF Clients
<1>8. DOMAIN active = Batch
  BY DEF Batch
<1> HIDE DEF Batch
<1>9. QED
  BY <1>1, <1>3, <1>4, <1>5, <1>6, <1>7, <1>8, ActivateStep

\* A job gets the block of a preempted one.
LEMMA InjectPreemptingStep ==
  ASSUME SchedInv, NEW v \in Requests, NEW m \in Nat, InjectPreempting(v, m)
  PROVE  SchedInv'
<1> DEFINE S == Batch \ {v}
           b == active[v].block
           batch == Restrict(active, S)
           w == Preempted(active[v])
<1>1. /\ stage = "inject" /\ taken # << >> /\ v \in Victims
      /\ internal' = Append(internal, w)
      /\ Activate(batch, b, m) /\ inUse' = inUse
      /\ UNCHANGED <<queueVars, stage, model, plen, pending, fed, batchSize,
                     clientVars, failures, late>>
  BY DEF InjectPreempting
<1>2. v \in Batch /\ ~UseQueue /\ active[v].preempted < MaxPreempt
  BY <1>1 DEF Victims, Candidates
<1>3. /\ inUse = {active[r].block : r \in Batch} \cup {j.block : j \in overtaken}
      /\ \A r, s \in Batch : active[r].block = active[s].block => r = s
      /\ \A r \in Batch, j \in overtaken : active[r].block # j.block
  BY DEF SchedInv, BlockEach
<1>4. b \in Blocks
  BY <1>2, <1>3 DEF SchedInv, SchedTypeOK
<1>5. /\ \A s \in S : active[s].block # b
      /\ \A i \in overtaken : i.block # b
  BY <1>2, <1>3
<1>6. inUse' = {active[s].block : s \in S} \cup {i.block : i \in overtaken} \cup {b}
  BY <1>1, <1>2, <1>3
<1>7. DOMAIN batch = S /\ \A s \in S : batch[s] = active[s]
  BY DEF Restrict
<1>8. active[v] \in Job /\ active[v].id = v /\ internal \in Seq(Job)
  BY <1>2 DEF SchedInv, SchedTypeOK
<1>9. w \in Job /\ w.id = v /\ w.client = active[v].client
  BY <1>8, PreemptedProperties
<1>10. Batch \ S = {v}
  BY <1>2
<1>11. Clients(Batch \ S) = IF w.client THEN {w.id} ELSE {}
  BY <1>9, <1>10 DEF Clients
<1>12. w.client => w.id \notin ClientIds(internal)
  BY <1>2, <1>9 DEF SchedInv, OneObject, ActiveClients, Clients
<1>13. OneEach(internal)
  BY DEF SchedInv, OneObject
<1> HIDE DEF w, b, batch
<1>14. /\ internal' \in Seq(Job) /\ Jobs(internal') = Jobs(internal) \cup {w}
       /\ ClientIds(internal') = ClientIds(internal) \cup (IF w.client THEN {w.id} ELSE {})
       /\ OneEach(internal')
  BY <1>1, <1>8, <1>9, <1>12, <1>13, JobsAppend
<1>15. {Preempted(active[s]) : s \in Batch \ S} = {w}
  BY <1>10 DEF w
<1>16. \A s \in Batch \ S : active[s].preempted < MaxPreempt
  BY <1>2, <1>10
<1>17. S \in SUBSET Batch
  OBVIOUS
<1> HIDE DEF S
<1>18. QED
  BY <1>1, <1>2, <1>4, <1>5, <1>6, <1>7, <1>11, <1>14, <1>15, <1>16, <1>17, ActivateStep, ZenonT(60)

\* What the submitters of jobs that fail see.
LEMMA FailJobsProperties ==
  ASSUME SchedTypeOK, CappedStreams, NEW S \in SUBSET Requests, FailJobs(S)
  PROVE  /\ fut' \in [Requests -> {"new", "waiting"} \cup Service!Answer]
         /\ stream' \in [Requests -> Stream] /\ answer' = answer
         /\ \A r \in Requests \ S : fut'[r] = fut[r] /\ stream'[r] = stream[r]
         /\ \A r \in S : stream'[r] = Append(stream[r], "DONE")
         /\ \A r \in Requests : fut'[r] = IF r \in S /\ fut[r] = "waiting" THEN "error"
                                         ELSE fut[r]
         /\ \A r \in S : \A n : Served(r, n) =>
              /\ Service!Tokens(stream'[r]) = n /\ Service!Dones(stream'[r]) = 1
              /\ fut'[r] \in {"error", "cancelled"}
         /\ CappedStreams'
<1>1. /\ fut' = [r \in Requests |->
                   IF r \in S /\ fut[r] = "waiting" THEN "error" ELSE fut[r]]
      /\ stream' = [r \in Requests |->
                      IF r \in S THEN Append(stream[r], "DONE") ELSE stream[r]]
      /\ answer' = answer
  BY DEF FailJobs
<1>2. /\ fut \in [Requests -> {"new", "waiting"} \cup Service!Answer]
      /\ \A r \in Requests : stream[r] \in Stream
  BY DEF SchedTypeOK, Stream
<1>3. \A r \in Requests :
        LET s == stream[r] IN
        /\ Append(s, "DONE") \in Stream
        /\ Service!Tokens(Append(s, "DONE")) = Service!Tokens(s)
        /\ Service!Dones(Append(s, "DONE")) = Service!Dones(s) + 1
  <2> SUFFICES ASSUME NEW r \in Requests
               PROVE  LET s == stream[r] IN
                      /\ Append(s, "DONE") \in Stream
                      /\ Service!Tokens(Append(s, "DONE")) = Service!Tokens(s)
                      /\ Service!Dones(Append(s, "DONE")) = Service!Dones(s) + 1
    OBVIOUS
  <2>1. stream[r] \in Stream
    BY <1>2
  <2>2. Append(stream[r], "DONE") \in Stream
    BY <2>1 DEF Stream
  <2>3. QED
    BY <2>1, <2>2, StreamCounts
<1>4. fut' \in [Requests -> {"new", "waiting"} \cup Service!Answer]
  BY <1>1, <1>2 DEF Service!Answer
<1>5. stream' \in [Requests -> Stream]
  BY <1>1, <1>2, <1>3
<1>6. \A r \in S : stream'[r] = Append(stream[r], "DONE")
  BY <1>1
<1>7. \A r \in Requests \ S : fut'[r] = fut[r] /\ stream'[r] = stream[r]
  BY <1>1
<1>8. \A r \in Requests : fut'[r] = IF r \in S /\ fut[r] = "waiting" THEN "error"
                                   ELSE fut[r]
  BY <1>1
<1>9. ASSUME NEW r \in S, NEW n, Served(r, n)
      PROVE  /\ Service!Tokens(stream'[r]) = n /\ Service!Dones(stream'[r]) = 1
             /\ fut'[r] \in {"error", "cancelled"}
  <2>1. r \in Requests
    OBVIOUS
  <2>2. /\ Service!Tokens(stream'[r]) = Service!Tokens(stream[r])
        /\ Service!Dones(stream'[r]) = Service!Dones(stream[r]) + 1
    BY <1>3, <1>6, <2>1
  <2>3. /\ Service!Tokens(stream[r]) = n /\ Service!Dones(stream[r]) = 0
        /\ fut[r] \in {"waiting", "cancelled"}
    BY <1>9 DEF Served
  <2>4. Service!Dones(stream'[r]) = 1
    BY <2>2, <2>3
  <2>5. fut'[r] \in {"error", "cancelled"}
    BY <1>8, <2>1, <2>3
  <2>6. QED
    BY <2>2, <2>3, <2>4, <2>5
<1>10. CappedStreams'
  BY <1>1, <1>3, <1>6, <1>7 DEF CappedStreams
<1>11. QED
  BY <1>1, <1>4, <1>5, <1>6, <1>7, <1>8, <1>9, <1>10

\* A job is turned away, and its message with it.
LEMMA InjectRejectedStep == ASSUME SchedInv, InjectRejected PROVE SchedInv'
<1> USE DEF SchedInv
<1> DEFINE j == Head(taken)
           S == {i.id : i \in {h \in {Head(taken)} : h.client}}
<1>1. /\ stage = "inject" /\ taken # << >> /\ FailJobs(S) /\ taken' = Tail(taken)
      /\ UNCHANGED <<ready, leased, expired, stage, model, plen, order, pending, internal,
                     active, fed, inUse, batchSize, failures, late, overtaken>>
  BY DEF InjectRejected, queueVars, history
<1>2. taken \in Seq(Job) /\ OneEach(taken)
  BY DEF SchedTypeOK, OneObject
<1>3. /\ taken' \in Seq(Job) /\ Jobs(taken) = {j} \cup Jobs(taken') /\ OneEach(taken')
      /\ ClientIds(taken') = ClientIds(taken) \ (IF j.client THEN {j.id} ELSE {})
  BY <1>1, <1>2, JobsTail
<1>4. S = IF j.client THEN {j.id} ELSE {}
  OBVIOUS
<1>5. j \in Waiting /\ S \subseteq ClientIds(taken)
  BY <1>3, <1>4 DEF Waiting, ClientIds
<1>6. S \subseteq Requests
  BY <1>4, <1>5, WaitingJobs
<1> HIDE DEF j, S
<1>7. /\ fut' \in [Requests -> {"new", "waiting"} \cup Service!Answer]
      /\ stream' \in [Requests -> Stream] /\ answer' = answer
      /\ \A r \in Requests \ S : fut'[r] = fut[r] /\ stream'[r] = stream[r]
      /\ \A r \in Requests : fut'[r] = IF r \in S /\ fut[r] = "waiting" THEN "error"
                                      ELSE fut[r]
      /\ CappedStreams'
  BY <1>1, <1>6, FailJobsProperties
<1>8. /\ ClientIds(internal') = ClientIds(internal) /\ Jobs(internal') = Jobs(internal)
      /\ ActiveClients' = ActiveClients /\ Batch' = Batch
  BY <1>1 DEF ActiveClients, Clients, Batch
<1>9. Waiting' \subseteq Waiting
  BY <1>3, <1>8 DEF Waiting
<1>10. S \cap (pending \cup ClientIds(internal) \cup ActiveClients) = {}
  BY <1>5 DEF OneObject
<1>11. S \cap ClientIds(taken') = {}
  BY <1>3, <1>4
<1>12. SchedTypeOK'
  BY <1>1, <1>3, <1>7 DEF SchedTypeOK, QueueTypeOK, Batch, Stream
<1>13. Phases'
  BY <1>1 DEF Phases, Batch
<1>14. FedFits' /\ Positions'
  BY <1>1, Frame
<1>15. BlockEach'
  <2> HIDE DEF SchedInv
  <2>1. BlockEach
    BY DEF SchedInv
  <2>2. \A i \in Waiting' : i.block = NoBlock
    BY <1>9, <2>1 DEF BlockEach
  <2>3. QED
    BY <1>1, <2>1, <2>2 DEF BlockEach, Batch
<1>16. Counts'
  <2>1. \A i : Counted(i)' <=> Counted(i)
    BY <1>1 DEF Counted
  <2>2. QED
    BY <1>1, <1>9, <2>1 DEF Counts, Batch
<1>17. OneObject'
  <2>1. OneEach(taken)' /\ OneEach(internal)'
    BY <1>1, <1>3 DEF OneObject, OneEach
  <2>2. ClientIds(taken') \subseteq ClientIds(taken)
    BY <1>3
  <2>3. QED
    BY <1>1, <1>8, <2>1, <2>2 DEF OneObject
<1>18. \A q \in Requests \ S : \A n : Served(q, n)' <=> Served(q, n)
  BY <1>7 DEF Served
<1>19. NewStreams'
  <2>1. ClientIds(taken') \subseteq ClientIds(taken)
    BY <1>3
  <2>2. \A q \in Requests : fut'[q] = "new" => fut[q] = "new" /\ q \notin S
    BY <1>5, <1>7 DEF NewStreams
  <2>3. QED
    BY <1>1, <1>7, <1>8, <2>1, <2>2 DEF NewStreams
<1>20. WaitingStreams'
  <2>1. \A q \in pending : q \in Requests \ S
    BY <1>10 DEF SchedTypeOK
  <2>2. ASSUME NEW i \in Waiting', i.client PROVE Served(i.id, i.total)'
    <3>1. i.id \in ClientIds(taken') \cup ClientIds(internal')
      BY <2>2 DEF Waiting, ClientIds
    <3>2. i.id \in Requests \ S
      BY <1>8, <1>9, <1>10, <1>11, <3>1, WaitingJobs
    <3>3. Served(i.id, i.total)
      BY <1>9, <2>2 DEF WaitingStreams
    <3>4. QED
      BY <1>18, <3>2, <3>3
  <2>3. QED
    BY <1>1, <1>18, <2>1, <2>2 DEF WaitingStreams
<1>21. ActiveStreams'
  <2> SUFFICES ASSUME NEW q \in ActiveClients
               PROVE  (IF active[q].finished THEN Ended(q) ELSE Served(q, active[q].total))'
    BY <1>8 DEF ActiveStreams
  <2>1. q \in Requests \ S
    BY <1>10 DEF ActiveClients, Clients, SchedTypeOK
  <2>2. CASE active[q].finished
    BY <1>1, <1>7, <2>1, <2>2 DEF ActiveStreams, Ended
  <2>3. CASE ~active[q].finished
    BY <1>1, <1>7, <2>1, <2>3 DEF ActiveStreams, Served
  <2>4. QED
    BY <2>2, <2>3
<1>22. Messages'
  <2>1. Unsettled' = Unsettled
    BY <1>1 DEF Unsettled, Leased
  <2>2. QED
    BY <1>1, <1>3, <1>8, <2>1 DEF Messages
<1>23. Remembered'
  <2>1. \A q \in Requests : fut'[q] = "waiting" => fut[q] = "waiting" /\ q \notin S
    BY <1>7
  <2>2. ClientIds(taken') = ClientIds(taken) \ S
    BY <1>3, <1>4
  <2>3. QED
    BY <1>1, <1>8, <2>1, <2>2 DEF Remembered
<1>24. QED
  BY <1>7, <1>12, <1>13, <1>14, <1>15, <1>16, <1>17, <1>19, <1>20, <1>21, <1>22, <1>23
\* A prefill job is fed no more than it has left.
LEMMA FeedBound ==
  ASSUME SchedTypeOK, IsFiniteSet(Batch), NEW r \in Prefills
  PROVE  Feed(r) \in Nat /\ Feed(r) <= Unfed[r]
<1>1. \A s \in Prefills : s \in Batch /\ Unfed[s] \in Nat
  <2> SUFFICES ASSUME NEW s \in Prefills PROVE s \in Batch /\ Unfed[s] \in Nat
    OBVIOUS
  <2>1. s \in Batch /\ active[s].pos < active[s].input
    BY DEF Prefills, IsPrefilling
  <2>2. active[s].pos \in Nat /\ active[s].input \in Nat
    BY <2>1, ActiveJobFields
  <2>3. QED
    BY <2>1, <2>2 DEF Unfed
<1> DEFINE X == {s \in Prefills : Older(s, r)}
           before == SumFunctionOnSet(Unfed, X)
           u == Unfed[r]
           x == Max({0, Room - before})
<1>2. before \in Nat
  <2>1. X \in SUBSET Batch /\ \A s \in X : Unfed[s] \in Nat
    BY <1>1
  <2> HIDE DEF X
  <2>2. IsFiniteSet(X)
    BY <2>1, FS_Subset
  <2>3. QED
    BY <2>1, <2>2, SumOfNats
<1>3. Room \in Int
  <2>1. Decodes \in SUBSET Batch
    BY DEF Decodes
  <2>2. Cardinality(Decodes) \in Nat
    BY <2>1, FS_Subset, FS_CardinalityType
  <2>3. TokenBudget - Cardinality(Decodes) \in Int
    BY <2>2, SchedulerAssumption
  <2> DEFINE y == TokenBudget - Cardinality(Decodes)
  <2>4. Room = Max({0, y})
    BY DEF Room
  <2> HIDE DEF y
  <2>5. QED
    BY <2>3, <2>4, MaxOfTwo DEF y
<1>4. Feed(r) = Min({u, x})
  BY DEF Feed
<1>5. u \in Nat
  BY <1>1
<1>6. x \in Int /\ x >= 0
  <2> DEFINE y == Room - before
  <2>1. y \in Int
    BY <1>2, <1>3
  <2>2. x = Max({0, y})
    OBVIOUS
  <2> HIDE DEF y, x
  <2>3. QED
    BY <2>1, <2>2, MaxOfTwo
<1> HIDE DEF u, x
<1>7. Min({u, x}) = IF u <= x THEN u ELSE x
  BY <1>5, <1>6, MinOfTwo
<1>8. QED
  BY <1>4, <1>5, <1>6, <1>7 DEF u

\* A batch is fed.
LEMMA ExecuteStartsStep == ASSUME SchedInv, ExecuteStarts PROVE SchedInv'
<1> USE DEF SchedInv
<1>1. /\ stage = "execute" /\ stage' = "forward"
      /\ \A r \in Decodes : ~NoLastToken(r)
      /\ fed' = [r \in InStep |-> IF r \in Decodes THEN 1 ELSE Feed(r)]
      /\ UNCHANGED <<ready, leased, expired, model, plen, order, pending, internal, taken,
                     active, inUse, batchSize, fut, stream, answer,
                     failures, late, overtaken>>
  BY DEF ExecuteStarts, queueVars, clientVars, history
<1>2. IsFiniteSet(Batch) /\ taken = << >> /\ \A r \in Batch : ~active[r].finished
  BY <1>1 DEF Phases
<1>3. DOMAIN fed' \subseteq Batch
  BY <1>1 DEF InStep, Decodes, Prefills
<1>4. ASSUME NEW r \in DOMAIN fed'
      PROVE  /\ fed'[r] \in Nat \ {0}
             /\ IF IsPrefilling(active[r]) THEN fed'[r] <= Unfed[r]
                ELSE fed'[r] = 1 /\ active[r].out > 0
  <2>1. r \in InStep /\ r \in Batch
    BY <1>1, <1>3
  <2>2. CASE IsPrefilling(active[r])
    <3>1. r \in Prefills /\ r \notin Decodes
      BY <2>1, <2>2 DEF Prefills, Decodes
    <3>2. fed'[r] = Feed(r) /\ Feed(r) > 0
      BY <1>1, <2>1, <3>1 DEF InStep
    <3>3. Feed(r) \in Nat /\ Feed(r) <= Unfed[r]
      BY <1>2, <3>1, FeedBound
    <3>4. QED
      BY <2>2, <3>2, <3>3
  <2>3. CASE ~IsPrefilling(active[r])
    <3>1. r \in Decodes
      BY <2>1, <2>3 DEF Prefills, Decodes
    <3>2. fed'[r] = 1 /\ ~ (active[r].out = 0 /\ active[r].input = 0)
      BY <1>1, <2>1, <3>1 DEF NoLastToken
    <3>3. /\ active[r].pos \in Nat /\ active[r].input \in Nat /\ active[r].out \in Nat
      BY <2>1, ActiveJobFields
    <3>4. active[r].out = 0 => active[r].pos < active[r].input \/ active[r].input = 0
      BY <1>2, <2>1 DEF Positions, Positioned
    <3>5. ~ (active[r].pos < active[r].input)
      BY <2>3 DEF IsPrefilling
    <3>6. active[r].out > 0
      BY <3>2, <3>3, <3>4, <3>5
    <3>7. QED
      BY <2>3, <3>2, <3>6
  <2>4. QED
    BY <2>2, <2>3
<1>5. Batch' = Batch /\ Unfed' = Unfed
  BY <1>1 DEF Batch, Unfed
<1>6. SchedTypeOK'
  BY <1>1, <1>3, <1>4, <1>5 DEF SchedTypeOK, QueueTypeOK
<1>7. Phases'
  BY <1>1, <1>2, <1>5 DEF Phases
<1>8. FedFits'
  BY <1>1, <1>4, <1>5 DEF FedFits, IsPrefilling
<1>9. QED
  BY <1>1, <1>6, <1>7, <1>8, Frame

\* What every end of a forward pass preserves.
LEMMA ForwardFrame ==
  ASSUME SchedInv, ForwardEnds, DOMAIN active' = Batch,
         \A r \in Batch :
           /\ active'[r] \in Job /\ active'[r].id = r
           /\ active'[r].client = active[r].client /\ active'[r].block = active[r].block
           /\ Counted(active'[r]) /\ Positioned(active'[r]),
         fut' \in [Requests -> {"new", "waiting"} \cup Service!Answer],
         stream' \in [Requests -> Stream], answer' = answer,
         failures' \in 0 .. MaxFailures,
         \A r \in Requests : /\ fut'[r] = "waiting" => fut[r] = "waiting"
                             /\ fut'[r] = "new" => fut[r] = "new",
         \A r \in Requests \ ActiveClients : stream'[r] = stream[r] /\ fut'[r] = fut[r]
  PROVE  /\ SchedTypeOK' /\ Phases' /\ FedFits' /\ BlockEach' /\ Counts' /\ Positions'
         /\ OneObject' /\ NewStreams' /\ WaitingStreams' /\ Messages' /\ Remembered'
         /\ ActiveClients' = ActiveClients
<1> USE DEF SchedInv
<1>1. /\ stage = "forward" /\ fed' = << >> /\ stage' = "cleanup"
      /\ UNCHANGED <<ready, leased, expired, model, plen, order, pending, internal, taken,
                     inUse, late, overtaken>>
  BY DEF ForwardEnds, queueVars
<1>2. batchSize' \in 1 .. MaxBatch
  BY DEF ForwardEnds, UpdateBatchSize
<1>3. DOMAIN fed' = {} /\ Batch' = Batch
  BY <1>1 DEF Batch
<1>4. /\ ActiveClients' = ActiveClients /\ Waiting' = Waiting
      /\ ClientIds(taken') = ClientIds(taken) /\ ClientIds(internal') = ClientIds(internal)
  BY <1>1, <1>3 DEF ActiveClients, Clients, Waiting
<1>5. taken = << >>
  BY <1>1 DEF Phases
<1>6. SchedTypeOK'
  BY <1>1, <1>2, <1>3 DEF SchedTypeOK, QueueTypeOK, Stream
<1>7. Phases' /\ FedFits'
  BY <1>1, <1>3, <1>5 DEF Phases, FedFits
<1>8. BlockEach'
  <2>1. BlockEach
    OBVIOUS
  <2> HIDE DEF SchedInv
  <2>2. \A r \in Batch : active'[r].block = active[r].block
    OBVIOUS
  <2>3. {active'[r].block : r \in Batch} = {active[r].block : r \in Batch}
    BY <2>2
  <2>4. QED
    BY <1>1, <1>3, <1>4, <2>1, <2>2, <2>3 DEF BlockEach
<1>9. Counts'
  <2>1. \A i : Counted(i)' <=> Counted(i)
    BY <1>1 DEF Counted
  <2>2. \A r \in Batch : Counted(active'[r])
    OBVIOUS
  <2>3. \A r \in Batch' : Counted(active[r])'
    BY <1>1, <1>3, <2>2 DEF Counted
  <2>4. QED
    BY <1>4, <2>1, <2>3 DEF Counts
<1>10. Positions'
  BY <1>3 DEF Positions, Positioned
<1>11. OneObject'
  BY <1>1, <1>4 DEF OneObject, OneEach
<1>12. NewStreams'
  BY <1>1, <1>4 DEF NewStreams
<1>13. \A q \in Requests \ ActiveClients : \A n : Served(q, n)' <=> Served(q, n)
  BY DEF Served
<1>14. WaitingStreams'
  <2>1. \A q \in pending : q \in Requests \ ActiveClients
    BY DEF OneObject, SchedTypeOK
  <2>2. ASSUME NEW i \in Waiting, i.client PROVE i.id \in Requests \ ActiveClients
    <3>1. i.id \in ClientIds(taken) \cup ClientIds(internal)
      BY <2>2 DEF Waiting, ClientIds
    <3>2. QED
      BY <3>1, WaitingJobs DEF OneObject
  <2>3. QED
    BY <1>1, <1>4, <1>13, <2>1, <2>2 DEF WaitingStreams
<1>15. Messages'
  BY <1>1, <1>3 DEF Messages, Unsettled, Leased
<1>16. Remembered'
  BY <1>1, <1>4 DEF Remembered
<1>17. QED
  BY <1>4, <1>6, <1>7, <1>8, <1>9, <1>10, <1>11, <1>12, <1>14, <1>15, <1>16

\* A forward returns tokens.
LEMMA ForwardTokensStep ==
  ASSUME SchedInv, NEW eos, ForwardTokens(eos)
  PROVE  SchedInv'
<1> USE DEF SchedInv
<1>1. /\ ForwardEnds
      /\ active' = [r \in Batch |->
                      IF r \in DOMAIN fed
                      THEN Applied(active[r], fed[r], r \in eos) ELSE active[r]]
      /\ stream' = [r \in Requests |->
                      IF r \in DOMAIN fed /\ Emits(r) /\ active[r].client
                      THEN Append(stream[r], "token") ELSE stream[r]]
      /\ UNCHANGED <<fut, answer, failures>>
  BY DEF ForwardTokens
<1>2. stage = "forward" /\ DOMAIN fed \subseteq Batch /\ plen' = plen
  BY <1>1 DEF ForwardEnds, SchedTypeOK
<1>3. \A r \in Batch : ~active[r].finished
  BY <1>2 DEF Phases
<1>4. \A r \in Batch : /\ r \in Requests /\ active[r] \in Job /\ active[r].id = r
                       /\ Counted(active[r]) /\ Positioned(active[r])
  BY DEF SchedTypeOK, Counts, Positions
<1>5. \A r \in DOMAIN fed :
        /\ active'[r] \in Job /\ active'[r].id = r
        /\ active'[r].client = active[r].client /\ active'[r].block = active[r].block
        /\ Counted(active'[r]) /\ Positioned(active'[r])
        /\ active'[r].total = IF Emits(r) THEN active[r].total + 1 ELSE active[r].total
        /\ ~Emits(r) => ~active'[r].finished
        /\ active'[r].finished => active'[r].reason # "error"
  <2> SUFFICES ASSUME NEW r \in DOMAIN fed
               PROVE  /\ active'[r] \in Job /\ active'[r].id = r
                      /\ active'[r].client = active[r].client
                      /\ active'[r].block = active[r].block
                      /\ Counted(active'[r]) /\ Positioned(active'[r])
                      /\ active'[r].total = IF Emits(r) THEN active[r].total + 1
                                            ELSE active[r].total
                      /\ ~Emits(r) => ~active'[r].finished
                      /\ active'[r].finished => active'[r].reason # "error"
    OBVIOUS
  <2> DEFINE j == active[r]
             n == fed[r]
             e == r \in eos
             k == Applied(j, n, e)
             emits == ~IsPrefilling([j EXCEPT !.pos = @ + n])
  <2>1. r \in Batch /\ e \in BOOLEAN
    BY <1>2
  <2>2. active'[r] = k
    BY <1>1, <2>1
  <2>3. Emits(r) = emits
    BY DEF Emits
  <2>4. /\ j \in Job /\ j.id = r /\ Counted(j) /\ Positioned(j) /\ ~j.finished
    BY <1>3, <1>4, <2>1
  <2>5. n \in Nat \ {0} /\ plen[j.id] \in Nat
    BY <1>4, <2>1, <2>4, SchedulerAssumption DEF SchedTypeOK
  <2>6. IF IsPrefilling(j) THEN n <= j.input - j.pos ELSE n = 1 /\ j.out > 0
    BY <1>2, <2>1 DEF FedFits, Unfed
  <2> HIDE DEF j, n, e, SchedInv
  <2>7. /\ k \in Job /\ k.id = j.id /\ k.client = j.client /\ k.block = j.block
        /\ Counted(k) /\ Positioned(k)
        /\ k.total = IF emits THEN j.total + 1 ELSE j.total
        /\ ~emits => ~k.finished
        /\ k.finished => k.reason # "error"
    BY <2>1, <2>4, <2>5, <2>6, AppliedProperties
  <2> HIDE DEF k, emits
  <2>8. QED
    BY <2>2, <2>3, <2>4, <2>7 DEF j
<1>6. \A r \in Batch \ DOMAIN fed : active'[r] = active[r]
  BY <1>1
<1>7. \A r \in Requests : stream[r] \in Stream
  BY DEF SchedTypeOK, Stream
<1>8. \A r \in Requests :
        LET s == stream[r] IN
        /\ Append(s, "token") \in Stream
        /\ Service!Tokens(Append(s, "token")) = Service!Tokens(s) + 1
        /\ Service!Dones(Append(s, "token")) = Service!Dones(s)
  <2> SUFFICES ASSUME NEW r \in Requests
               PROVE  LET s == stream[r] IN
                      /\ Append(s, "token") \in Stream
                      /\ Service!Tokens(Append(s, "token")) = Service!Tokens(s) + 1
                      /\ Service!Dones(Append(s, "token")) = Service!Dones(s)
    OBVIOUS
  <2>1. stream[r] \in Stream
    BY <1>7
  <2>2. Append(stream[r], "token") \in Stream
    BY <2>1 DEF Stream
  <2>3. QED
    BY <2>1, <2>2, StreamCounts
<1>9. stream' \in [Requests -> Stream]
  BY <1>1, <1>7, <1>8
<1>10. \A r \in Requests : ~ (r \in DOMAIN fed /\ Emits(r) /\ active[r].client)
         => stream'[r] = stream[r]
  BY <1>1
<1>11. \A r \in Requests : r \in DOMAIN fed /\ Emits(r) /\ active[r].client
         => stream'[r] = Append(stream[r], "token")
  BY <1>1
<1>12. \A r \in Requests \ ActiveClients : stream'[r] = stream[r] /\ fut'[r] = fut[r]
  BY <1>1, <1>2, <1>10 DEF ActiveClients, Clients
<1>13. /\ SchedTypeOK' /\ Phases' /\ FedFits' /\ BlockEach' /\ Counts' /\ Positions'
       /\ OneObject' /\ NewStreams' /\ WaitingStreams' /\ Messages' /\ Remembered'
       /\ ActiveClients' = ActiveClients
  <2>1. DOMAIN active' = Batch
    BY <1>1
  <2>2. \A r \in Batch :
          /\ active'[r] \in Job /\ active'[r].id = r
          /\ active'[r].client = active[r].client /\ active'[r].block = active[r].block
          /\ Counted(active'[r]) /\ Positioned(active'[r])
    BY <1>4, <1>5, <1>6
  <2>3. fut' \in [Requests -> {"new", "waiting"} \cup Service!Answer] /\ answer' = answer
        /\ failures' \in 0 .. MaxFailures
    BY <1>1 DEF SchedTypeOK
  <2>4. \A r \in Requests : /\ fut'[r] = "waiting" => fut[r] = "waiting"
                            /\ fut'[r] = "new" => fut[r] = "new"
    BY <1>1
  <2> HIDE DEF SchedInv
  <2>5. QED
    BY <1>1, <1>9, <1>12, <2>1, <2>2, <2>3, <2>4, ForwardFrame
<1>14. \A r \in ActiveClients :
         /\ r \in Batch /\ r \in Requests /\ active[r].client
         /\ Served(r, active[r].total)
  BY <1>3, <1>4 DEF ActiveClients, Clients, ActiveStreams
<1>15. \A r \in ActiveClients :
         /\ Service!Tokens(stream'[r]) = active'[r].total
         /\ Service!Dones(stream'[r]) = 0
         /\ fut'[r] \in {"waiting", "cancelled"}
         /\ active'[r].finished => active'[r].reason # "error"
  <2> SUFFICES ASSUME NEW r \in ActiveClients
               PROVE  /\ Service!Tokens(stream'[r]) = active'[r].total
                      /\ Service!Dones(stream'[r]) = 0
                      /\ fut'[r] \in {"waiting", "cancelled"}
                      /\ active'[r].finished => active'[r].reason # "error"
    OBVIOUS
  <2> HIDE DEF SchedInv
  <2>1. /\ Service!Tokens(stream[r]) = active[r].total /\ Service!Dones(stream[r]) = 0
        /\ fut'[r] \in {"waiting", "cancelled"}
    BY <1>1, <1>14 DEF Served
  <2>2. CASE r \in DOMAIN fed /\ Emits(r)
    <3>1. r \in Requests /\ stream'[r] = Append(stream[r], "token")
      BY <1>11, <1>14, <2>2
    <3>2. /\ Service!Tokens(stream'[r]) = Service!Tokens(stream[r]) + 1
          /\ Service!Dones(stream'[r]) = Service!Dones(stream[r])
      BY <1>8, <3>1
    <3>3. active'[r].total = active[r].total + 1
      BY <1>5, <2>2
    <3>4. active'[r].finished => active'[r].reason # "error"
      BY <1>5, <2>2
    <3>5. QED
      BY <2>1, <3>2, <3>3, <3>4
  <2>3. CASE r \in DOMAIN fed /\ ~Emits(r)
    BY <1>5, <1>10, <1>14, <2>1, <2>3
  <2>4. CASE r \notin DOMAIN fed
    BY <1>3, <1>6, <1>10, <1>14, <2>1, <2>4
  <2>5. QED
    BY <2>2, <2>3, <2>4
<1>16. ActiveStreams'
  BY <1>13, <1>15 DEF ActiveStreams, Ended, Served
<1>17. CappedStreams'
  <2> SUFFICES ASSUME NEW r \in Requests
               PROVE  /\ Service!Tokens(stream'[r]) <= MaxTokens
                      /\ answer'[r] <= Service!Tokens(stream'[r])
    BY DEF CappedStreams
  <2>1. /\ Service!Tokens(stream[r]) <= MaxTokens
        /\ answer[r] <= Service!Tokens(stream[r]) /\ answer'[r] = answer[r]
    BY <1>1 DEF CappedStreams
  <2>2. CASE stream'[r] = stream[r]
    BY <2>1, <2>2
  <2>3. CASE r \in DOMAIN fed /\ Emits(r) /\ active[r].client
    <3>1. r \in ActiveClients /\ r \in Batch
      BY <1>2, <2>3 DEF ActiveClients, Clients
    <3>2. Service!Tokens(stream[r]) = active[r].total /\ active[r].total < MaxTokens
      BY <1>3, <1>4, <1>14, <3>1 DEF Served, Counted
    <3>3. Service!Tokens(stream'[r]) = Service!Tokens(stream[r]) + 1
      BY <1>8, <1>11, <2>3
    <3>4. active[r].total \in Nat /\ MaxTokens \in Nat /\ answer[r] \in Int
      <4>1. answer[r] \in 0 .. MaxTokens /\ MaxTokens \in Nat
        BY SchedulerAssumption DEF SchedTypeOK
      <4>2. QED
        BY <3>1, <4>1, ActiveJobFields
    <3> HIDE DEF SchedInv
    <3>5. QED
      BY <2>1, <3>2, <3>3, <3>4
  <2>4. QED
    BY <1>10, <2>2, <2>3
<1>18. QED
  BY <1>13, <1>16, <1>17

\* The jobs of the step are finished.
LEMMA FinishedBatch ==
  ASSUME SchedInv, DOMAIN fed \subseteq Batch, NEW why \in Reasons,
         Finished(DOMAIN fed, why)
  PROVE  \A r \in DOMAIN fed :
           /\ active'[r] \in Job /\ active'[r].id = r /\ active'[r].total = active[r].total
           /\ active'[r].client = active[r].client /\ active'[r].block = active[r].block
           /\ Counted(active'[r]) /\ Positioned(active'[r])
           /\ active'[r].finished /\ active'[r].reason = why
<1> SUFFICES ASSUME NEW r \in DOMAIN fed
             PROVE  /\ active'[r] \in Job /\ active'[r].id = r
                    /\ active'[r].total = active[r].total
                    /\ active'[r].client = active[r].client
                    /\ active'[r].block = active[r].block
                    /\ Counted(active'[r]) /\ Positioned(active'[r])
                    /\ active'[r].finished /\ active'[r].reason = why
  OBVIOUS
<1> DEFINE j == active[r]
           k == [j EXCEPT !.finished = TRUE, !.reason = why]
<1>1. r \in Batch
  OBVIOUS
<1>2. active'[r] = k
  BY <1>1 DEF Finished
<1>3. j \in Job /\ j.id = r /\ Counted(j) /\ Positioned(j)
  BY <1>1 DEF SchedInv, SchedTypeOK, Counts, Positions
<1> HIDE DEF j
<1>4. /\ k \in Job /\ k.finished /\ k.reason = why /\ k.id = j.id
      /\ k.client = j.client /\ k.block = j.block /\ k.total = j.total
      /\ Counted(k) /\ Positioned(k)
  BY <1>3, FinishedJob
<1> HIDE DEF k
<1>5. QED
  BY <1>2, <1>3, <1>4 DEF j

\* A legacy model returns whole texts.
LEMMA ForwardTextStep == ASSUME SchedInv, ForwardText PROVE SchedInv'
<1> USE DEF SchedInv
<1>1. /\ ForwardEnds
      /\ Finished(DOMAIN fed, "stop")
      /\ fut' = [r \in Requests |->
                   IF r \in DOMAIN fed /\ active[r].client /\ fut[r] = "waiting"
                   THEN "result" ELSE fut[r]]
      /\ UNCHANGED <<stream, answer, failures>>
  BY DEF ForwardText
<1>2. stage = "forward" /\ DOMAIN fed \subseteq Batch /\ plen' = plen
  BY <1>1 DEF ForwardEnds, SchedTypeOK
<1>3. \A r \in Batch : ~active[r].finished
  BY <1>2 DEF Phases
<1>4. \A r \in Batch : /\ r \in Requests /\ active[r] \in Job /\ active[r].id = r
                       /\ Counted(active[r]) /\ Positioned(active[r])
  BY DEF SchedTypeOK, Counts, Positions
<1>5. \A r \in DOMAIN fed :
        /\ active'[r] \in Job /\ active'[r].id = r /\ active'[r].total = active[r].total
        /\ active'[r].client = active[r].client /\ active'[r].block = active[r].block
        /\ Counted(active'[r]) /\ Positioned(active'[r])
        /\ active'[r].finished /\ active'[r].reason = "stop"
  <2>1. "stop" \in Reasons
    BY DEF Reasons
  <2> HIDE DEF SchedInv
  <2>2. QED
    BY <1>1, <1>2, <2>1, FinishedBatch
<1>6. DOMAIN active' = Batch /\ \A r \in Batch \ DOMAIN fed : active'[r] = active[r]
  BY <1>1 DEF Finished
<1>7. fut' \in [Requests -> {"new", "waiting"} \cup Service!Answer]
  BY <1>1 DEF SchedTypeOK, Service!Answer
<1>8. \A r \in Requests : /\ fut'[r] = "waiting" => fut[r] = "waiting"
                          /\ fut'[r] = "new" => fut[r] = "new"
                          /\ r \notin DOMAIN fed => fut'[r] = fut[r]
  BY <1>1
<1>9. /\ SchedTypeOK' /\ Phases' /\ FedFits' /\ BlockEach' /\ Counts' /\ Positions'
      /\ OneObject' /\ NewStreams' /\ WaitingStreams' /\ Messages' /\ Remembered'
      /\ ActiveClients' = ActiveClients
  <2>1. DOMAIN active' = Batch
    BY <1>6
  <2>2. \A r \in Batch :
          /\ active'[r] \in Job /\ active'[r].id = r
          /\ active'[r].client = active[r].client /\ active'[r].block = active[r].block
          /\ Counted(active'[r]) /\ Positioned(active'[r])
    BY <1>4, <1>5, <1>6
  <2>3. stream' \in [Requests -> Stream] /\ answer' = answer /\ failures' \in 0 .. MaxFailures
    BY <1>1 DEF SchedTypeOK, Stream
  <2>4. \A r \in Requests \ ActiveClients : stream'[r] = stream[r] /\ fut'[r] = fut[r]
    BY <1>1, <1>2 DEF ActiveClients, Clients
  <2> HIDE DEF SchedInv
  <2>5. QED
    BY <1>1, <1>7, <1>8, <2>1, <2>2, <2>3, <2>4, ForwardFrame
<1>10. ActiveStreams'
  <2> SUFFICES ASSUME NEW r \in ActiveClients
               PROVE  IF active'[r].finished THEN Ended(r)' ELSE Served(r, active[r].total)'
    BY <1>9 DEF ActiveStreams
  <2>1. r \in Batch /\ r \in Requests /\ Served(r, active[r].total)
    BY <1>3, <1>4 DEF ActiveClients, Clients, ActiveStreams
  <2> HIDE DEF SchedInv
  <2>2. CASE r \in DOMAIN fed
    BY <1>1, <1>5, <1>8, <2>1, <2>2 DEF Ended, Served
  <2>3. CASE r \notin DOMAIN fed
    BY <1>1, <1>3, <1>6, <1>8, <2>1, <2>3 DEF Served
  <2>4. QED
    BY <2>2, <2>3
<1>11. CappedStreams'
  BY <1>1, Frame
<1>12. QED
  BY <1>9, <1>10, <1>11

\* A forward raises, and the batch with it.
LEMMA ForwardFailsStep == ASSUME SchedInv, ForwardFails PROVE SchedInv'
<1> USE DEF SchedInv
<1> DEFINE S == Clients(DOMAIN fed)
<1>1. /\ ForwardEnds /\ failures < MaxFailures /\ failures' = failures + 1
      /\ Finished(DOMAIN fed, "error")
      /\ FailJobs(S)
  BY DEF ForwardFails
<1>2. stage = "forward" /\ DOMAIN fed \subseteq Batch /\ plen' = plen
  BY <1>1 DEF ForwardEnds, SchedTypeOK
<1>3. \A r \in Batch : ~active[r].finished
  BY <1>2 DEF Phases
<1>4. \A r \in Batch : /\ r \in Requests /\ active[r] \in Job /\ active[r].id = r
                       /\ Counted(active[r]) /\ Positioned(active[r])
  BY DEF SchedTypeOK, Counts, Positions
<1>5. \A r \in DOMAIN fed :
        /\ active'[r] \in Job /\ active'[r].id = r /\ active'[r].total = active[r].total
        /\ active'[r].client = active[r].client /\ active'[r].block = active[r].block
        /\ Counted(active'[r]) /\ Positioned(active'[r])
        /\ active'[r].finished /\ active'[r].reason = "error"
  <2>1. "error" \in Reasons
    BY DEF Reasons
  <2> HIDE DEF SchedInv
  <2>2. QED
    BY <1>1, <1>2, <2>1, FinishedBatch
<1>6. DOMAIN active' = Batch /\ \A r \in Batch \ DOMAIN fed : active'[r] = active[r]
  BY <1>1 DEF Finished
<1>7. S \subseteq Requests /\ S \subseteq ActiveClients
  BY <1>2, <1>4 DEF Clients, ActiveClients
<1>8. \A r \in ActiveClients : r \in DOMAIN fed => r \in S
  BY DEF Clients, ActiveClients
<1> HIDE DEF S
<1>9. /\ fut' \in [Requests -> {"new", "waiting"} \cup Service!Answer]
      /\ stream' \in [Requests -> Stream] /\ answer' = answer
      /\ \A r \in Requests \ S : fut'[r] = fut[r] /\ stream'[r] = stream[r]
      /\ \A r \in Requests : fut'[r] = IF r \in S /\ fut[r] = "waiting" THEN "error"
                                      ELSE fut[r]
      /\ \A r \in S : \A n : Served(r, n) =>
           /\ Service!Tokens(stream'[r]) = n /\ Service!Dones(stream'[r]) = 1
           /\ fut'[r] \in {"error", "cancelled"}
      /\ CappedStreams'
  BY <1>1, <1>7, FailJobsProperties
<1>10. /\ SchedTypeOK' /\ Phases' /\ FedFits' /\ BlockEach' /\ Counts' /\ Positions'
       /\ OneObject' /\ NewStreams' /\ WaitingStreams' /\ Messages' /\ Remembered'
       /\ ActiveClients' = ActiveClients
  <2>1. DOMAIN active' = Batch
    BY <1>6
  <2>2. \A r \in Batch :
          /\ active'[r] \in Job /\ active'[r].id = r
          /\ active'[r].client = active[r].client /\ active'[r].block = active[r].block
          /\ Counted(active'[r]) /\ Positioned(active'[r])
    BY <1>4, <1>5, <1>6
  <2>3. failures' \in 0 .. MaxFailures
    <3>1. MaxFailures \in Nat /\ failures \in 0 .. MaxFailures
      BY SchedulerAssumption DEF SchedTypeOK
    <3>2. QED
      BY <1>1, <3>1
  <2>4. \A r \in Requests \ ActiveClients : stream'[r] = stream[r] /\ fut'[r] = fut[r]
    BY <1>7, <1>9
  <2>5. \A r \in Requests : /\ fut'[r] = "waiting" => fut[r] = "waiting"
                            /\ fut'[r] = "new" => fut[r] = "new"
    BY <1>9
  <2> HIDE DEF SchedInv
  <2>6. QED
    BY <1>1, <1>9, <2>1, <2>2, <2>3, <2>4, <2>5, ForwardFrame
<1>11. ActiveStreams'
  <2> SUFFICES ASSUME NEW r \in ActiveClients
               PROVE  IF active'[r].finished THEN Ended(r)' ELSE Served(r, active[r].total)'
    BY <1>10 DEF ActiveStreams
  <2>1. r \in Batch /\ r \in Requests /\ Served(r, active[r].total)
    BY <1>3, <1>4 DEF ActiveClients, Clients, ActiveStreams
  <2> HIDE DEF SchedInv
  <2>2. CASE r \in DOMAIN fed
    BY <1>5, <1>8, <1>9, <2>1, <2>2 DEF Ended
  <2>3. CASE r \notin DOMAIN fed
    <3>1. r \notin S /\ active'[r] = active[r]
      BY <1>6, <2>1, <2>3 DEF S, Clients
    <3>2. fut'[r] = fut[r] /\ stream'[r] = stream[r]
      BY <1>9, <2>1, <3>1
    <3>3. QED
      BY <1>3, <2>1, <3>1, <3>2 DEF Served
  <2>4. QED
    BY <2>2, <2>3
<1>12. QED
  BY <1>9, <1>10, <1>11
\* The jobs that end in a cleanup, and the submitters among theirs.
Done == {r \in Batch : Marked(active[r]).finished}
Own  == {r \in Done : active[r].client}

\* What Cleanup does, said of the jobs as they were.
LEMMA CleanupProperties ==
  ASSUME SchedInv, Cleanup
  PROVE  /\ Batch' = Batch \ Done
         /\ \A r \in Batch \ Done : active'[r] = active[r] /\ ~active[r].finished
         /\ inUse' = inUse \ {active[r].block : r \in Done}
         /\ stream' = [r \in Requests |->
                         IF r \in Own THEN Append(stream[r], "DONE") ELSE stream[r]]
         /\ fut' = [r \in Requests |->
                      IF r \in Own /\ fut[r] = "waiting" THEN "result" ELSE fut[r]]
         /\ answer' = [r \in Requests |->
                         IF r \in Own /\ fut[r] = "waiting" THEN active[r].out
                         ELSE answer[r]]
         /\ stage' \in {"sweep", "execute"}
         /\ \/ UseQueue /\ \E fail \in SUBSET Done : Settle(Done \ fail, fail)
            \/ ~UseQueue /\ UNCHANGED queueVars
<1> DEFINE job  == [r \in Batch |-> Marked(active[r])]
           done == {r \in Batch : job[r].finished}
           fail == {r \in done : Unserved(job[r])}
           own  == {r \in done : job[r].client}
           won  == {r \in own : fut[r] = "waiting"}
<1>1. \A r \in Batch : active[r] \in Job
  BY DEF SchedInv, SchedTypeOK
<1>2. \A r \in Batch : /\ job[r].client = active[r].client /\ job[r].out = active[r].out
                       /\ \/ job[r] = active[r]
                          \/ ~active[r].finished /\ job[r].finished
  <2> SUFFICES ASSUME NEW r \in Batch
               PROVE  /\ job[r].client = active[r].client /\ job[r].out = active[r].out
                      /\ \/ job[r] = active[r]
                         \/ ~active[r].finished /\ job[r].finished
    OBVIOUS
  <2>1. job[r] = Marked(active[r]) /\ active[r] \in Job
    BY <1>1
  <2>2. QED
    BY <2>1, MarkedProperties
<1>3. done = Done
  BY DEF Done
<1>4. own = Own
  BY <1>2, <1>3 DEF Own
<1>5. fail \in SUBSET Done
  BY <1>3
<1>6. /\ active' = Restrict(job, Batch \ done) /\ Released(done)
      /\ stream' = [r \in Requests |->
                      IF r \in own THEN Append(stream[r], "DONE") ELSE stream[r]]
      /\ fut' = [r \in Requests |-> IF r \in won THEN "result" ELSE fut[r]]
      /\ answer' = [r \in Requests |-> IF r \in won THEN job[r].out ELSE answer[r]]
      /\ IF UseQueue THEN Settle(done \ fail, fail) ELSE UNCHANGED queueVars
      /\ stage' \in {"sweep", "execute"}
  BY DEF Cleanup
<1>7. UseQueue \in BOOLEAN
  BY SchedulerAssumption
<1>8. \/ UseQueue /\ \E f \in SUBSET Done : Settle(Done \ f, f)
      \/ ~UseQueue /\ UNCHANGED queueVars
  <2>1. UseQueue => Settle(Done \ fail, fail)
    BY <1>3, <1>6
  <2> HIDE DEF fail
  <2>2. QED
    BY <1>5, <1>6, <2>1, Zenon
<1>9. \A r \in Batch \ Done : active'[r] = job[r] /\ ~job[r].finished
  BY <1>3, <1>6 DEF Restrict
<1>10. \A r \in Batch \ Done : active'[r] = active[r] /\ ~active[r].finished
  BY <1>2, <1>9
<1>11. Batch' = Batch \ Done
  BY <1>3, <1>6 DEF Batch, Restrict
<1>12. inUse' = inUse \ {active[r].block : r \in Done}
  BY <1>3, <1>6 DEF Released
<1>13. \A r : r \in won <=> r \in Own /\ fut[r] = "waiting"
  BY <1>4
<1>14. \A r \in Own : job[r].out = active[r].out
  BY <1>2 DEF Own, Done
<1> HIDE DEF job, won, own
<1>15. answer' = [r \in Requests |->
                    IF r \in Own /\ fut[r] = "waiting" THEN active[r].out ELSE answer[r]]
  BY <1>6, <1>13, <1>14
<1>16. fut' = [r \in Requests |->
                 IF r \in Own /\ fut[r] = "waiting" THEN "result" ELSE fut[r]]
  BY <1>6, <1>13
<1>17. QED
  BY <1>4, <1>6, <1>8, <1>10, <1>11, <1>12, <1>15, <1>16

\* Finished jobs are committed, released, answered and settled.
LEMMA CleanupStep == ASSUME SchedInv, Cleanup PROVE SchedInv'
<1> USE DEF SchedInv
<1>1. /\ Batch' = Batch \ Done
      /\ \A r \in Batch \ Done : active'[r] = active[r] /\ ~active[r].finished
      /\ inUse' = inUse \ {active[r].block : r \in Done}
      /\ stream' = [r \in Requests |->
                      IF r \in Own THEN Append(stream[r], "DONE") ELSE stream[r]]
      /\ fut' = [r \in Requests |->
                   IF r \in Own /\ fut[r] = "waiting" THEN "result" ELSE fut[r]]
      /\ answer' = [r \in Requests |->
                      IF r \in Own /\ fut[r] = "waiting" THEN active[r].out
                      ELSE answer[r]]
      /\ stage' \in {"sweep", "execute"}
      /\ \/ UseQueue /\ \E fail \in SUBSET Done : Settle(Done \ fail, fail)
         \/ ~UseQueue /\ UNCHANGED queueVars
  BY CleanupProperties
<1>2. /\ stage = "cleanup"
      /\ UNCHANGED <<model, plen, order, pending, internal, taken, fed, batchSize,
                     failures, late, overtaken>>
  BY DEF Cleanup, history
<1>3. taken = << >> /\ DOMAIN fed = {} /\ IsFiniteSet(Batch)
  BY <1>2 DEF Phases
<1>4. Done \subseteq Batch /\ Own \subseteq Done /\ Own \subseteq ActiveClients
  BY DEF Done, Own, ActiveClients, Clients
<1>5. ActiveClients' = ActiveClients \ Own
  BY <1>1, <1>4 DEF ActiveClients, Clients, Own
<1>6. /\ ClientIds(internal') = ClientIds(internal) /\ ClientIds(taken') = ClientIds(taken)
      /\ Waiting' = Waiting
  BY <1>2 DEF Waiting
<1>7. QueueTypeOK' /\ ready \subseteq ready' /\ (UseQueue => Unsettled \ Done \subseteq Unsettled')
  <2>1. QueueTypeOK
    BY DEF SchedTypeOK
  <2>2. CASE UseQueue /\ \E fail \in SUBSET Done : Settle(Done \ fail, fail)
    <3>1. PICK fail \in SUBSET Done : Settle(Done \ fail, fail)
      BY <2>2
    <3>2. (Done \ fail) \cup fail = Done
      OBVIOUS
    <3>3. QED
      BY <2>1, <3>1, <3>2, SettleQueue
  <2>3. CASE ~UseQueue /\ UNCHANGED queueVars
    BY <2>1, <2>3 DEF queueVars, QueueTypeOK
  <2>4. QED
    BY <1>1, <2>2, <2>3
<1>8. \A r \in Own :
        /\ r \in Requests /\ active[r].out \in 0 .. MaxTokens
        /\ Service!Tokens(stream[r]) = active[r].total
        /\ active[r].out <= active[r].total /\ fut[r] # "new"
  <2> SUFFICES ASSUME NEW r \in Own
               PROVE  /\ r \in Requests /\ active[r].out \in 0 .. MaxTokens
                      /\ Service!Tokens(stream[r]) = active[r].total
                      /\ active[r].out <= active[r].total /\ fut[r] # "new"
    OBVIOUS
  <2>1. r \in Batch /\ r \in ActiveClients
    BY <1>4
  <2>2. /\ active[r].out <= active[r].total /\ active[r].total <= MaxTokens
    BY <2>1 DEF Counts, Counted
  <2>3. active[r].out \in Nat /\ active[r].total \in Nat /\ MaxTokens \in Nat /\ r \in Requests
    BY <2>1, ActiveJobFields, SchedulerAssumption
  <2>4. IF active[r].finished THEN Ended(r) ELSE Served(r, active[r].total)
    BY <2>1 DEF ActiveStreams
  <2>5. Service!Tokens(stream[r]) = active[r].total /\ fut[r] # "new"
    BY <2>4 DEF Ended, Served
  <2> HIDE DEF SchedInv
  <2>6. QED
    BY <2>2, <2>3, <2>5
<1>9. \A r \in Requests : stream[r] \in Stream
  BY DEF SchedTypeOK, Stream
<1>10. \A r \in Requests : /\ stream'[r] \in Stream
                           /\ Service!Tokens(stream'[r]) = Service!Tokens(stream[r])
  <2> SUFFICES ASSUME NEW r \in Requests
               PROVE  /\ stream'[r] \in Stream
                      /\ Service!Tokens(stream'[r]) = Service!Tokens(stream[r])
    OBVIOUS
  <2>1. stream[r] \in Stream /\ Append(stream[r], "DONE") \in Stream
    BY <1>9 DEF Stream
  <2>2. Service!Tokens(Append(stream[r], "DONE")) = Service!Tokens(stream[r])
    BY <2>1, StreamCounts
  <2>3. stream'[r] = Append(stream[r], "DONE") \/ stream'[r] = stream[r]
    BY <1>1
  <2>4. QED
    BY <2>1, <2>2, <2>3
<1>11. \A r \in Requests \ Own : /\ stream'[r] = stream[r] /\ fut'[r] = fut[r]
                                 /\ answer'[r] = answer[r]
  BY <1>1
<1>12. \A r \in Requests : /\ fut'[r] = "waiting" => fut[r] = "waiting" /\ r \notin Own
                           /\ fut'[r] = "new" => fut[r] = "new"
  BY <1>1
<1>13. SchedTypeOK'
  <2>1. fut' \in [Requests -> {"new", "waiting"} \cup Service!Answer]
    BY <1>1 DEF SchedTypeOK, Service!Answer
  <2>2. stream' \in [Requests -> Seq({"token", "DONE"})]
    BY <1>1, <1>10 DEF Stream
  <2>3. answer' \in [Requests -> 0 .. MaxTokens]
    BY <1>1, <1>8 DEF SchedTypeOK
  <2>4. Batch' \subseteq Requests /\ \A r \in Batch' : active'[r] \in Job /\ active'[r].id = r
    BY <1>1 DEF SchedTypeOK
  <2>5. inUse' \subseteq Blocks
    BY <1>1 DEF SchedTypeOK
  <2>6. QED
    BY <1>1, <1>2, <1>3, <1>7, <2>1, <2>2, <2>3, <2>4, <2>5 DEF SchedTypeOK
<1>14. Phases'
  <2>1. IsFiniteSet(Batch')
    BY <1>1, <1>3, FS_Subset
  <2>2. QED
    BY <1>1, <1>2, <1>3, <2>1 DEF Phases
<1>15. FedFits'
  BY <1>1 DEF FedFits
<1>16. BlockEach'
  <2>1. /\ inUse = {active[r].block : r \in Batch} \cup {j.block : j \in overtaken}
        /\ \A r, s \in Batch : active[r].block = active[s].block => r = s
        /\ \A r \in Batch, j \in overtaken : active[r].block # j.block
        /\ \A i, j \in overtaken : i.block = j.block => i = j
        /\ \A j \in Waiting : j.block = NoBlock
    BY DEF BlockEach
  <2> HIDE DEF SchedInv
  <2>2. \A r \in Batch' : r \in Batch /\ r \notin Done /\ active'[r].block = active[r].block
    BY <1>1
  <2>3. ASSUME NEW x \in inUse'
        PROVE  x \in {active'[r].block : r \in Batch'} \cup {j.block : j \in overtaken}
    <3>1. CASE \E j \in overtaken : x = j.block
      BY <3>1
    <3>2. CASE \E r \in Batch : x = active[r].block
      <4>1. PICK r \in Batch : x = active[r].block
        BY <3>2
      <4>2. r \in Batch'
        BY <1>1, <2>3, <4>1
      <4>3. QED
        BY <2>2, <4>1, <4>2
    <3>3. x \in inUse
      BY <1>1, <2>3
    <3>4. QED
      BY <2>1, <3>1, <3>2, <3>3
  <2>4. ASSUME NEW r \in Batch' PROVE active'[r].block \in inUse'
    BY <1>1, <1>4, <2>1, <2>2
  <2>5. ASSUME NEW j \in overtaken PROVE j.block \in inUse'
    BY <1>1, <1>4, <2>1
  <2>6. inUse' = {active'[r].block : r \in Batch'} \cup {j.block : j \in overtaken}
    <3>1. inUse' \subseteq {active'[r].block : r \in Batch'} \cup {j.block : j \in overtaken}
      BY <2>3, Zenon
    <3>2. {active'[r].block : r \in Batch'} \subseteq inUse'
      BY <2>4
    <3>3. {j.block : j \in overtaken} \subseteq inUse'
      BY <2>5
    <3>4. QED
      BY <3>1, <3>2, <3>3, Zenon
  <2>7. \A r, s \in Batch' : active'[r].block = active'[s].block => r = s
    BY <2>1, <2>2
  <2>8. \A r \in Batch', j \in overtaken : active'[r].block # j.block
    BY <2>1, <2>2
  <2>9. QED
    BY <1>2, <1>6, <2>1, <2>6, <2>7, <2>8 DEF BlockEach
<1>17. Counts'
  <2>1. \A i : Counted(i)' <=> Counted(i)
    BY <1>2 DEF Counted
  <2>2. \A r \in Batch' : Counted(active[r])'
    BY <1>1, <1>2 DEF Counts, Counted
  <2>3. QED
    BY <1>6, <2>1, <2>2 DEF Counts
<1>18. Positions'
  BY <1>1 DEF Positions, Positioned
<1>19. OneObject'
  <2>1. OneEach(taken)' /\ OneEach(internal)'
    BY <1>2 DEF OneObject, OneEach
  <2>2. QED
    BY <1>2, <1>5, <1>6, <2>1 DEF OneObject
<1>20. NewStreams'
  <2>1. \A q \in Requests : fut[q] = "new" => q \notin Own
    BY <1>8
  <2>2. QED
    BY <1>2, <1>5, <1>6, <1>11, <1>12, <2>1 DEF NewStreams
<1>21. \A q \in Requests \ Own : \A n : Served(q, n)' <=> Served(q, n)
  BY <1>11 DEF Served
<1>22. WaitingStreams'
  <2>1. \A q \in pending : q \in Requests \ Own
    BY <1>4 DEF OneObject, SchedTypeOK
  <2>2. ASSUME NEW i \in Waiting, i.client PROVE i.id \in Requests \ Own
    <3>1. i.id \in ClientIds(taken) \cup ClientIds(internal)
      BY <2>2 DEF Waiting, ClientIds
    <3>2. QED
      BY <1>4, <3>1, WaitingJobs DEF OneObject
  <2>3. QED
    BY <1>2, <1>6, <1>21, <2>1, <2>2 DEF WaitingStreams
<1>23. ActiveStreams'
  <2> SUFFICES ASSUME NEW q \in ActiveClients \ Own
               PROVE  (IF active[q].finished THEN Ended(q) ELSE Served(q, active[q].total))'
    BY <1>5 DEF ActiveStreams
  <2>1. q \in Batch \ Done /\ q \in Requests
    BY DEF ActiveClients, Clients, Own, SchedTypeOK
  <2>2. active'[q] = active[q] /\ ~active[q].finished
    BY <1>1, <2>1
  <2>3. Served(q, active[q].total)
    BY <2>2 DEF ActiveStreams
  <2> HIDE DEF SchedInv
  <2>4. QED
    BY <1>11, <2>1, <2>2, <2>3 DEF Served
<1>24. CappedStreams'
  <2> SUFFICES ASSUME NEW r \in Requests
               PROVE  /\ Service!Tokens(stream'[r]) <= MaxTokens
                      /\ answer'[r] <= Service!Tokens(stream'[r])
    BY DEF CappedStreams
  <2>1. /\ Service!Tokens(stream[r]) <= MaxTokens /\ answer[r] <= Service!Tokens(stream[r])
    BY DEF CappedStreams
  <2>2. answer'[r] = answer[r] \/ (r \in Own /\ answer'[r] = active[r].out)
    BY <1>1
  <2> HIDE DEF SchedInv
  <2>3. QED
    BY <1>8, <1>10, <2>1, <2>2
<1>25. Messages'
  <2>1. Jobs(taken') = {}
    BY <1>2, <1>3, EmptyJobs
  <2>2. UseQueue => Batch' \subseteq Unsettled'
    BY <1>1, <1>7 DEF Messages
  <2>3. pending' \subseteq ready'
    BY <1>2, <1>7 DEF Messages
  <2>4. QED
    BY <2>1, <2>2, <2>3 DEF Messages
<1>26. Remembered'
  BY <1>2, <1>5, <1>6, <1>12 DEF Remembered
<1>27. QED
  BY <1>13, <1>14, <1>15, <1>16, <1>17, <1>18, <1>19, <1>20, <1>22, <1>23, <1>24,
     <1>25, <1>26

-----------------------------------------------------------------------------
\* The invariant of every behaviour.

\* Nothing happens.
LEMMA StutterStep == ASSUME SchedInv, UNCHANGED schedVars PROVE SchedInv'
<1> USE DEF SchedInv, schedVars, queueVars, loopVars, clientVars, history
<1>1. SchedTypeOK'
  BY DEF SchedTypeOK, QueueTypeOK, Batch
<1>2. Phases'
  BY DEF Phases, Batch
<1>3. QED
  BY <1>1, <1>2, Frame

\* A leased job matches a number of tokens.
LEMMA MatchedTokens ==
  ASSUME SchedInv, taken # << >>, NEW m \in 0 .. Head(taken).input
  PROVE  m \in Nat
<1>1. taken \in Seq(Job)
  BY DEF SchedInv, SchedTypeOK
<1>2. Head(taken) \in Job
  BY <1>1
<1>3. Head(taken).input \in Nat
  BY <1>2 DEF Job
<1>4. QED
  BY <1>3

\* Every step preserves the invariant.
LEMMA SchedStep == ASSUME SchedInv, [SchedNext]_schedVars PROVE SchedInv'
<1>1. ASSUME NEW b \in Blocks, NEW m, InjectFree(b, m) PROVE SchedInv'
  <2>1. m \in Nat
    BY <1>1, MatchedTokens DEF InjectFree
  <2>2. QED
    BY <1>1, <2>1, InjectFreeStep
<1>2. ASSUME NEW v \in Requests, NEW m, InjectPreempting(v, m) PROVE SchedInv'
  <2>1. m \in Nat
    BY <1>2, MatchedTokens DEF InjectPreempting
  <2>2. QED
    BY <1>2, <2>1, InjectPreemptingStep
<1>3. CASE Loop
  <2>1. CASE Wake \/ Cleanup \/ StartLease \/ LeaseMessage \/ LeaseInternal \/ EndLease
    BY <2>1, WakeStep, CleanupStep, StartLeaseStep, LeaseMessageStep,
       LeaseInternalStep, EndLeaseStep
  <2>2. CASE \E b \in Blocks, m \in 0 .. Max(PromptLens) + MaxTokens : InjectFree(b, m)
    BY <1>1, <2>2
  <2>3. CASE \E v \in Requests, m \in 0 .. Max(PromptLens) + MaxTokens :
               InjectPreempting(v, m)
    BY <1>2, <2>3
  <2>4. CASE InjectRejected \/ EndInject \/ ExecuteStarts \/ ExecuteRaises
    BY <2>4, InjectRejectedStep, EndInjectStep, ExecuteStartsStep, ExecuteRaisesStep
  <2>5. CASE \E eos \in SUBSET Requests : ForwardTokens(eos)
    BY <2>5, ForwardTokensStep
  <2>6. CASE ForwardText \/ ForwardFails
    BY <2>6, ForwardTextStep, ForwardFailsStep
  <2>7. QED
    BY <1>3, <2>1, <2>2, <2>3, <2>4, <2>5, <2>6 DEF Loop
<1>4. CASE Environment
  BY <1>4, SubmitStep, CancelStep, LeaseExpiresStep, StopStep DEF Environment
<1>5. CASE UNCHANGED schedVars
  BY <1>5, StutterStep
<1>6. QED
  BY <1>3, <1>4, <1>5 DEF SchedNext

\* The inductive invariant holds in every behaviour of the scheduler and its
\* submitters.
THEOREM SchedInvAlways == SchedSpec => []SchedInv
<1>1. SchedInit => SchedInv
  BY InitSched
<1>2. SchedInv /\ [SchedNext]_schedVars => SchedInv'
  BY SchedStep
<1>3. QED
  BY <1>1, <1>2, PTL DEF SchedSpec

\* The scheduler's variables have their types.
THEOREM SchedTypeCorrect == SchedSpec => []SchedTypeOK
<1>1. SchedInv => SchedTypeOK
  BY DEF SchedInv
<1>2. QED
  BY <1>1, SchedInvAlways, PTL

\* _try_preempt, _fail_job, _cleanup_finished and _inject_new_jobs neither lose
\* a block of the pool nor give it to two jobs.
THEOREM BlocksAccountedAlways == SchedSpec => []BlocksAccounted
<1>1. ASSUME SchedInv PROVE BlocksAccounted
  <2> DEFINE holders == ActiveJobs \cup overtaken
  <2>1. /\ inUse = {active[r].block : r \in Batch} \cup {j.block : j \in overtaken}
        /\ \A r, s \in Batch : active[r].block = active[s].block => r = s
        /\ \A r \in Batch, j \in overtaken : active[r].block # j.block
        /\ \A i, j \in overtaken : i.block = j.block => i = j
        /\ \A j \in Waiting : j.block = NoBlock
    BY <1>1 DEF SchedInv, BlockEach
  <2>2. \A j \in ActiveJobs : \E r \in Batch : j = active[r]
    BY DEF ActiveJobs
  <2>3. \A r \in Batch : active[r] \in ActiveJobs
    BY DEF ActiveJobs
  <2>4. {j.block : j \in holders} = {active[r].block : r \in Batch} \cup {j.block : j \in overtaken}
    <3>1. {j.block : j \in ActiveJobs} = {active[r].block : r \in Batch}
      BY <2>2, <2>3
    <3>2. {j.block : j \in holders} = {j.block : j \in ActiveJobs} \cup {j.block : j \in overtaken}
      OBVIOUS
    <3>3. QED
      BY <3>1, <3>2
  <2>5. \A i, j \in holders : i # j => i.block # j.block
    BY <2>1, <2>2
  <2>6. \A j \in Jobs(taken) \cup Jobs(internal) : j.block = NoBlock
    BY <2>1 DEF Waiting
  <2> HIDE DEF holders
  <2>7. QED
    BY <2>1, <2>4, <2>5, <2>6 DEF BlocksAccounted, holders
<1>2. QED
  BY <1>1, SchedInvAlways, PTL

\* kv_pos follows the job's history through preemptions: what a decode step feeds
\* is the token after the cached ones, and a prefill has tokens left to feed.
THEOREM CachePositionAlways == SchedSpec => []CachePosition
<1>1. ASSUME SchedInv PROVE CachePosition
  <2>1. \A r \in Batch : Counted(active[r]) /\ Positioned(active[r])
    BY <1>1 DEF SchedInv, Counts, Positions
  <2>2. \A j \in ActiveJobs : Counted(j) /\ Positioned(j)
    BY <2>1 DEF ActiveJobs
  <2>3. QED
    BY <2>2 DEF CachePosition, Counted, Positioned
<1>2. QED
  BY <1>1, SchedInvAlways, PTL

\* A submitter that still waits has its message in the queue or its object in the
\* loop's hands, unless a redelivered twin took the object's place.
THEOREM NoClientStrandedAlways == SchedSpec => []NoClientStranded
<1>1. ASSUME SchedInv PROVE NoClientStranded
  <2> SUFFICES ASSUME NEW r \in Requests, fut[r] = "waiting"
               PROVE  \/ r \in pending /\ r \in ready
                      \/ \E j \in ActiveJobs \cup Jobs(taken) \cup Jobs(internal) \cup overtaken :
                           j.client /\ j.id = r
    BY DEF NoClientStranded
  <2>1. r \in pending \cup ActiveClients \cup ClientIds(taken) \cup ClientIds(internal)
              \cup {j.id : j \in {i \in overtaken : i.client}}
    BY <1>1 DEF SchedInv, Remembered
  <2>2. r \in pending => r \in ready
    BY <1>1 DEF SchedInv, Messages
  <2>3. ASSUME r \in ActiveClients PROVE \E j \in ActiveJobs : j.client /\ j.id = r
    BY <1>1, <2>3 DEF ActiveClients, Clients, ActiveJobs, SchedInv, SchedTypeOK
  <2>4. QED
    BY <2>1, <2>2, <2>3 DEF ClientIds
<1>2. QED
  BY <1>1, SchedInvAlways, PTL

\* A job in the loop's hands, leased or active, has a message that is not settled.
THEOREM NoJobWithoutMessageAlways == SchedSpec => []NoJobWithoutMessage
<1>1. ASSUME SchedInv PROVE NoJobWithoutMessage
  <2>1. \A r \in Batch : active[r].id = r
    BY <1>1 DEF SchedInv, SchedTypeOK
  <2>2. QED
    BY <1>1, <2>1 DEF SchedInv, Messages, NoJobWithoutMessage, ActiveJobs
<1>2. QED
  BY <1>1, SchedInvAlways, PTL

\* max_tokens and max_preemptions_per_job hold over all the lives of a job, and an
\* answer holds no token its stream did not carry.
THEOREM OutputCappedAlways == SchedSpec => []OutputCapped
<1>1. ASSUME SchedInv PROVE OutputCapped
  <2>1. \A j \in ActiveJobs \cup Jobs(internal) : Counted(j)
    BY <1>1 DEF SchedInv, Counts, ActiveJobs, Waiting
  <2>2. CappedStreams
    BY <1>1 DEF SchedInv
  <2>3. QED
    BY <2>1, <2>2 DEF OutputCapped, Counted, CappedStreams
<1>2. QED
  BY <1>1, SchedInvAlways, PTL

-----------------------------------------------------------------------------
\* The scheduler implements RequestService.

\* A stream without a sentinel is open.
LEMMA OpenStream ==
  ASSUME SchedInv, NEW r \in Requests, Service!Dones(stream[r]) = 0
  PROVE  ~Service!Closed(stream[r])
<1>1. stream[r] \in Stream
  BY DEF SchedInv, SchedTypeOK, Stream
<1>2. QED
  BY <1>1, ClosedStream

\* A failure that is told to the submitters of jobs in service.
LEMMA FailJobsLives ==
  ASSUME SchedInv, NEW S, FailJobs(S), \A r \in S : r \in Requests => \E n : Served(r, n)
  PROVE  \A r \in Requests : Service!Life(r)
<1> SUFFICES ASSUME NEW r \in Requests PROVE Service!Life(r)
  OBVIOUS
<1>1. /\ fut'[r] = IF r \in S /\ fut[r] = "waiting" THEN "error" ELSE fut[r]
      /\ stream'[r] = IF r \in S THEN Append(stream[r], "DONE") ELSE stream[r]
  BY DEF FailJobs
<1>2. CASE r \notin S
  BY <1>1, <1>2 DEF Service!Life, Service!Keep
<1>3. CASE r \in S
  <2>1. /\ Service!Dones(stream[r]) = 0 /\ fut[r] \in {"waiting", "cancelled"}
        /\ ~Service!Closed(stream[r])
    BY <1>3, OpenStream DEF Served
  <2>2. CASE fut[r] = "waiting"
    BY <1>1, <1>3, <2>2 DEF Service!Life, Service!Resolve, Service!Answer
  <2>3. CASE fut[r] = "cancelled"
    BY <1>1, <1>3, <2>1, <2>3 DEF Service!Life, Service!Close, Service!Answer
  <2>4. QED
    BY <2>1, <2>2, <2>3
<1>4. QED
  BY <1>2, <1>3

\* A job in the batch serves its submitter.
LEMMA ActiveServed ==
  ASSUME SchedInv, NEW r \in ActiveClients, ~active[r].finished
  PROVE  r \in Requests /\ Served(r, active[r].total) /\ active[r].total < MaxTokens
<1>1. r \in Batch
  BY DEF ActiveClients, Clients
<1>2. QED
  BY <1>1 DEF SchedInv, SchedTypeOK, ActiveStreams, Counts, Counted

\* What each action does to a request is a step of the request's life.
LEMMA SubmitLives ==
  ASSUME SchedInv, NEW q \in Requests, Submit(q) \/ Cancel(q)
  PROVE  \A r \in Requests : Service!Life(r)
<1> SUFFICES ASSUME NEW r \in Requests PROVE Service!Life(r)
  OBVIOUS
<1>1. fut \in [Requests -> {"new", "waiting"} \cup Service!Answer]
  BY DEF SchedInv, SchedTypeOK
<1>2. stream' = stream
  BY DEF Submit, Cancel
<1>3. CASE r # q
  BY <1>1, <1>2, <1>3 DEF Submit, Cancel, Service!Life, Service!Keep
<1>4. CASE r = q /\ Submit(q)
  <2>1. fut[r] = "new" /\ fut'[r] = "waiting"
    BY <1>1, <1>4 DEF Submit
  <2>2. stream[r] = << >>
    BY <2>1 DEF SchedInv, NewStreams
  <2>3. QED
    BY <1>2, <2>1, <2>2 DEF Service!Life, Service!Submit
<1>5. CASE r = q /\ Cancel(q)
  BY <1>1, <1>2, <1>5 DEF Cancel, Service!Life, Service!Resolve, Service!Answer
<1>6. QED
  BY <1>3, <1>4, <1>5

\* The submitter of a job turned away gets an error for its answer, and then DONE.
LEMMA RejectLives ==
  ASSUME SchedInv, InjectRejected
  PROVE  \A r \in Requests : Service!Life(r)
<1> DEFINE S == {j.id : j \in {i \in {Head(taken)} : i.client}}
<1>1. FailJobs(S) /\ taken # << >> /\ taken \in Seq(Job)
  BY DEF InjectRejected, SchedInv, SchedTypeOK
<1>2. Head(taken) \in Waiting
  BY <1>1, JobsTail DEF Waiting
<1>3. \A r \in S : Served(r, Head(taken).total)
  BY <1>2 DEF SchedInv, WaitingStreams
<1> HIDE DEF S
<1>4. QED
  BY <1>1, <1>3, FailJobsLives

\* Tokens come before the answer only.
LEMMA TokensLives ==
  ASSUME SchedInv, NEW eos, ForwardTokens(eos)
  PROVE  \A r \in Requests : Service!Life(r)
<1> SUFFICES ASSUME NEW r \in Requests PROVE Service!Life(r)
  OBVIOUS
<1>1. /\ stage = "forward" /\ fut'[r] = fut[r]
      /\ stream'[r] = IF r \in DOMAIN fed /\ Emits(r) /\ active[r].client
                      THEN Append(stream[r], "token") ELSE stream[r]
  BY DEF ForwardTokens, ForwardEnds
<1>2. CASE ~ (r \in DOMAIN fed /\ Emits(r) /\ active[r].client)
  BY <1>1, <1>2 DEF Service!Life, Service!Keep
<1>3. CASE r \in DOMAIN fed /\ Emits(r) /\ active[r].client
  <2>1. r \in ActiveClients /\ ~active[r].finished
    BY <1>1, <1>3 DEF ActiveClients, Clients, SchedInv, SchedTypeOK, Phases
  <2>2. Served(r, active[r].total) /\ active[r].total < MaxTokens
    BY <2>1, ActiveServed
  <2>3. /\ fut[r] \in {"waiting", "cancelled"} /\ ~Service!Closed(stream[r])
        /\ Service!Tokens(stream[r]) < MaxTokens
    BY <2>2, OpenStream DEF Served
  <2>4. QED
    BY <1>1, <1>3, <2>3 DEF Service!Life, Service!Stream
<1>4. QED
  BY <1>2, <1>3

\* A whole text is the one answer.
LEMMA TextLives ==
  ASSUME SchedInv, ForwardText
  PROVE  \A r \in Requests : Service!Life(r)
<1> SUFFICES ASSUME NEW r \in Requests PROVE Service!Life(r)
  OBVIOUS
<1>1. /\ stream'[r] = stream[r]
      /\ \/ fut'[r] = fut[r]
         \/ fut[r] = "waiting" /\ fut'[r] = "result"
  BY DEF ForwardText
<1>2. QED
  BY <1>1 DEF Service!Life, Service!Keep, Service!Resolve, Service!Answer

\* The submitters of a failed batch get an error for their answer, and then DONE.
LEMMA FailsLives ==
  ASSUME SchedInv, ForwardFails
  PROVE  \A r \in Requests : Service!Life(r)
<1> DEFINE S == Clients(DOMAIN fed)
<1>1. FailJobs(S) /\ stage = "forward"
  BY DEF ForwardFails, ForwardEnds
<1>2. \A r \in S : r \in ActiveClients /\ ~active[r].finished
  BY <1>1 DEF ActiveClients, Clients, SchedInv, SchedTypeOK, Phases
<1>3. \A r \in S : Served(r, active[r].total)
  BY <1>2, ActiveServed
<1> HIDE DEF S
<1>4. QED
  BY <1>1, <1>3, FailJobsLives

\* A finished job gets its one answer, and then DONE.
LEMMA CleanupLives ==
  ASSUME SchedInv, Cleanup
  PROVE  \A r \in Requests : Service!Life(r)
<1> SUFFICES ASSUME NEW r \in Requests PROVE Service!Life(r)
  OBVIOUS
<1>1. /\ stream'[r] = IF r \in Own THEN Append(stream[r], "DONE") ELSE stream[r]
      /\ fut'[r] = IF r \in Own /\ fut[r] = "waiting" THEN "result" ELSE fut[r]
  BY CleanupProperties
<1>2. CASE r \notin Own
  BY <1>1, <1>2 DEF Service!Life, Service!Keep
<1>3. CASE r \in Own /\ fut[r] = "waiting"
  BY <1>1, <1>3 DEF Service!Life, Service!Resolve, Service!Answer
<1>4. CASE r \in Own /\ fut[r] # "waiting"
  <2>1. r \in ActiveClients
    BY <1>4 DEF Own, Done, ActiveClients, Clients
  <2>2. IF active[r].finished THEN Ended(r) ELSE Served(r, active[r].total)
    BY <2>1 DEF SchedInv, ActiveStreams
  <2>3. \/ Service!Dones(stream[r]) = 0 /\ fut[r] # "new"
        \/ Service!Dones(stream[r]) = 1 /\ fut[r] \in {"error", "cancelled"}
    BY <2>2 DEF Ended, Served
  <2>4. fut[r] \in Service!Answer
    BY <1>4, <2>3 DEF SchedInv, SchedTypeOK
  <2>5. Service!Closed(stream[r]) => Service!Dones(stream[r]) = 1 /\ fut[r] # "result"
    BY <2>3, OpenStream
  <2>6. QED
    BY <1>1, <1>4, <2>4, <2>5 DEF Service!Life, Service!Close
<1>5. QED
  BY <1>2, <1>3, <1>4

\* The other actions do not touch a submitter's future or stream.
LEMMA KeepLives ==
  ASSUME UNCHANGED <<fut, stream>>
  PROVE  \A r \in Requests : Service!Life(r)
BY DEF Service!Life, Service!Keep

\* Every step of the scheduler is a step in the life of each request.
LEMMA EveryStepLives ==
  ASSUME SchedInv, [SchedNext]_schedVars
  PROVE  \A r \in Requests : Service!Life(r)
<1>1. CASE Loop
  <2>1. CASE \/ Wake \/ StartLease \/ LeaseMessage \/ LeaseInternal \/ EndLease
             \/ EndInject \/ ExecuteStarts \/ ExecuteRaises
    <3>1. UNCHANGED <<fut, stream>>
      BY <2>1 DEF Wake, StartLease, LeaseMessage, LeaseInternal, EndLease, EndInject,
                  ExecuteStarts, ExecuteRaises, clientVars
    <3>2. QED
      BY <3>1, KeepLives
  <2>2. ASSUME NEW b, NEW v, NEW m, InjectFree(b, m) \/ InjectPreempting(v, m)
        PROVE  UNCHANGED <<fut, stream>>
    BY <2>2 DEF InjectFree, InjectPreempting, clientVars
  <2>3. CASE \/ \E b \in Blocks, m \in 0 .. Max(PromptLens) + MaxTokens : InjectFree(b, m)
             \/ \E v \in Requests, m \in 0 .. Max(PromptLens) + MaxTokens :
                  InjectPreempting(v, m)
    BY <2>2, <2>3, KeepLives
  <2>4. CASE Cleanup \/ InjectRejected \/ ForwardText \/ ForwardFails
    BY <2>4, CleanupLives, RejectLives, TextLives, FailsLives
  <2>5. CASE \E eos \in SUBSET Requests : ForwardTokens(eos)
    BY <2>5, TokensLives
  <2>6. QED
    BY <1>1, <2>1, <2>3, <2>4, <2>5 DEF Loop
<1>2. CASE Environment
  <2>1. CASE Stop \/ \E r \in Requests : LeaseExpires(r)
    <3>1. UNCHANGED <<fut, stream>>
      BY <2>1 DEF Stop, LeaseExpires, clientVars
    <3>2. QED
      BY <3>1, KeepLives
  <2>2. CASE \E r \in Requests : Submit(r) \/ Cancel(r)
    BY <2>2, SubmitLives
  <2>3. QED
    BY <1>2, <2>1, <2>2 DEF Environment
<1>3. CASE UNCHANGED schedVars
  BY <1>3, KeepLives DEF schedVars, clientVars
<1>4. QED
  BY <1>1, <1>2, <1>3 DEF SchedNext

\* The scheduler implements the service its submitters see: a future is resolved
\* once, no token follows DONE and DONE is not ahead of the answer.
THEOREM SchedulerServesRequests == SchedSpec => ServesRequests
<1>1. SchedInit => Service!Init
  BY DEF SchedInit
<1>2. SchedInv /\ [SchedNext]_schedVars => [Service!Next]_<<fut, stream>>
  <2> SUFFICES ASSUME SchedInv, [SchedNext]_schedVars PROVE Service!Next
    OBVIOUS
  <2>1. /\ fut' \in [Requests -> {"new", "waiting"} \cup Service!Answer]
        /\ DOMAIN stream' = Requests
    BY SchedStep DEF SchedInv, SchedTypeOK, Service!Answer
  <2>2. QED
    BY <2>1, EveryStepLives DEF Service!Next
<1>3. QED
  BY <1>1, <1>2, SchedInvAlways, PTL DEF SchedSpec, ServesRequests, Service!Spec
=============================================================================
