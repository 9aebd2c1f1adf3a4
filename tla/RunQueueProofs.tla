--------------------------- MODULE RunQueueProofs ---------------------------
(* What the operators of RunQueue return, for every queue.                 *)
EXTENDS RunQueue, FiniteSetTheorems, WellFoundedInduction, TLAPS

RunTimes == [AllTasks -> Nat]

\* A non-empty set of naturals has a least element.
LEMMA LeastNatural ==
    ASSUME NEW S \in SUBSET Nat, S # {}
    PROVE  \E n \in S : \A m \in S : n <= m
<1> DEFINE R == OpToRel(<, Nat)
<1>1. IsWellFoundedOn(R, Nat)
  BY NatLessThanWellFounded
<1>2. \E n \in S : \A m \in S : ~(<<m, n>> \in R)
  BY <1>1, WFMin, Zenon
<1>3. PICK n \in S : \A m \in S : ~(<<m, n>> \in R)
  BY <1>2
<1>4. \A m \in S : ~(m < n)
  BY <1>3 DEF OpToRel
<1> QED
  BY <1>4

\* insert_task_queue() always finds a place: the walk ends at the head of the
\* list at the latest.
LEMMA InsertPositionExists ==
    ASSUME NEW q \in Seq(Tasks), NEW v \in RunTimes, NEW tsk \in Tasks
    PROVE  IsInsertPosition(q, v, tsk, InsertPosition(q, v, tsk))
<1> DEFINE S == {i \in 1 .. Len(q) + 1 : i <= Len(q) => v[q[i]] >= v[tsk]}
<1>1. Len(q) + 1 \in S
  OBVIOUS
<1>2. PICK n \in S : \A m \in S : n <= m
  <2>1. S \in SUBSET Nat
    OBVIOUS
  <2> QED
    BY <1>1, <2>1, LeastNatural
<1>3. ASSUME NEW j \in 1 .. n - 1
      PROVE  v[q[j]] < v[tsk]
  <2>1. j \notin S
    BY <1>2
  <2>2. j \in 1 .. Len(q)
    BY <1>2
  <2>3. q[j] \in AllTasks /\ tsk \in AllTasks
    BY <2>2 DEF AllTasks
  <2>4. v[q[j]] \in Nat /\ v[tsk] \in Nat
    BY <2>3 DEF RunTimes
  <2> QED
    BY <2>1, <2>2, <2>4
<1>4. IsInsertPosition(q, v, tsk, n)
  BY <1>2, <1>3 DEF IsInsertPosition
<1> QED
  BY <1>2, <1>4 DEF InsertPosition

\* Inserting puts one entry in and keeps the others, in their order.
LEMMA InsertAtIsSequence ==
    ASSUME NEW q \in Seq(Tasks), NEW i \in 1 .. Len(q) + 1, NEW tsk \in Tasks
    PROVE  /\ InsertAt(q, i, tsk) \in Seq(Tasks)
           /\ Len(InsertAt(q, i, tsk)) = Len(q) + 1
           /\ DOMAIN InsertAt(q, i, tsk) = 1 .. Len(q) + 1
           /\ \A j \in 1 .. Len(q) + 1 :
                /\ j < i => InsertAt(q, i, tsk)[j] = q[j]
                /\ j = i => InsertAt(q, i, tsk)[j] = tsk
                /\ j > i => InsertAt(q, i, tsk)[j] = q[j - 1]
<1> DEFINE r == InsertAt(q, i, tsk)
<1>1. Len(q) \in Nat /\ Len(q) + 1 \in Nat
  OBVIOUS
<1>2. r = [j \in 1 .. Len(q) + 1 |->
            IF j < i THEN q[j] ELSE IF j = i THEN tsk ELSE q[j - 1]]
  BY DEF InsertAt
<1>3. \A j \in 1 .. Len(q) + 1 :
        (IF j < i THEN q[j] ELSE IF j = i THEN tsk ELSE q[j - 1]) \in Tasks
  BY <1>1
<1>4. r \in [1 .. Len(q) + 1 -> Tasks]
  BY <1>2, <1>3
<1>5. r \in Seq(Tasks) /\ Len(r) = Len(q) + 1
  BY <1>1, <1>4
<1> QED
  BY <1>2, <1>5

Entries(q) == {q[j] : j \in DOMAIN q}

Sorted(q, v) == \A i, j \in DOMAIN q : i < j => q[i] # q[j] /\ v[q[i]] <= v[q[j]]

\* Inserting at the place the walk stops at adds the task, and keeps the queue
\* sorted and without repetition.
LEMMA InsertSorted ==
    ASSUME NEW q \in Seq(Tasks), NEW v \in RunTimes, NEW tsk \in Tasks,
           NEW i, IsInsertPosition(q, v, tsk, i),
           Sorted(q, v), tsk \notin Entries(q),
           NEW p, p = InsertAt(q, i, tsk)
    PROVE  /\ p \in Seq(Tasks)
           /\ Len(p) = Len(q) + 1
           /\ Entries(p) = Entries(q) \cup {tsk}
           /\ Sorted(p, v)
<1>1. i \in 1 .. Len(q) + 1 /\ Len(q) \in Nat /\ DOMAIN q = 1 .. Len(q)
  BY DEF IsInsertPosition
<1>2. p \in Seq(Tasks) /\ Len(p) = Len(q) + 1 /\ DOMAIN p = 1 .. Len(q) + 1
  BY <1>1, InsertAtIsSequence
<1>3. \A j \in 1 .. Len(q) + 1 : /\ j < i => p[j] = q[j]
                                 /\ j = i => p[j] = tsk
                                 /\ j > i => p[j] = q[j - 1]
  BY <1>1, InsertAtIsSequence
<1>4. Entries(p) = Entries(q) \cup {tsk}
  <2>1. ASSUME NEW j \in 1 .. Len(q) + 1 PROVE p[j] \in Entries(q) \cup {tsk}
    <3>1. CASE j < i
      BY <1>1, <1>3, <3>1 DEF Entries
    <3>2. CASE j = i
      BY <1>3, <3>2
    <3>3. CASE j > i
      <4>1. p[j] = q[j - 1] /\ j - 1 \in DOMAIN q
        BY <1>1, <1>3, <3>3
      <4> QED
        BY <4>1 DEF Entries
    <3> QED
      BY <1>1, <3>1, <3>2, <3>3
  <2>2. tsk \in Entries(p)
    <3>1. i \in DOMAIN p /\ p[i] = tsk
      BY <1>1, <1>2, <1>3
    <3> QED
      BY <3>1 DEF Entries
  <2>3. ASSUME NEW k \in 1 .. Len(q) PROVE q[k] \in Entries(p)
    <3>1. CASE k < i
      <4>1. k \in DOMAIN p /\ p[k] = q[k]
        BY <1>1, <1>2, <1>3, <3>1
      <4> QED
        BY <4>1 DEF Entries
    <3>2. CASE ~(k < i)
      <4>1. k + 1 \in 1 .. Len(q) + 1 /\ k + 1 > i /\ (k + 1) - 1 = k
        BY <1>1, <3>2
      <4>2. p[k + 1] = q[k]
        BY <1>3, <4>1
      <4> QED
        BY <1>2, <4>1, <4>2 DEF Entries
    <3> QED
      BY <3>1, <3>2
  <2> QED
    BY <1>1, <1>2, <2>1, <2>2, <2>3 DEF Entries
<1>5. Sorted(p, v)
  <2>1. \A j, k \in 1 .. Len(q) : j < k => q[j] # q[k] /\ v[q[j]] <= v[q[k]]
    BY <1>1 DEF Sorted
  <2>2. \A j \in 1 .. Len(q) : q[j] # tsk /\ q[j] \in Tasks
    BY <1>1 DEF Entries
  <2>3. \A t \in Tasks : v[t] \in Nat
    BY DEF RunTimes, AllTasks
  <2>4. \A j \in 1 .. i - 1 : v[q[j]] < v[tsk]
    BY DEF IsInsertPosition
  <2>5. ASSUME NEW j \in 1 .. Len(q), i <= j PROVE v[q[j]] >= v[tsk]
    <3>1. i \in 1 .. Len(q)
      BY <1>1, <2>5
    <3>2. v[q[i]] >= v[tsk]
      BY <1>1, <3>1 DEF IsInsertPosition
    <3>3. v[q[i]] <= v[q[j]]
      <4>1. CASE i = j
        BY <2>2, <2>3, <3>1, <4>1
      <4>2. CASE i < j
        BY <2>1, <3>1, <4>2
      <4> QED
        BY <1>1, <2>5, <4>1, <4>2
    <3>4. v[q[i]] \in Nat /\ v[q[j]] \in Nat /\ v[tsk] \in Nat
      BY <2>2, <2>3, <3>1
    <3> QED
      BY <3>2, <3>3, <3>4
  <2>6. ASSUME NEW j \in 1 .. Len(q) + 1, NEW k \in 1 .. Len(q) + 1, j < k
        PROVE  p[j] # p[k] /\ v[p[j]] <= v[p[k]]
    <3>1. CASE k < i
      <4>1. p[j] = q[j] /\ p[k] = q[k] /\ j \in 1 .. Len(q) /\ k \in 1 .. Len(q)
        BY <1>1, <1>3, <2>6, <3>1
      <4> QED
        BY <2>1, <2>6, <4>1
    <3>2. CASE k = i
      <4>1. p[j] = q[j] /\ p[k] = tsk /\ j \in 1 .. Len(q) /\ j \in 1 .. i - 1
        BY <1>1, <1>3, <2>6, <3>2
      <4> QED
        BY <2>2, <2>3, <2>4, <4>1
    <3>3. CASE k > i /\ j < i
      <4>1. p[j] = q[j] /\ p[k] = q[k - 1]
        BY <1>3, <3>3
      <4>2. k - 1 \in 1 .. Len(q) /\ j \in 1 .. Len(q) /\ j < k - 1
        BY <1>1, <3>3
      <4> QED
        BY <2>1, <4>1, <4>2
    <3>4. CASE k > i /\ j = i
      <4>1. p[j] = tsk /\ p[k] = q[k - 1]
        BY <1>3, <3>4
      <4>2. k - 1 \in 1 .. Len(q) /\ i <= k - 1
        BY <1>1, <3>4
      <4>3. v[q[k - 1]] >= v[tsk]
        BY <2>5, <4>2
      <4> QED
        BY <2>2, <2>3, <4>1, <4>2, <4>3
    <3>5. CASE j > i
      <4>1. k > i
        BY <1>1, <2>6, <3>5
      <4>2. p[j] = q[j - 1] /\ p[k] = q[k - 1]
        BY <1>3, <3>5, <4>1
      <4>3. k - 1 \in 1 .. Len(q) /\ j - 1 \in 1 .. Len(q) /\ j - 1 < k - 1
        BY <1>1, <2>6, <3>5
      <4> QED
        BY <2>1, <4>2, <4>3
    <3> QED
      BY <1>1, <2>6, <3>1, <3>2, <3>3, <3>4, <3>5
  <2> QED
    BY <1>2, <2>6 DEF Sorted
<1> QED
  BY <1>2, <1>4, <1>5

LEMMA WellFormedIsSorted ==
    ASSUME NEW ts, NEW v, NEW n
    PROVE  WellFormed(ts, v, n) <=> /\ Sorted(ts.task_queue, v)
                                    /\ ts.running_task_count + n = Len(ts.task_queue) + 1
BY DEF WellFormed, Sorted

\* Linking a task adds it to the queue, which is one longer than it was, and
\* leaves the count as it is.
LEMMA Enqueue ==
    ASSUME NEW ts \in ScheduleType, NEW v \in RunTimes, NEW tsk \in Tasks, NEW n \in Int,
           WellFormed(ts, v, n), tsk \notin Queued(ts),
           NEW r, r = enqueue(ts, v, tsk)
    PROVE  /\ r \in ScheduleType
           /\ WellFormed(r, v, n + 1)
           /\ Queued(r) = Queued(ts) \cup {tsk}
<1>1. ts.task_queue \in Seq(Tasks)
  BY DEF ScheduleType
<1>2. PICK p : p = InsertAt(ts.task_queue, InsertPosition(ts.task_queue, v, tsk), tsk)
  OBVIOUS
<1>3. IsInsertPosition(ts.task_queue, v, tsk, InsertPosition(ts.task_queue, v, tsk))
  BY <1>1, InsertPositionExists
<1>4. Sorted(ts.task_queue, v) /\ ts.running_task_count + n = Len(ts.task_queue) + 1
  BY WellFormedIsSorted
<1>5. tsk \notin Entries(ts.task_queue)
  BY DEF Entries, Queued
<1>6. /\ p \in Seq(Tasks)
      /\ Len(p) = Len(ts.task_queue) + 1
      /\ Entries(p) = Entries(ts.task_queue) \cup {tsk}
      /\ Sorted(p, v)
  BY <1>1, <1>2, <1>3, <1>4, <1>5, InsertSorted
<1>7. r = [ts EXCEPT !.task_queue = p]
  BY <1>2 DEF enqueue
<1>8. /\ r.task_queue = p
      /\ r.running_task_count = ts.running_task_count
      /\ ts.running_task_count \in Int
      /\ r \in ScheduleType
  BY <1>6, <1>7 DEF ScheduleType
<1>9. WellFormed(r, v, n + 1)
  <2>1. r.running_task_count + (n + 1) = Len(r.task_queue) + 1
    BY <1>1, <1>4, <1>6, <1>8
  <2> QED
    BY <1>6, <1>8, <2>1, WellFormedIsSorted
<1>10. Queued(r) = Queued(ts) \cup {tsk}
  BY <1>6, <1>8 DEF Queued, Entries
<1> QED
  BY <1>8, <1>9, <1>10

\* Counting one more makes up for one that was linked and not counted.
LEMMA CountUp ==
    ASSUME NEW ts \in ScheduleType, NEW v, NEW n \in Int, WellFormed(ts, v, n + 1),
           NEW r, r = count_up(ts)
    PROVE  /\ r \in ScheduleType
           /\ WellFormed(r, v, n)
           /\ Queued(r) = Queued(ts)
<1>1. /\ r.task_queue = ts.task_queue
      /\ r.running_task_count = ts.running_task_count + 1
      /\ ts.running_task_count \in Int /\ Len(ts.task_queue) \in Nat
      /\ r \in ScheduleType
  BY DEF count_up, ScheduleType
<1>2. ts.running_task_count + (n + 1) = Len(ts.task_queue) + 1
  BY DEF WellFormed
<1>3. r.running_task_count + n = Len(r.task_queue) + 1
  BY <1>1, <1>2
<1> QED
  BY <1>1, <1>3 DEF WellFormed, Queued

\* insert_task_queue() keeps the queue well formed and adds the task to it,
\* unless that is the boot task.
LEMMA InsertTaskQueue ==
    ASSUME NEW ts \in ScheduleType, NEW v \in RunTimes, NEW tsk \in AllTasks, NEW n \in Int,
           WellFormed(ts, v, n), tsk \notin Queued(ts),
           NEW r, r = insert_task_queue(ts, v, tsk)
    PROVE  /\ r \in ScheduleType
           /\ WellFormed(r, v, n)
           /\ Queued(r) = Queued(ts) \cup ({tsk} \ {InitTask})
<1>1. CASE tsk = InitTask
  BY <1>1 DEF insert_task_queue
<1>2. CASE tsk # InitTask
  <2>1. tsk \in Tasks
    BY <1>2 DEF AllTasks
  <2>2. PICK e : e = enqueue(ts, v, tsk)
    OBVIOUS
  <2>3. e \in ScheduleType /\ WellFormed(e, v, n + 1) /\ Queued(e) = Queued(ts) \cup {tsk}
    BY <2>1, <2>2, Enqueue
  <2>4. r = count_up(e)
    BY <1>2, <2>2 DEF insert_task_queue
  <2> QED
    BY <1>2, <2>3, <2>4, CountUp
<1> QED
  BY <1>1, <1>2

\* Only the run times of queued tasks matter to the queue.
LEMMA WellFormedOnQueued ==
    ASSUME NEW ts, NEW rs, NEW v, NEW w, NEW n, WellFormed(ts, v, n),
           rs.task_queue = ts.task_queue,
           rs.running_task_count = ts.running_task_count,
           \A u \in Queued(ts) : w[u] = v[u]
    PROVE  WellFormed(rs, w, n) /\ Queued(rs) = Queued(ts)
<1>1. \A i \in DOMAIN ts.task_queue : w[ts.task_queue[i]] = v[ts.task_queue[i]]
  BY DEF Queued
<1> QED
  BY <1>1 DEF WellFormed, Queued

\* Dividing 4 by a count gives an integer, whatever the count.
LEMMA ShareOf4 ==
    ASSUME NEW count \in Int
    PROVE  share_of_4(count) \in Int
<1>1. CASE count > 0
  BY <1>1 DEF share_of_4
<1>2. CASE count < 0
  <2>1. 0 - count \in Int /\ 0 - count > 0 /\ ~(count > 0)
    BY <1>2
  <2>2. 4 \div (0 - count) \in Int
    BY <2>1
  <2> QED
    BY <1>2, <2>1, <2>2 DEF share_of_4
<1>3. CASE count = 0
  BY <1>3 DEF share_of_4
<1> QED
  BY <1>1, <1>2, <1>3

\* load_slice() changes the time slice only.
LEMMA LoadSlice ==
    ASSUME NEW ts \in ScheduleType, NEW v, NEW n \in Int, WellFormed(ts, v, n),
           NEW r, r = load_slice(ts)
    PROVE  r \in ScheduleType /\ WellFormed(r, v, n) /\ Queued(r) = Queued(ts)
<1>1. /\ ts.task_queue \in Seq(Tasks) /\ Len(ts.task_queue) \in Nat
      /\ ts.running_task_count \in Int
  BY DEF ScheduleType
<1>2. share_of_4(ts.running_task_count) * 3 \in Int
  <2>1. share_of_4(ts.running_task_count) \in Int
    BY <1>1, ShareOf4, Zenon
  <2> QED
    BY <2>1
<1>3. r \in ScheduleType
  BY <1>2 DEF load_slice, ScheduleType
<1>4. r.task_queue = ts.task_queue /\ r.running_task_count = ts.running_task_count
  BY DEF load_slice, ScheduleType
<1> QED
  BY <1>3, <1>4 DEF WellFormed, Queued

\* get_next_task() takes the head of the queue off it.
LEMMA GetNextTask ==
    ASSUME NEW ts \in ScheduleType, NEW v, NEW n \in Int, WellFormed(ts, v, n),
           NEW r, r = get_next_task(ts)
    PROVE  /\ r \in ScheduleType
           /\ WellFormed(r, v, n)
           /\ next_task(ts) \in AllTasks
           /\ next_task(ts) \notin Queued(r)
           /\ Queued(ts) \cup {InitTask} = Queued(r) \cup {next_task(ts), InitTask}
           /\ next_task(ts) \in Queued(ts) \cup {InitTask}
<1> DEFINE q == ts.task_queue
<1>1. q \in Seq(Tasks) /\ ts.running_task_count + n = Len(q) + 1 /\ ts.running_task_count \in Int
  BY DEF ScheduleType, WellFormed
<1>2. CASE q = <<>>
  <2>1. r = ts /\ next_task(ts) = InitTask
    BY <1>2 DEF get_next_task, next_task
  <2>2. Queued(ts) = {}
    BY <1>2 DEF Queued
  <2> QED
    BY <2>1, <2>2 DEF AllTasks
<1>3. CASE q # <<>>
  <2>1. /\ next_task(ts) = q[1]
        /\ Len(q) \in Nat /\ Len(q) >= 1
        /\ Tail(q) \in Seq(Tasks) /\ Len(Tail(q)) = Len(q) - 1
        /\ \A j \in 1 .. Len(q) - 1 : Tail(q)[j] = q[j + 1]
    BY <1>1, <1>3 DEF next_task
  <2>2. r = [ts EXCEPT !.task_queue = Tail(@), !.running_task_count = @ - 1]
    BY <1>3 DEF get_next_task
  <2>3. /\ r.task_queue = Tail(q)
        /\ r.running_task_count = ts.running_task_count - 1
        /\ r \in ScheduleType
    <3>1. DOMAIN ts = {"task_queue", "running_task_count", "CPU_exec_task_jiffies"}
      BY DEF ScheduleType
    <3>2. r.task_queue = Tail(q)
      BY <2>2, <3>1
    <3>3. r.running_task_count = ts.running_task_count - 1
      BY <2>2, <3>1
    <3>4. r.CPU_exec_task_jiffies = ts.CPU_exec_task_jiffies /\ ts.CPU_exec_task_jiffies \in Int
      BY <2>2, <3>1 DEF ScheduleType
    <3>5. r = [task_queue |-> r.task_queue,
               running_task_count |-> r.running_task_count,
               CPU_exec_task_jiffies |-> r.CPU_exec_task_jiffies]
      BY <2>2, <3>1
    <3>6. Tail(q) \in Seq(Tasks) /\ ts.running_task_count - 1 \in Int
      BY <1>1, <2>1
    <3>7. r \in ScheduleType
      BY <3>2, <3>3, <3>4, <3>5, <3>6 DEF ScheduleType
    <3> QED
      BY <3>2, <3>3, <3>7
  <2>4. \A i, j \in 1 .. Len(q) : i < j => q[i] # q[j] /\ v[q[i]] <= v[q[j]]
    BY <1>1 DEF WellFormed
  <2>5. \A j \in 1 .. Len(q) - 1 : j + 1 \in 1 .. Len(q) /\ q[j + 1] # q[1]
    BY <2>1, <2>4
  <2>6. WellFormed(r, v, n)
    <3>1. ASSUME NEW i \in 1 .. Len(q) - 1, NEW j \in 1 .. Len(q) - 1, i < j
          PROVE  Tail(q)[i] # Tail(q)[j] /\ v[Tail(q)[i]] <= v[Tail(q)[j]]
      <4>1. Tail(q)[i] = q[i + 1] /\ Tail(q)[j] = q[j + 1]
        BY <2>1
      <4>2. i + 1 \in 1 .. Len(q) /\ j + 1 \in 1 .. Len(q) /\ i + 1 < j + 1
        BY <2>1, <3>1
      <4> QED
        BY <2>4, <4>1, <4>2
    <3>2. DOMAIN Tail(q) = 1 .. Len(q) - 1
      BY <2>1
    <3>3. Sorted(r.task_queue, v)
      <4>1. Sorted(Tail(q), v)
        BY <3>1, <3>2, Zenon DEF Sorted
      <4>2. r.task_queue = Tail(q)
        BY <2>3
      <4> QED
        BY <4>1, <4>2
    <3>4. r.running_task_count + n = Len(r.task_queue) + 1
      BY <1>1, <2>1, <2>3
    <3> QED
      BY <3>3, <3>4, WellFormedIsSorted
  <2>7. Queued(ts) = Queued(r) \cup {q[1]} /\ q[1] \notin Queued(r)
    <3>1. Queued(r) = {Tail(q)[j] : j \in 1 .. Len(q) - 1}
      <4>1. DOMAIN Tail(q) = 1 .. Len(q) - 1
        BY <2>1
      <4> QED
        BY <2>3, <4>1 DEF Queued
    <3>2. Queued(ts) = {q[j] : j \in 1 .. Len(q)}
      BY <1>1 DEF Queued
    <3>3. q[1] \notin Queued(r)
      BY <2>1, <2>5, <3>1
    <3>4. ASSUME NEW j \in 1 .. Len(q) PROVE q[j] \in Queued(r) \cup {q[1]}
      <4>1. CASE j = 1
        BY <4>1
      <4>2. CASE j # 1
        <5>1. j - 1 \in 1 .. Len(q) - 1 /\ (j - 1) + 1 = j
          BY <2>1, <4>2
        <5>2. Tail(q)[j - 1] = q[j]
          BY <2>1, <5>1
        <5> QED
          BY <3>1, <5>1, <5>2
      <4> QED
        BY <4>1, <4>2
    <3>5. ASSUME NEW j \in 1 .. Len(q) - 1 PROVE Tail(q)[j] \in Queued(ts)
      BY <2>1, <2>5, <3>2
    <3>6. q[1] \in Queued(ts)
      BY <2>1, <3>2
    <3> QED
      BY <3>1, <3>2, <3>3, <3>4, <3>5, <3>6
  <2>8. q[1] \in Tasks
    BY <1>1, <2>1
  <2> QED
    BY <2>1, <2>3, <2>6, <2>7, <2>8 DEF AllTasks
<1> QED
  BY <1>2, <1>3

\* schedule() keeps the queue well formed and loses nobody: the task on the CPU
\* and those in the queue are, but for the boot task, what they were before,
\* less the caller when it is not runnable any more.
LEMMA ScheduleKeeps ==
    ASSUME NEW ts \in ScheduleType, NEW v \in RunTimes, NEW st, NEW n \in Int,
           current \in AllTasks, WellFormed(ts, v, n), current \notin Queued(ts),
           schedule(ts, st, v)
    PROVE  /\ current' \in AllTasks
           /\ task_schedule' \in ScheduleType
           /\ WellFormed(task_schedule', v, n)
           /\ current' \notin Queued(task_schedule')
           /\ current' \in Queued(ts) \cup {InitTask}
                \/ (current' = current /\ st[current] = RUNNING)
           /\ Queued(task_schedule') \cup {current', InitTask}
                = Queued(ts) \cup {InitTask}
                    \cup (IF st[current] = RUNNING THEN {current} ELSE {})
<1>1. PICK rest : rest = load_slice(get_next_task(ts))
  OBVIOUS
<1>2. PICK tsk : tsk = next_task(ts)
  OBVIOUS
<1>3. /\ rest \in ScheduleType
      /\ WellFormed(rest, v, n)
      /\ tsk \in AllTasks
      /\ tsk \notin Queued(rest)
      /\ Queued(ts) \cup {InitTask} = Queued(rest) \cup {tsk, InitTask}
      /\ tsk \in Queued(ts) \cup {InitTask}
  <2>1. PICK taken : taken = get_next_task(ts)
    OBVIOUS
  <2>2. /\ taken \in ScheduleType
        /\ WellFormed(taken, v, n)
        /\ next_task(ts) \in AllTasks
        /\ next_task(ts) \notin Queued(taken)
        /\ Queued(ts) \cup {InitTask} = Queued(taken) \cup {next_task(ts), InitTask}
        /\ next_task(ts) \in Queued(ts) \cup {InitTask}
    BY <2>1, GetNextTask
  <2>3. rest \in ScheduleType /\ WellFormed(rest, v, n) /\ Queued(rest) = Queued(taken)
    BY <1>1, <2>1, <2>2, LoadSlice
  <2> QED
    BY <1>2, <2>2, <2>3
<1>4. InitTask \notin Queued(rest)
  <2>1. \A j \in DOMAIN rest.task_queue : rest.task_queue[j] \in Tasks
    BY <1>3 DEF ScheduleType
  <2> QED
    BY <2>1, InitTaskAssumption DEF Queued
<1>5. current \notin Queued(rest)
  BY <1>3, <1>4
<1>6. CASE (v[current] >= v[tsk] \/ st[current] # RUNNING) /\ st[current] = RUNNING
  <2>1. current' = tsk /\ task_schedule' = insert_task_queue(rest, v, current)
    BY <1>1, <1>2, <1>6 DEF schedule
  <2>2. /\ task_schedule' \in ScheduleType
        /\ WellFormed(task_schedule', v, n)
        /\ Queued(task_schedule') = Queued(rest) \cup ({current} \ {InitTask})
    BY <1>3, <1>5, <2>1, InsertTaskQueue
  <2>3. current # tsk \/ tsk = InitTask
    BY <1>3
  <2> QED
    BY <1>3, <1>6, <2>1, <2>2, <2>3
<1>7. CASE (v[current] >= v[tsk] \/ st[current] # RUNNING) /\ st[current] # RUNNING
  <2>1. current' = tsk /\ task_schedule' = rest
    BY <1>1, <1>2, <1>7 DEF schedule
  <2> QED
    BY <1>3, <1>7, <2>1
<1>8. CASE ~(v[current] >= v[tsk] \/ st[current] # RUNNING)
  <2>1. current' = current /\ task_schedule' = insert_task_queue(rest, v, tsk)
    BY <1>1, <1>2, <1>8 DEF schedule
  <2>2. /\ task_schedule' \in ScheduleType
        /\ WellFormed(task_schedule', v, n)
        /\ Queued(task_schedule') = Queued(rest) \cup ({tsk} \ {InitTask})
    BY <1>3, <2>1, InsertTaskQueue
  <2>3. current # tsk
    BY <1>3, <1>8 DEF RunTimes
  <2> QED
    BY <1>3, <1>5, <1>8, <2>1, <2>2, <2>3
<1> QED
  BY <1>6, <1>7, <1>8

\* schedule() gives the CPU to the task that has run least, when the queue is
\* not empty and the boot task, if it is the caller, has run at least as long.
LEMMA ScheduleMinimal ==
    ASSUME NEW ts \in ScheduleType, NEW v \in RunTimes, NEW st, NEW n \in Int,
           current \in AllTasks, WellFormed(ts, v, n), ts.task_queue # <<>>,
           st[current] = RUNNING,
           current = InitTask => \A u \in Queued(ts) : v[u] <= v[current],
           schedule(ts, st, v)
    PROVE  /\ current' \in Tasks
           /\ \A u \in Queued(ts) \cup ({current} \ {InitTask}) : v[current'] <= v[u]
<1> DEFINE q == ts.task_queue
<1>1. q \in Seq(Tasks) /\ Len(q) \in Nat /\ Len(q) >= 1 /\ next_task(ts) = q[1]
  BY DEF ScheduleType, next_task
<1>2. q[1] \in Tasks /\ q[1] \in Queued(ts)
  BY <1>1 DEF Queued
<1>3. \A t \in AllTasks : v[t] \in Nat
  BY DEF RunTimes
<1>4. ASSUME NEW u \in Queued(ts) PROVE u \in Tasks /\ v[q[1]] <= v[u]
  <2>1. PICK j \in 1 .. Len(q) : u = q[j]
    BY <1>1 DEF Queued
  <2>2. q[j] \in Tasks /\ v[q[j]] \in Nat /\ v[q[1]] \in Nat
    BY <1>1, <1>2, <1>3 DEF AllTasks
  <2>3. CASE j = 1
    BY <2>1, <2>2, <2>3
  <2>4. CASE j # 1
    <3>1. 1 \in DOMAIN q /\ j \in DOMAIN q /\ 1 < j
      BY <1>1, <2>4
    <3> QED
      BY <2>1, <2>2, <3>1 DEF WellFormed
  <2> QED
    BY <2>3, <2>4
<1>5. v[q[1]] \in Nat /\ v[current] \in Nat
  BY <1>2, <1>3 DEF AllTasks
<1>6. CASE v[current] >= v[q[1]]
  <2>1. current' = q[1]
    BY <1>1, <1>6 DEF schedule
  <2> QED
    BY <1>2, <1>4, <1>5, <1>6, <2>1
<1>7. CASE ~(v[current] >= v[q[1]])
  <2>1. current' = current
    BY <1>1, <1>7 DEF schedule
  <2>2. current # InitTask
    BY <1>2, <1>5, <1>7
  <2>3. ASSUME NEW u \in Queued(ts) PROVE v[current] <= v[u]
    <3>1. v[u] \in Nat /\ v[q[1]] <= v[u]
      BY <1>3, <1>4 DEF AllTasks
    <3> QED
      BY <1>5, <1>7, <3>1
  <2> QED
    BY <1>5, <2>1, <2>2, <2>3 DEF AllTasks
<1> QED
  BY <1>6, <1>7

=============================================================================
