-------------------------- MODULE SchedulerProofs --------------------------
(***************************************************************************)
(* What the queues of Scheduler keep: lemmas on the lists the kernel       *)
(* builds them from (append, pop, unlink), and on the steps that every     *)
(* component over Scheduler shares (run(), suspend, wakeup_fromwq).        *)
(***************************************************************************)
EXTENDS Scheduler, SequenceTheorems, FiniteSetTheorems, WellFoundedInduction,
        TLAPS

(* No task is linked twice. *)
Once(s) == \A i, j \in 1..Len(s) : s[i] = s[j] => i = j

LEMMA MinProperty ==
  ASSUME NEW S, S \subseteq Nat, S # {}
  PROVE  Min(S) \in S /\ \A y \in S : Min(S) <= y
<1> DEFINE Less == {p \in Nat \X Nat : p[1] < p[2]}
<1>1. IsWellFoundedOn(Less, Nat)
  BY NatLessThanWellFounded DEF OpToRel
<1> HIDE DEF Less
<1>2. PICK x \in S : \A y \in S : ~(<<y, x>> \in Less)
  BY <1>1, WFMin
<1>3. \A y \in S : x <= y
  <2> SUFFICES ASSUME NEW y \in S, ~(x <= y) PROVE FALSE
    OBVIOUS
  <2>1. x \in Nat /\ y \in Nat /\ y < x
    OBVIOUS
  <2>2. <<y, x>> \in Less
    BY <2>1 DEF Less
  <2> QED
    BY <1>2, <2>2
<1> QED
  BY <1>3 DEF Min

LEMMA ToSetOf ==
  ASSUME NEW S, NEW s \in Seq(S)
  PROVE  /\ ToSet(s) = {s[i] : i \in 1..Len(s)}
         /\ ToSet(s) \subseteq S
         /\ Len(s) \in Nat
BY DEF ToSet

LEMMA AppendLinks ==
  ASSUME NEW S, NEW s \in Seq(S), NEW e \in S
  PROVE  /\ Append(s, e) \in Seq(S)
         /\ ToSet(Append(s, e)) = ToSet(s) \cup {e}
         /\ Once(s) /\ e \notin ToSet(s) => Once(Append(s, e))
<1>1. Append(s, e) \in Seq(S)
  OBVIOUS
<1>2. /\ Len(Append(s, e)) = Len(s) + 1 /\ Len(s) \in Nat
      /\ \A i \in 1..Len(s) : Append(s, e)[i] = s[i]
      /\ Append(s, e)[Len(s) + 1] = e
  OBVIOUS
<1>3. ToSet(Append(s, e)) = ToSet(s) \cup {e}
  <2>1. 1..Len(s) + 1 = 1..Len(s) \cup {Len(s) + 1}
    BY <1>2
  <2>2. /\ ToSet(s) = {s[i] : i \in 1..Len(s)}
        /\ ToSet(Append(s, e)) = {Append(s, e)[i] : i \in 1..Len(s) + 1}
    BY <1>1, <1>2, ToSetOf
  <2>3. ToSet(Append(s, e)) \subseteq ToSet(s) \cup {e}
    BY <1>2, <2>1, <2>2
  <2>4. ToSet(s) \cup {e} \subseteq ToSet(Append(s, e))
    BY <1>2, <2>1, <2>2
  <2> QED
    BY <2>3, <2>4
<1> QED
  BY <1>1, <1>2, <1>3, ToSetOf DEF Once

LEMMA TailLinks ==
  ASSUME NEW S, NEW s \in Seq(S), s # <<>>
  PROVE  /\ Head(s) \in ToSet(s) /\ Head(s) \in S
         /\ Tail(s) \in Seq(S)
         /\ ToSet(Tail(s)) \subseteq ToSet(s)
         /\ ToSet(s) = ToSet(Tail(s)) \cup {Head(s)}
         /\ Once(s) => Once(Tail(s)) /\ Head(s) \notin ToSet(Tail(s))
<1>1. /\ Len(s) \in Nat \ {0} /\ Head(s) = s[1] /\ Tail(s) \in Seq(S)
      /\ Len(Tail(s)) = Len(s) - 1
      /\ \A i \in 1..Len(Tail(s)) : Tail(s)[i] = s[i + 1]
  OBVIOUS
<1>2. ToSet(s) = {s[i] : i \in 1..Len(s)}
      /\ ToSet(Tail(s)) = {Tail(s)[i] : i \in 1..Len(Tail(s))}
  BY <1>1, ToSetOf
<1>3. \A i \in 1..Len(s) : i = 1 \/ (i - 1 \in 1..Len(Tail(s)) /\ Tail(s)[i - 1] = s[i])
  BY <1>1
<1>4. \A i \in 1..Len(Tail(s)) : i + 1 \in 1..Len(s) /\ i + 1 # 1
  BY <1>1
<1>5. Head(s) \in ToSet(s) /\ Head(s) \in S
  BY <1>1, <1>2
<1>6. ToSet(Tail(s)) \subseteq ToSet(s)
  BY <1>1, <1>2, <1>4
<1>7. ToSet(s) = ToSet(Tail(s)) \cup {Head(s)}
  <2>1. ASSUME NEW e \in ToSet(s) PROVE e \in ToSet(Tail(s)) \cup {Head(s)}
    <3>1. PICK i \in 1..Len(s) : e = s[i]
      BY <1>2
    <3>2. CASE i # 1
      <4>1. i - 1 \in 1..Len(Tail(s)) /\ Tail(s)[i - 1] = e
        BY <1>3, <3>1, <3>2
      <4> QED
        BY <1>2, <4>1
    <3> QED
      BY <1>1, <3>1, <3>2
  <2> QED
    BY <1>5, <1>6, <2>1
<1>8. ASSUME Once(s) PROVE Once(Tail(s)) /\ Head(s) \notin ToSet(Tail(s))
  <2>1. Once(Tail(s))
    BY <1>1, <1>4, <1>8 DEF Once
  <2>2. 1 \in 1..Len(s)
    BY <1>1
  <2>3. Head(s) \notin ToSet(Tail(s))
    BY <1>1, <1>2, <1>4, <1>8, <2>2 DEF Once
  <2> QED
    BY <2>1, <2>3
<1> QED
  BY <1>1, <1>5, <1>6, <1>7, <1>8

LEMMA ConcatLinks ==
  ASSUME NEW S, NEW s \in Seq(S), NEW u \in Seq(S)
  PROVE  /\ s \o u \in Seq(S)
         /\ ToSet(s \o u) = ToSet(s) \cup ToSet(u)
         /\ Once(s) /\ Once(u) /\ ToSet(s) \cap ToSet(u) = {} => Once(s \o u)
<1>1. /\ s \o u \in Seq(S) /\ Len(s \o u) = Len(s) + Len(u)
      /\ Len(s) \in Nat /\ Len(u) \in Nat
      /\ \A i \in 1..Len(s) + Len(u) :
            (s \o u)[i] = IF i <= Len(s) THEN s[i] ELSE u[i - Len(s)]
  BY ConcatProperties, LenProperties
<1>2. /\ ToSet(s) = {s[i] : i \in 1..Len(s)}
      /\ ToSet(u) = {u[i] : i \in 1..Len(u)}
      /\ ToSet(s \o u) = {(s \o u)[i] : i \in 1..Len(s) + Len(u)}
  BY <1>1, ToSetOf
<1>3. \A i \in 1..Len(s) : i \in 1..Len(s) + Len(u) /\ (s \o u)[i] = s[i]
  BY <1>1
<1>4. \A i \in 1..Len(u) :
        Len(s) + i \in 1..Len(s) + Len(u) /\ (s \o u)[Len(s) + i] = u[i]
  BY <1>1
<1>5. \A i \in 1..Len(s) + Len(u) :
        \/ i \in 1..Len(s)
        \/ i - Len(s) \in 1..Len(u) /\ i = Len(s) + (i - Len(s)) /\ i \notin 1..Len(s)
  BY <1>1
<1>6. ToSet(s \o u) = ToSet(s) \cup ToSet(u)
  <2>1. \A i \in 1..Len(s) + Len(u) : (s \o u)[i] \in ToSet(s) \cup ToSet(u)
    BY <1>2, <1>3, <1>4, <1>5
  <2>2. \A i \in 1..Len(s) : s[i] \in ToSet(s \o u)
    BY <1>2, <1>3
  <2>3. \A i \in 1..Len(u) : u[i] \in ToSet(s \o u)
    BY <1>2, <1>4
  <2> QED
    BY <1>2, <2>1, <2>2, <2>3
<1>7. ASSUME Once(s), Once(u), ToSet(s) \cap ToSet(u) = {},
             NEW i \in 1..Len(s) + Len(u), NEW j \in 1..Len(s) + Len(u),
             (s \o u)[i] = (s \o u)[j]
      PROVE  i = j
  <2>1. CASE i \in 1..Len(s) /\ j \in 1..Len(s)
    BY <1>3, <1>7, <2>1 DEF Once
  <2>2. CASE i \in 1..Len(s) /\ j \notin 1..Len(s)
    <3>1. (s \o u)[i] \in ToSet(s)
      BY <1>2, <1>3, <2>2
    <3>2. j - Len(s) \in 1..Len(u) /\ j = Len(s) + (j - Len(s))
      BY <1>5, <2>2
    <3>3. (s \o u)[j] = u[j - Len(s)]
      BY <1>4, <3>2
    <3>4. (s \o u)[j] \in ToSet(u)
      BY <1>2, <3>2, <3>3
    <3> QED
      BY <1>7, <3>1, <3>4
  <2>3. CASE i \notin 1..Len(s) /\ j \in 1..Len(s)
    <3>1. (s \o u)[j] \in ToSet(s)
      BY <1>2, <1>3, <2>3
    <3>2. i - Len(s) \in 1..Len(u) /\ i = Len(s) + (i - Len(s))
      BY <1>5, <2>3
    <3>3. (s \o u)[i] = u[i - Len(s)]
      BY <1>4, <3>2
    <3>4. (s \o u)[i] \in ToSet(u)
      BY <1>2, <3>2, <3>3
    <3> QED
      BY <1>7, <3>1, <3>4
  <2>4. CASE i \notin 1..Len(s) /\ j \notin 1..Len(s)
    <3>1. i - Len(s) = j - Len(s)
      BY <1>4, <1>5, <1>7, <2>4 DEF Once
    <3> QED
      BY <1>1, <3>1
  <2> QED
    BY <2>1, <2>2, <2>3, <2>4
<1>8. Once(s) /\ Once(u) /\ ToSet(s) \cap ToSet(u) = {} => Once(s \o u)
  BY <1>1, <1>7 DEF Once
<1> QED
  BY <1>1, <1>6, <1>8

LEMMA RemoveAtLinks ==
  ASSUME NEW S, NEW s \in Seq(S), NEW k \in 1..Len(s), Once(s)
  PROVE  /\ RemoveAt(s, k) \in Seq(S)
         /\ ToSet(RemoveAt(s, k)) = ToSet(s) \ {s[k]}
         /\ Once(RemoveAt(s, k))
<1> DEFINE u == SubSeq(s, 1, k - 1)
           v == SubSeq(s, k + 1, Len(s))
<1>1. Len(s) \in Nat /\ k \in Nat /\ 1 <= k /\ k <= Len(s)
  BY LenProperties
<1>2. /\ u \in Seq(S) /\ Len(u) = k - 1
      /\ \A i \in 1..k - 1 : u[i] = s[i]
  <2>1. \A i \in 1..k - 1 : s[i] \in S
    BY <1>1, ElementOfSeq
  <2>2. /\ u \in Seq(S)
        /\ Len(u) = IF 1 <= k - 1 THEN k - 1 - 1 + 1 ELSE 0
        /\ \A i \in 1..k - 1 - 1 + 1 : u[i] = s[1 + i - 1]
    BY <1>1, <2>1, SubSeqProperties
  <2> QED
    BY <1>1, <2>2
<1>3. /\ v \in Seq(S) /\ Len(v) = Len(s) - k
      /\ \A i \in 1..Len(s) - k : v[i] = s[k + i]
  <2>1. \A i \in k + 1..Len(s) : s[i] \in S
    BY <1>1, ElementOfSeq
  <2>2. /\ v \in Seq(S)
        /\ Len(v) = IF k + 1 <= Len(s) THEN Len(s) - (k + 1) + 1 ELSE 0
        /\ \A i \in 1..Len(s) - (k + 1) + 1 : v[i] = s[(k + 1) + i - 1]
    BY <1>1, <2>1, SubSeqProperties
  <2> QED
    BY <1>1, <2>2
<1> HIDE DEF u, v
<1>4. /\ ToSet(s) = {s[i] : i \in 1..Len(s)}
      /\ ToSet(u) = {s[i] : i \in 1..k - 1}
      /\ ToSet(v) = {s[i] : i \in k + 1..Len(s)}
  <2>1. ToSet(v) = {v[i] : i \in 1..Len(s) - k}
    BY <1>3, ToSetOf
  <2>2. \A i \in 1..Len(s) - k : k + i \in k + 1..Len(s)
    BY <1>1
  <2>3. \A i \in k + 1..Len(s) : i - k \in 1..Len(s) - k /\ k + (i - k) = i
    BY <1>1
  <2>4. ToSet(v) = {s[i] : i \in k + 1..Len(s)}
    <3>1. ASSUME NEW e \in ToSet(v) PROVE e \in {s[i] : i \in k + 1..Len(s)}
      <4>1. PICK i \in 1..Len(s) - k : e = v[i]
        BY <2>1
      <4> QED
        BY <1>3, <2>2, <4>1
    <3>2. ASSUME NEW i \in k + 1..Len(s) PROVE s[i] \in ToSet(v)
      <4>1. v[i - k] = s[i]
        BY <1>3, <2>3
      <4> QED
        BY <2>1, <2>3, <4>1
    <3> QED
      BY <3>1, <3>2
  <2> QED
    BY <1>2, <2>4, ToSetOf
<1>5. \A i \in 1..Len(s) : i \in 1..k - 1 \/ i = k \/ i \in k + 1..Len(s)
  BY <1>1
<1>6. \A i \in (1..k - 1) \cup (k + 1..Len(s)) : i \in 1..Len(s) /\ i # k
  BY <1>1
<1>7. ToSet(u) \cup ToSet(v) = ToSet(s) \ {s[k]}
  BY <1>4, <1>5, <1>6 DEF Once
<1>8. ToSet(u) \cap ToSet(v) = {}
  <2>1. \A i \in 1..k - 1, j \in k + 1..Len(s) : i # j
    BY <1>1
  <2> QED
    BY <1>4, <1>6, <2>1 DEF Once
<1>9. Once(u)
  BY <1>2, <1>6 DEF Once
<1>10. Once(v)
  <2> SUFFICES ASSUME NEW i \in 1..Len(s) - k, NEW j \in 1..Len(s) - k, v[i] = v[j]
               PROVE  i = j
    BY <1>3 DEF Once
  <2>1. k + i \in 1..Len(s) /\ k + j \in 1..Len(s) /\ s[k + i] = s[k + j]
    BY <1>1, <1>3
  <2>2. k + i = k + j
    BY <2>1 DEF Once
  <2> QED
    BY <1>1, <2>2
<1>11. RemoveAt(s, k) = u \o v
  BY DEF RemoveAt, u, v
<1> QED
  BY <1>2, <1>3, <1>7, <1>8, <1>9, <1>10, <1>11, ConcatLinks

LEMMA SingletonLinks ==
  ASSUME NEW S, NEW e \in S
  PROVE  <<e>> \in Seq(S) /\ ToSet(<<e>>) = {e} /\ Once(<<e>>)
<1>1. <<e>> \in Seq(S) /\ Len(<<e>>) = 1 /\ <<e>>[1] = e
  OBVIOUS
<1>2. \A i \in 1..1 : i = 1
  OBVIOUS
<1>3. ToSet(<<e>>) = {<<e>>[i] : i \in 1..1}
  BY <1>1, ToSetOf
<1> QED
  BY <1>1, <1>2, <1>3 DEF Once

LEMMA EmptyLinks == ToSet(<<>>) = {} /\ Once(<<>>) /\ \A S : <<>> \in Seq(S)
BY DEF ToSet, Once

-----------------------------------------------------------------------------
SchedTypeOK ==
    /\ task_status \in [Tasks -> Statuses]
    /\ ready_queue \in Seq(Tasks)
    /\ all_task \in Seq(Tasks)
    /\ wait_queue \in [Queues -> Seq(Tasks)]
    /\ current \in Tasks \cup {NULL}
    /\ idle \in BOOLEAN
    /\ tcb_lock \in [Tasks -> BOOLEAN]

(***************************************************************************)
(* The inductive form of QueueDiscipline: the lists and the statuses say   *)
(* the same of every task, no list has a task twice and no two lists share *)
(* one.  It holds in a halted kernel too.                                  *)
(***************************************************************************)
ListsOnce ==
    /\ Once(ready_queue)
    /\ Once(all_task)
    /\ \A q \in Queues : Once(wait_queue[q])
    /\ ToSet(ready_queue) \cap ToSet(all_task) = {}
    /\ \A q, r \in Queues :
          q # r => ToSet(wait_queue[q]) \cap ToSet(wait_queue[r]) = {}

StatusOfList ==
    \A t \in Tasks :
        /\ task_status[t] = "Ready" <=>
              t \in ToSet(ready_queue) \cup ToSet(all_task)
        /\ task_status[t] = "Sleeping" <=>
              \E q \in Queues : t \in ToSet(wait_queue[q])
        /\ task_status[t] = "Running" <=> ~idle /\ current = t

QueueInv == ListsOnce /\ StatusOfList

(* A list without repetitions links its elements once, and no others. *)
LEMMA LinksOf ==
  ASSUME NEW S, NEW s \in Seq(S), Once(s), NEW t
  PROVE  /\ t \in ToSet(s) => \E i : Links(s, t) = {i}
         /\ t \notin ToSet(s) => Links(s, t) = {}
<1>1. ToSet(s) = {s[i] : i \in 1..Len(s)}
  BY ToSetOf
<1>2. ASSUME t \in ToSet(s) PROVE \E i : Links(s, t) = {i}
  <2>1. PICK i \in 1..Len(s) : s[i] = t
    BY <1>1, <1>2
  <2>2. Links(s, t) = {i}
    BY <2>1 DEF Links, Once
  <2> QED
    BY <2>2
<1> QED
  BY <1>1, <1>2 DEF Links

LEMMA InvGivesDiscipline == SchedTypeOK /\ QueueInv => QueueDiscipline
<1> SUFFICES ASSUME SchedTypeOK, QueueInv PROVE QueueDiscipline
  OBVIOUS
<1> DEFINE rdy(t) == {<<"ready", i>> : i \in Links(ready_queue, t)}
           all(t) == {<<"all", i>> : i \in Links(all_task, t)}
           waits(q, t) == {<<q, i>> : i \in Links(wait_queue[q], t)}
           places(t) == rdy(t) \cup all(t) \cup UNION {waits(q, t) : q \in Queues}
<1>1. ASSUME NEW t \in Tasks
      PROVE  /\ t \notin ToSet(ready_queue) => rdy(t) = {}
             /\ t \notin ToSet(all_task) => all(t) = {}
             /\ \A q \in Queues : t \notin ToSet(wait_queue[q]) => waits(q, t) = {}
             /\ t \in ToSet(ready_queue) => \E i : rdy(t) = {<<"ready", i>>}
             /\ t \in ToSet(all_task) => \E i : all(t) = {<<"all", i>>}
             /\ \A q \in Queues : t \in ToSet(wait_queue[q]) =>
                   \E i : waits(q, t) = {<<q, i>>}
  <2>1. ASSUME NEW s \in Seq(Tasks), Once(s), NEW n
        PROVE  /\ t \notin ToSet(s) => {<<n, i>> : i \in Links(s, t)} = {}
               /\ t \in ToSet(s) =>
                    \E k : {<<n, i>> : i \in Links(s, t)} = {<<n, k>>}
    <3>1. t \notin ToSet(s) => Links(s, t) = {}
      BY <2>1, LinksOf
    <3>2. ASSUME t \in ToSet(s)
          PROVE  \E k : {<<n, i>> : i \in Links(s, t)} = {<<n, k>>}
      <4>1. PICK k : Links(s, t) = {k}
        BY <2>1, <3>2, LinksOf
      <4>2. {<<n, i>> : i \in Links(s, t)} = {<<n, k>>}
        BY <4>1
      <4> QED
        BY <4>2
    <3> QED
      BY <3>1, <3>2
  <2>2. /\ ready_queue \in Seq(Tasks) /\ Once(ready_queue)
        /\ all_task \in Seq(Tasks) /\ Once(all_task)
        /\ \A q \in Queues : wait_queue[q] \in Seq(Tasks) /\ Once(wait_queue[q])
    BY DEF SchedTypeOK, QueueInv, ListsOnce
  <2> QED
    BY <2>1, <2>2
<1> HIDE DEF rdy, all, waits
<1>2. ASSUME NEW t \in Tasks, task_status[t] = "Ready"
      PROVE  \E p \in places(t) : places(t) = {p} /\ p[1] \in {"ready", "all"}
  <2>1. UNION {waits(q, t) : q \in Queues} = {}
    <3>1. \A q \in Queues : t \notin ToSet(wait_queue[q])
      BY <1>2 DEF QueueInv, StatusOfList
    <3>2. \A q \in Queues : waits(q, t) = {}
      BY <1>1, <3>1
    <3> QED
      BY <3>2
  <2>2. PICK n, i : n \in {"ready", "all"} /\ rdy(t) \cup all(t) = {<<n, i>>}
    <3>1. CASE t \in ToSet(ready_queue)
      <4>1. all(t) = {}
        BY <1>1, <3>1 DEF QueueInv, ListsOnce
      <4>2. PICK i : rdy(t) = {<<"ready", i>>}
        BY <1>1, <3>1
      <4> QED
        BY <4>1, <4>2
    <3>2. CASE t \in ToSet(all_task)
      <4>1. rdy(t) = {}
        BY <1>1, <3>2 DEF QueueInv, ListsOnce
      <4>2. PICK i : all(t) = {<<"all", i>>}
        BY <1>1, <3>2
      <4> QED
        BY <4>1, <4>2
    <3> QED
      BY <1>2, <3>1, <3>2 DEF QueueInv, StatusOfList
  <2>3. places(t) = {<<n, i>>} /\ <<n, i>>[1] = n
    BY <2>1, <2>2
  <2> QED
    BY <2>2, <2>3
<1>3. ASSUME NEW t \in Tasks, task_status[t] = "Sleeping"
      PROVE  \E p \in places(t) : places(t) = {p} /\ p[1] \in Queues
  <2>1. PICK q \in Queues : t \in ToSet(wait_queue[q])
    BY <1>3 DEF QueueInv, StatusOfList
  <2>2. \A r \in Queues \ {q} : waits(r, t) = {}
    BY <1>1, <2>1 DEF QueueInv, ListsOnce
  <2>3. PICK i : waits(q, t) = {<<q, i>>}
    BY <1>1, <2>1
  <2>4. UNION {waits(r, t) : r \in Queues} = {<<q, i>>}
    BY <2>2, <2>3
  <2>5. rdy(t) = {} /\ all(t) = {}
    <3>1. t \notin ToSet(ready_queue) /\ t \notin ToSet(all_task)
      BY <1>3 DEF QueueInv, StatusOfList
    <3> QED
      BY <1>1, <3>1
  <2>6. places(t) = {<<q, i>>} /\ <<q, i>>[1] = q
    BY <2>4, <2>5
  <2> QED
    BY <2>6
<1>4. ASSUME NEW t \in Tasks, task_status[t] \in {"UNINIT", "Running", "Zombie"}
      PROVE  places(t) = {}
  <2>1. /\ t \notin ToSet(ready_queue) /\ t \notin ToSet(all_task)
        /\ \A q \in Queues : t \notin ToSet(wait_queue[q])
    BY <1>4 DEF QueueInv, StatusOfList
  <2>2. \A q \in Queues : waits(q, t) = {}
    BY <1>1, <2>1
  <2> QED
    BY <1>1, <2>1, <2>2
<1>5. ASSUME NEW t \in Tasks, ~Halted
      PROVE  task_status[t] = "Running" <=> Runs(t)
  BY <1>5 DEF QueueInv, StatusOfList, Runs
<1> QED
  BY <1>2, <1>3, <1>4, <1>5 DEF QueueDiscipline, rdy, all, waits

(* run(), the dispatcher. *)
LEMMA DispatchKeeps ==
  ASSUME SchedTypeOK, QueueInv, Dispatch
  PROVE  SchedTypeOK' /\ QueueInv'
<1>0. /\ idle /\ wait_queue' = wait_queue /\ tcb_lock' = tcb_lock
      /\ ready_queue # <<>> \/ all_task # <<>>
  BY DEF Dispatch
<1>1. /\ ready_queue \in Seq(Tasks) /\ all_task \in Seq(Tasks)
      /\ task_status \in [Tasks -> Statuses]
      /\ Once(ready_queue) /\ Once(all_task)
      /\ ToSet(ready_queue) \cap ToSet(all_task) = {}
  BY DEF SchedTypeOK, QueueInv, ListsOnce
<1>2. /\ Fetched \in Seq(Tasks) /\ Once(Fetched)
      /\ ToSet(Fetched) \subseteq ToSet(ready_queue)
      /\ ready_queue = <<>> => Fetched = <<>>
      /\ ready_queue # <<>> =>
            /\ Head(ready_queue) \in Tasks
            /\ Head(ready_queue) \notin ToSet(Fetched)
            /\ ToSet(ready_queue) = ToSet(Fetched) \cup {Head(ready_queue)}
  <2>1. CASE ready_queue = <<>>
    BY <2>1, EmptyLinks DEF Fetched
  <2>2. CASE ready_queue # <<>>
    BY <1>1, <2>2, TailLinks DEF Fetched
  <2> QED
    BY <2>1, <2>2
<1>3. /\ ready_queue' \in Seq(Tasks) /\ all_task' \in Seq(Tasks)
      /\ Once(ready_queue') /\ Once(all_task')
      /\ ToSet(ready_queue') \cap ToSet(all_task') = {}
      /\ ToSet(ready_queue') \cup ToSet(all_task')
            = ToSet(Fetched) \cup ToSet(all_task)
  <2>1. CASE Fetched = <<>> /\ all_task # <<>>
    <3>1. ready_queue' = <<Head(all_task)>> /\ all_task' = Tail(all_task)
      BY <2>1 DEF Dispatch
    <3>2. /\ Head(all_task) \in Tasks /\ Tail(all_task) \in Seq(Tasks)
          /\ Once(Tail(all_task)) /\ Head(all_task) \notin ToSet(Tail(all_task))
          /\ ToSet(all_task) = ToSet(Tail(all_task)) \cup {Head(all_task)}
      BY <1>1, <2>1, TailLinks
    <3>3. /\ <<Head(all_task)>> \in Seq(Tasks) /\ Once(<<Head(all_task)>>)
          /\ ToSet(<<Head(all_task)>>) = {Head(all_task)}
      BY <3>2, SingletonLinks
    <3>4. ToSet(Fetched) = {}
      BY <2>1, EmptyLinks
    <3> QED
      BY <3>1, <3>2, <3>3, <3>4
  <2>2. CASE ~(Fetched = <<>> /\ all_task # <<>>)
    <3>1. ready_queue' = Fetched /\ all_task' = all_task
      BY <2>2 DEF Dispatch
    <3> QED
      BY <1>1, <1>2, <3>1
  <2> QED
    BY <2>1, <2>2
<1>4. ListsOnce'
  BY <1>0, <1>3 DEF QueueInv, ListsOnce
<1>5. CASE ready_queue = <<>>
  <2>1. UNCHANGED <<current, idle, task_status>>
    BY <1>5 DEF Dispatch
  <2>2. ToSet(ready_queue) = ToSet(Fetched)
    BY <1>2, <1>5
  <2>3. StatusOfList'
    BY <1>0, <1>3, <2>1, <2>2 DEF QueueInv, StatusOfList
  <2> QED
    BY <1>0, <1>3, <1>4, <2>1, <2>3 DEF SchedTypeOK, QueueInv
<1>6. CASE ready_queue # <<>>
  <2> DEFINE h == Head(ready_queue)
  <2>1. /\ current' = h /\ idle' = FALSE
        /\ task_status' = [task_status EXCEPT ![h] = "Running"]
    BY <1>6 DEF Dispatch
  <2>2. /\ h \in Tasks /\ h \notin ToSet(Fetched) /\ h \notin ToSet(all_task)
        /\ ToSet(ready_queue) = ToSet(Fetched) \cup {h}
    BY <1>1, <1>2, <1>6
  <2> HIDE DEF h
  <2>3. task_status[h] = "Ready" /\ \A q \in Queues : h \notin ToSet(wait_queue[q])
    <3>1. task_status[h] = "Ready"
      BY <2>2 DEF QueueInv, StatusOfList
    <3> QED
      BY <2>2, <3>1 DEF QueueInv, StatusOfList
  <2>4. StatusOfList'
    <3> SUFFICES ASSUME NEW t \in Tasks
                 PROVE  (/\ task_status[t] = "Ready" <=>
                               t \in ToSet(ready_queue) \cup ToSet(all_task)
                         /\ task_status[t] = "Sleeping" <=>
                               \E q \in Queues : t \in ToSet(wait_queue[q])
                         /\ task_status[t] = "Running" <=> ~idle /\ current = t)'
      BY DEF StatusOfList
    <3>1. CASE t = h
      BY <1>0, <1>1, <1>3, <2>1, <2>2, <2>3, <3>1
    <3>2. CASE t # h
      BY <1>0, <1>1, <1>3, <2>1, <2>2, <3>2 DEF QueueInv, StatusOfList
    <3> QED
      BY <3>1, <3>2
  <2>5. task_status' \in [Tasks -> Statuses] /\ idle' \in BOOLEAN
    BY <1>1, <2>1 DEF Statuses
  <2> QED
    BY <1>0, <1>3, <1>4, <2>1, <2>2, <2>4, <2>5 DEF SchedTypeOK, QueueInv
<1> QED
  BY <1>5, <1>6

(* What a list that is appended to is left with. *)
LEMMA EnqueueKeeps ==
  ASSUME SchedTypeOK, QueueInv, NEW t \in Tasks,
         task_status[t] \notin {"Ready", "Sleeping"},
         ready_queue' = Append(ready_queue, t), UNCHANGED <<all_task, wait_queue>>
  PROVE  /\ ListsOnce' /\ ready_queue' \in Seq(Tasks)
         /\ ToSet(ready_queue') = ToSet(ready_queue) \cup {t}
<1>1. t \notin ToSet(ready_queue) /\ t \notin ToSet(all_task)
  BY DEF QueueInv, StatusOfList
<1>2. ready_queue \in Seq(Tasks) /\ Once(ready_queue)
  BY DEF SchedTypeOK, QueueInv, ListsOnce
<1>3. /\ Once(Append(ready_queue, t)) /\ Append(ready_queue, t) \in Seq(Tasks)
      /\ ToSet(Append(ready_queue, t)) = ToSet(ready_queue) \cup {t}
  BY <1>1, <1>2, AppendLinks
<1> QED
  BY <1>1, <1>3 DEF QueueInv, ListsOnce

(* suspend_current_and_run_next(). *)
LEMMA SuspendKeeps ==
  ASSUME SchedTypeOK, QueueInv, NEW t \in Tasks, Runs(t), Suspend(t)
  PROVE  SchedTypeOK' /\ QueueInv'
<1>1. /\ task_status' = [task_status EXCEPT ![t] = "Ready"]
      /\ ready_queue' = Append(ready_queue, t)
      /\ idle' = TRUE
      /\ UNCHANGED <<current, all_task, wait_queue, tcb_lock>>
  BY DEF Suspend, Schedule
<1>2. task_status[t] = "Running" /\ ~idle /\ current = t
  BY DEF Runs, QueueInv, StatusOfList
<1>3. /\ ListsOnce' /\ ready_queue' \in Seq(Tasks)
      /\ ToSet(ready_queue') = ToSet(ready_queue) \cup {t}
  BY <1>1, <1>2, EnqueueKeeps
<1>4. SchedTypeOK'
  BY <1>1, <1>3 DEF SchedTypeOK, Statuses
<1>5. StatusOfList'
  BY <1>1, <1>2, <1>3 DEF SchedTypeOK, QueueInv, StatusOfList
<1> QED
  BY <1>3, <1>4, <1>5 DEF QueueInv

(* A panic changes no queue. *)
LEMMA HaltKeeps ==
  ASSUME SchedTypeOK, QueueInv, NEW why, Panic(why)
  PROVE  SchedTypeOK' /\ QueueInv'
BY DEF Panic, SchedTypeOK, QueueInv, ListsOnce, StatusOfList

(* What wakeup_fromwq leaves: the woken head has moved from its list to    *)
(* the ready queue, and everything else is where it was.                   *)
LEMMA WokenMoves ==
  ASSUME SchedTypeOK, QueueInv, NEW q \in Queues
  PROVE  /\ ReadyAfterWakeup(q) \in Seq(Tasks) /\ Once(ReadyAfterWakeup(q))
         /\ ToSet(ReadyAfterWakeup(q)) = ToSet(ready_queue) \cup Woken(q)
         /\ QueueAfterWakeup(q) \in Seq(Tasks) /\ Once(QueueAfterWakeup(q))
         /\ ToSet(QueueAfterWakeup(q)) = ToSet(wait_queue[q]) \ Woken(q)
         /\ Woken(q) \subseteq ToSet(wait_queue[q])
         /\ Woken(q) \subseteq Tasks
         /\ \A t \in Woken(q) : task_status[t] = "Sleeping"
<1>1. /\ wait_queue[q] \in Seq(Tasks) /\ Once(wait_queue[q])
      /\ ready_queue \in Seq(Tasks) /\ Once(ready_queue)
  BY DEF SchedTypeOK, QueueInv, ListsOnce
<1>2. CASE wait_queue[q] = <<>>
  BY <1>1, <1>2, EmptyLinks DEF ReadyAfterWakeup, QueueAfterWakeup, Woken
<1>3. CASE wait_queue[q] # <<>>
  <2> DEFINE h == Head(wait_queue[q])
  <2>1. Woken(q) = {h}
    BY <1>3 DEF Woken
  <2>2. /\ h \in ToSet(wait_queue[q]) /\ h \in Tasks
        /\ Tail(wait_queue[q]) \in Seq(Tasks) /\ Once(Tail(wait_queue[q]))
        /\ ToSet(wait_queue[q]) = ToSet(Tail(wait_queue[q])) \cup {h}
        /\ h \notin ToSet(Tail(wait_queue[q]))
    BY <1>1, <1>3, TailLinks
  <2>3. ReadyAfterWakeup(q) = Append(ready_queue, h)
    BY <2>1 DEF ReadyAfterWakeup
  <2>4. QueueAfterWakeup(q) = Tail(wait_queue[q])
    BY <2>1 DEF QueueAfterWakeup
  <2> HIDE DEF h
  <2>5. task_status[h] = "Sleeping"
    BY <2>2 DEF QueueInv, StatusOfList
  <2>6. h \notin ToSet(ready_queue)
    BY <2>2, <2>5 DEF QueueInv, StatusOfList
  <2>7. /\ Append(ready_queue, h) \in Seq(Tasks) /\ Once(Append(ready_queue, h))
        /\ ToSet(Append(ready_queue, h)) = ToSet(ready_queue) \cup {h}
    BY <1>1, <2>2, <2>6, AppendLinks
  <2> QED
    BY <2>1, <2>2, <2>3, <2>4, <2>5, <2>7
<1> QED
  BY <1>2, <1>3

(* wakeup_fromwq(q). *)
LEMMA WakeupKeeps ==
  ASSUME SchedTypeOK, QueueInv, NEW q \in Queues,
         task_status' = StatusAfterWakeup(q),
         ready_queue' = ReadyAfterWakeup(q),
         wait_queue' = [wait_queue EXCEPT ![q] = QueueAfterWakeup(q)],
         UNCHANGED <<all_task, current, idle>>,
         tcb_lock' \in [Tasks -> BOOLEAN]
  PROVE  SchedTypeOK' /\ QueueInv'
<1>1. /\ ready_queue' \in Seq(Tasks) /\ Once(ready_queue')
      /\ ToSet(ready_queue') = ToSet(ready_queue) \cup Woken(q)
      /\ QueueAfterWakeup(q) \in Seq(Tasks) /\ Once(QueueAfterWakeup(q))
      /\ ToSet(QueueAfterWakeup(q)) = ToSet(wait_queue[q]) \ Woken(q)
      /\ Woken(q) \subseteq ToSet(wait_queue[q])
      /\ Woken(q) \subseteq Tasks
      /\ \A t \in Woken(q) : task_status[t] = "Sleeping"
  BY WokenMoves
<1>2. /\ wait_queue' \in [Queues -> Seq(Tasks)]
      /\ wait_queue'[q] = QueueAfterWakeup(q)
      /\ \A r \in Queues \ {q} : wait_queue'[r] = wait_queue[r]
  BY <1>1 DEF SchedTypeOK
<1>3. \A t \in Tasks :
        task_status'[t] = IF t \in Woken(q) THEN "Ready" ELSE task_status[t]
  BY DEF StatusAfterWakeup
<1>4. task_status' \in [Tasks -> Statuses]
  BY DEF StatusAfterWakeup, SchedTypeOK, Statuses
<1>5. SchedTypeOK'
  BY <1>1, <1>2, <1>4 DEF SchedTypeOK
<1>6. \A t \in Woken(q) : t \notin ToSet(all_task)
  BY <1>1 DEF QueueInv, StatusOfList
<1>7. ListsOnce'
  <2>1. ToSet(ready_queue') \cap ToSet(all_task') = {}
    BY <1>1, <1>6 DEF QueueInv, ListsOnce
  <2>2. \A r \in Queues : Once(wait_queue'[r])
    BY <1>1, <1>2 DEF QueueInv, ListsOnce
  <2>3. \A r, s \in Queues : r # s =>
           ToSet(wait_queue'[r]) \cap ToSet(wait_queue'[s]) = {}
    BY <1>1, <1>2 DEF QueueInv, ListsOnce
  <2> QED
    BY <1>1, <2>1, <2>2, <2>3 DEF QueueInv, ListsOnce
<1>8. StatusOfList'
  <2> SUFFICES ASSUME NEW t \in Tasks
               PROVE  (/\ task_status[t] = "Ready" <=>
                             t \in ToSet(ready_queue) \cup ToSet(all_task)
                       /\ task_status[t] = "Sleeping" <=>
                             \E r \in Queues : t \in ToSet(wait_queue[r])
                       /\ task_status[t] = "Running" <=> ~idle /\ current = t)'
    BY DEF StatusOfList
  <2>1. CASE t \in Woken(q)
    <3>1. \A r \in Queues : t \notin ToSet(wait_queue'[r])
      BY <1>1, <1>2, <2>1 DEF QueueInv, ListsOnce
    <3>2. ~(~idle' /\ current' = t)
      BY <1>1, <2>1 DEF QueueInv, StatusOfList
    <3> QED
      BY <1>1, <1>3, <2>1, <3>1, <3>2
  <2>2. CASE t \notin Woken(q)
    <3>1. /\ task_status'[t] = task_status[t]
          /\ t \in ToSet(ready_queue') <=> t \in ToSet(ready_queue)
          /\ \A r \in Queues : t \in ToSet(wait_queue'[r]) <=> t \in ToSet(wait_queue[r])
      BY <1>1, <1>2, <1>3, <2>2
    <3> QED
      BY <3>1 DEF QueueInv, StatusOfList
  <2> QED
    BY <2>1, <2>2
<1> QED
  BY <1>5, <1>7, <1>8 DEF QueueInv

(* sleep(r) of the running task t, which has just called wakeup_fromwq(q). *)
LEMMA WakeAndSleepKeeps ==
  ASSUME SchedTypeOK, QueueInv, NEW q \in Queues, NEW r \in Queues, q # r,
         NEW t \in Tasks, Runs(t),
         task_status' = [StatusAfterWakeup(q) EXCEPT ![t] = "Sleeping"],
         ready_queue' = ReadyAfterWakeup(q),
         wait_queue' = [wait_queue EXCEPT ![q] = QueueAfterWakeup(q),
                                          ![r] = Append(@, t)],
         idle' = TRUE, UNCHANGED <<all_task, current>>,
         tcb_lock' \in [Tasks -> BOOLEAN]
  PROVE  SchedTypeOK' /\ QueueInv'
<1>1. /\ ready_queue' \in Seq(Tasks) /\ Once(ready_queue')
      /\ ToSet(ready_queue') = ToSet(ready_queue) \cup Woken(q)
      /\ QueueAfterWakeup(q) \in Seq(Tasks) /\ Once(QueueAfterWakeup(q))
      /\ ToSet(QueueAfterWakeup(q)) = ToSet(wait_queue[q]) \ Woken(q)
      /\ Woken(q) \subseteq ToSet(wait_queue[q])
      /\ Woken(q) \subseteq Tasks
      /\ \A u \in Woken(q) : task_status[u] = "Sleeping"
  BY WokenMoves
<1>2. /\ task_status[t] = "Running" /\ ~idle /\ current = t
      /\ t \notin ToSet(ready_queue) /\ t \notin ToSet(all_task)
      /\ \A s \in Queues : t \notin ToSet(wait_queue[s])
  <2>1. task_status[t] = "Running" /\ ~idle /\ current = t
    BY DEF Runs, QueueInv, StatusOfList
  <2> QED
    BY <2>1 DEF QueueInv, StatusOfList
<1>3. /\ Append(wait_queue[r], t) \in Seq(Tasks)
      /\ Once(Append(wait_queue[r], t))
      /\ ToSet(Append(wait_queue[r], t)) = ToSet(wait_queue[r]) \cup {t}
  BY <1>2, AppendLinks DEF SchedTypeOK, QueueInv, ListsOnce
<1>4. /\ wait_queue' \in [Queues -> Seq(Tasks)]
      /\ wait_queue'[q] = QueueAfterWakeup(q)
      /\ wait_queue'[r] = Append(wait_queue[r], t)
      /\ \A s \in Queues \ {q, r} : wait_queue'[s] = wait_queue[s]
  BY <1>1, <1>3 DEF SchedTypeOK
<1>5. \A u \in Tasks : task_status'[u] =
        IF u = t THEN "Sleeping"
        ELSE IF u \in Woken(q) THEN "Ready" ELSE task_status[u]
  BY DEF StatusAfterWakeup
<1>6. task_status' \in [Tasks -> Statuses]
  BY DEF StatusAfterWakeup, SchedTypeOK, Statuses
<1>7. SchedTypeOK'
  BY <1>1, <1>4, <1>6 DEF SchedTypeOK
<1>8. \A u \in Woken(q) : u \notin ToSet(all_task) /\ u # t
  BY <1>1, <1>2 DEF QueueInv, StatusOfList
<1>9. ListsOnce'
  <2>1. ToSet(ready_queue') \cap ToSet(all_task') = {}
    BY <1>1, <1>8 DEF QueueInv, ListsOnce
  <2>2. \A s \in Queues : Once(wait_queue'[s])
    BY <1>1, <1>3, <1>4 DEF QueueInv, ListsOnce
  <2>3. \A s \in Queues : ToSet(wait_queue'[s]) \subseteq
           IF s = r THEN ToSet(wait_queue[s]) \cup {t} ELSE ToSet(wait_queue[s])
    BY <1>1, <1>3, <1>4
  <2>4. ASSUME NEW s \in Queues, NEW v \in Queues, s # v, NEW u,
               u \in ToSet(wait_queue'[s]), u \in ToSet(wait_queue'[v])
        PROVE  FALSE
    <3>1. u = t \/ (u \in ToSet(wait_queue[s]) /\ u \in ToSet(wait_queue[v]))
      BY <2>3, <2>4
    <3>2. CASE u = t
      BY <1>2, <2>3, <2>4, <3>2
    <3> QED
      BY <2>4, <3>1, <3>2 DEF QueueInv, ListsOnce
  <2> QED
    BY <1>1, <2>1, <2>2, <2>4 DEF QueueInv, ListsOnce
<1>10. StatusOfList'
  <2> SUFFICES ASSUME NEW u \in Tasks
               PROVE  (/\ task_status[u] = "Ready" <=>
                             u \in ToSet(ready_queue) \cup ToSet(all_task)
                       /\ task_status[u] = "Sleeping" <=>
                             \E s \in Queues : u \in ToSet(wait_queue[s])
                       /\ task_status[u] = "Running" <=> ~idle /\ current = u)'
    BY DEF StatusOfList
  <2>1. CASE u \in Woken(q)
    <3>1. \A s \in Queues : u \notin ToSet(wait_queue'[s])
      BY <1>1, <1>3, <1>4, <1>8, <2>1 DEF QueueInv, ListsOnce
    <3>2. task_status'[u] = "Ready"
      BY <1>5, <1>8, <2>1
    <3>3. u \in ToSet(ready_queue')
      BY <1>1, <2>1
    <3>4. idle'
      OBVIOUS
    <3> QED
      BY <3>1, <3>2, <3>3, <3>4
  <2>2. CASE u = t
    BY <1>1, <1>2, <1>3, <1>4, <1>5, <1>8, <2>2
  <2>3. CASE u \notin Woken(q) /\ u # t
    <3>1. /\ task_status'[u] = task_status[u]
          /\ u \in ToSet(ready_queue') <=> u \in ToSet(ready_queue)
          /\ \A s \in Queues : u \in ToSet(wait_queue'[s]) <=> u \in ToSet(wait_queue[s])
      BY <1>1, <1>3, <1>4, <1>5, <2>3
    <3> QED
      BY <1>2, <2>3, <3>1 DEF QueueInv, StatusOfList
  <2> QED
    BY <2>1, <2>2, <2>3
<1> QED
  BY <1>7, <1>9, <1>10 DEF QueueInv

(* sleep(r) of the running task t. *)
LEMMA FallAsleepKeeps ==
  ASSUME SchedTypeOK, QueueInv, NEW r \in Queues, NEW t \in Tasks, Runs(t),
         task_status' = [task_status EXCEPT ![t] = "Sleeping"],
         wait_queue' = [wait_queue EXCEPT ![r] = Append(@, t)],
         idle' = TRUE, UNCHANGED <<ready_queue, all_task, current>>,
         tcb_lock' \in [Tasks -> BOOLEAN]
  PROVE  SchedTypeOK' /\ QueueInv'
<1>2. /\ task_status[t] = "Running" /\ ~idle /\ current = t
      /\ t \notin ToSet(ready_queue) /\ t \notin ToSet(all_task)
      /\ \A s \in Queues : t \notin ToSet(wait_queue[s])
  <2>1. task_status[t] = "Running" /\ ~idle /\ current = t
    BY DEF Runs, QueueInv, StatusOfList
  <2> QED
    BY <2>1 DEF QueueInv, StatusOfList
<1>3. /\ Append(wait_queue[r], t) \in Seq(Tasks)
      /\ Once(Append(wait_queue[r], t))
      /\ ToSet(Append(wait_queue[r], t)) = ToSet(wait_queue[r]) \cup {t}
  BY <1>2, AppendLinks DEF SchedTypeOK, QueueInv, ListsOnce
<1>4. /\ wait_queue' \in [Queues -> Seq(Tasks)]
      /\ wait_queue'[r] = Append(wait_queue[r], t)
      /\ \A s \in Queues \ {r} : wait_queue'[s] = wait_queue[s]
  BY <1>3 DEF SchedTypeOK
<1>5. \A u \in Tasks : task_status'[u] = IF u = t THEN "Sleeping" ELSE task_status[u]
  BY DEF SchedTypeOK
<1>7. SchedTypeOK'
  BY <1>4 DEF SchedTypeOK, Statuses
<1>9. ListsOnce'
  <2>2. \A s \in Queues : Once(wait_queue'[s])
    BY <1>3, <1>4 DEF QueueInv, ListsOnce
  <2>4. \A s, v \in Queues : s # v =>
           ToSet(wait_queue'[s]) \cap ToSet(wait_queue'[v]) = {}
    BY <1>2, <1>3, <1>4 DEF QueueInv, ListsOnce
  <2> QED
    BY <2>2, <2>4 DEF QueueInv, ListsOnce
<1>10. StatusOfList'
  <2> SUFFICES ASSUME NEW u \in Tasks
               PROVE  (/\ task_status[u] = "Ready" <=>
                             u \in ToSet(ready_queue) \cup ToSet(all_task)
                       /\ task_status[u] = "Sleeping" <=>
                             \E s \in Queues : u \in ToSet(wait_queue[s])
                       /\ task_status[u] = "Running" <=> ~idle /\ current = u)'
    BY DEF StatusOfList
  <2>2. CASE u = t
    BY <1>2, <1>3, <1>4, <1>5, <2>2
  <2>3. CASE u # t
    <3>1. /\ task_status'[u] = task_status[u]
          /\ \A s \in Queues : u \in ToSet(wait_queue'[s]) <=> u \in ToSet(wait_queue[s])
      BY <1>3, <1>4, <1>5, <2>3
    <3> QED
      BY <1>2, <2>3, <3>1 DEF QueueInv, StatusOfList
  <2> QED
    BY <2>2, <2>3
<1> QED
  BY <1>7, <1>9, <1>10 DEF QueueInv
=============================================================================
