----------------------- MODULE ProcTaskReaddirProofs -----------------------
(***************************************************************************)
(* Proofs about ProcTaskReaddir, for any number of threads and of tids and *)
(* any size of the buffer: until a call is mistaken about the thread whose *)
(* tid it kept, no thread is handed out twice and none that lives through  *)
(* the listing is left out; the references are always balanced.            *)
(*                                                                         *)
(* What carries them is an invariant about counting.  The position counts  *)
(* the threads handed out, the list is in the order of creation, so a      *)
(* count from the leader may fall short (threads exited) but never long.   *)
(***************************************************************************)
EXTENDS ProcTaskReaddir, FiniteSetTheorems, TLAPS

-----------------------------------------------------------------------------
(* Sets of threads.                                                        *)

LEMMA CardNat == \A S \in SUBSET Threads : IsFiniteSet(S) /\ Cardinality(S) \in Nat
  BY ThreadsAssumption, FS_Subset, FS_CardinalityType

LEMMA CardMono ==
    \A T \in SUBSET Threads : \A S \in SUBSET T : Cardinality(S) <= Cardinality(T)
  BY CardNat, FS_Subset

LEMMA CardFull ==
    \A T \in SUBSET Threads : \A S \in SUBSET T : Cardinality(T) <= Cardinality(S) => S = T
<1> SUFFICES ASSUME NEW T \in SUBSET Threads, NEW S \in SUBSET T,
                    Cardinality(T) <= Cardinality(S)
             PROVE  S = T
  OBVIOUS
<1>1. Cardinality(S) \in Nat /\ Cardinality(T) \in Nat /\ IsFiniteSet(T)
  BY CardNat
<1>2. S # T => Cardinality(S) < Cardinality(T)
  BY <1>1, FS_Subset
<1> QED
  BY <1>1, <1>2

LEMMA CardAdd ==
    \A S \in SUBSET Threads : \A t \in Threads :
      /\ Cardinality(S \cup {t}) <= Cardinality(S) + 1
      /\ t \notin S => Cardinality(S \cup {t}) = Cardinality(S) + 1
<1> SUFFICES ASSUME NEW S \in SUBSET Threads, NEW t \in Threads
             PROVE  /\ Cardinality(S \cup {t}) <= Cardinality(S) + 1
                    /\ t \notin S => Cardinality(S \cup {t}) = Cardinality(S) + 1
  OBVIOUS
<1>1. IsFiniteSet(S) /\ Cardinality(S) \in Nat
  BY CardNat
<1>2. Cardinality(S \cup {t}) = IF t \in S THEN Cardinality(S) ELSE Cardinality(S) + 1
  BY <1>1, FS_AddElement
<1> QED
  BY <1>1, <1>2

LEMMA CardRemove ==
    \A S \in SUBSET Threads : \A t \in S : Cardinality(S \ {t}) = Cardinality(S) - 1
  BY CardNat, FS_RemoveElement

LEMMA CardEmpty == \A S \in SUBSET Threads : Cardinality(S) = 0 <=> S = {}
  BY CardNat, FS_EmptySet

-----------------------------------------------------------------------------
(* The list.                                                               *)

\* What the invariant says of the sets it is made of.
LEMMA Sets ==
    ASSUME TypeOK
    PROVE  /\ linked \in SUBSET Threads /\ listed \in SUBSET Threads /\ Born \in SUBSET Threads
           /\ linked \subseteq Born /\ listed \subseteq Born
           /\ \A t \in Threads : age[t] \in Int
           /\ Behind \in SUBSET linked
           /\ \A t : Older(t) \in SUBSET linked
  BY DEF TypeOK, GroupTypeOK, Born, Behind, Older

\* A thread added at the tail is the youngest, so the list stays in order.
LEMMA CreateGroup ==
    ASSUME TypeOK, Ring, NEW t \in Threads, NEW k \in Tids, Create(t, k)
    PROVE  /\ TypeOK' /\ Ring'
           /\ Born' = Born \cup {t} /\ t \notin Born
           /\ age'[t] = births + 1 /\ \A u \in Born : age'[u] = age[u] /\ age[u] < births + 1
<1> PICK tail \in linked : /\ nxt[tail] = leader
                           /\ nxt' = [nxt EXCEPT ![tail] = t, ![t] = leader]
  BY DEF Create
<1>1. births \in Nat /\ age \in [Threads -> 0 .. births] /\ linked \subseteq Born
  BY DEF TypeOK, GroupTypeOK
<1>2. /\ age[t] = 0 /\ births' = births + 1 /\ age' = [age EXCEPT ![t] = births + 1]
      /\ linked' = linked \cup {t}
  BY DEF Create
<1>3. Born' = Born \cup {t} /\ t \notin Born
  BY <1>1, <1>2 DEF Born
<1>4. age'[t] = births + 1 /\ \A u \in Born : age'[u] = age[u] /\ age[u] < births + 1
  BY <1>1, <1>2, <1>3 DEF Born
<1>5. TypeOK'
  <2>1. GroupTypeOK'
    <3>1. tid' \in [Threads -> Tids]
      BY DEF TypeOK, GroupTypeOK, Create
    <3>2. births' \in Nat /\ age' \in [Threads -> 0 .. births']
      BY <1>1, <1>2
    <3>3. nxt' \in [Threads -> Threads]
      BY LeaderAssumption DEF TypeOK, GroupTypeOK
    <3> QED
      BY <1>1, <1>2, <1>3, <3>1, <3>2, <3>3 DEF GroupTypeOK
  <2>2. /\ CallTypeOK' /\ listed' \subseteq Born' /\ stable' \subseteq linked'
        /\ left' \in Born'
    BY <1>2, <1>3 DEF TypeOK, CallTypeOK, Create, history
  <2>3. lost' \in BOOLEAN /\ ended' \in BOOLEAN /\ mistaken' \in BOOLEAN
    BY DEF TypeOK, Create, history
  <2> QED
    BY <2>1, <2>2, <2>3 DEF TypeOK
<1>6. /\ nxt'[t] = leader /\ nxt'[tail] = t /\ tail # t
      /\ \A u \in Born \ {tail} : nxt'[u] = nxt[u]
  BY <1>1, <1>3 DEF TypeOK, GroupTypeOK, Born
<1>7. Ring'
  <2>1. leader \in Born' /\ (linked' = {} \/ leader \in linked')
    BY <1>2, <1>3 DEF Ring
  <2>2. \A u \in Born' \ {leader} : age'[leader] < age'[u]
    BY <1>1, <1>3, <1>4 DEF Ring
  <2>3. \A u, v \in Born' : age'[u] = age'[v] => u = v
    BY <1>1, <1>3, <1>4 DEF Ring
  <2>4. ASSUME NEW u \in linked' PROVE nxt'[u] \in linked'
    <3>1. CASE u = t
      BY <1>2, <1>6, <2>1, <3>1
    <3>2. CASE u = tail
      BY <1>2, <1>6, <3>2
    <3>3. CASE u \in linked \ {tail}
      <4>1. nxt'[u] = nxt[u]
        BY <1>1, <1>6, <3>3
      <4>2. nxt[u] \in linked
        BY <3>3 DEF Ring
      <4> QED
        BY <1>2, <4>1, <4>2
    <3> QED
      BY <1>2, <3>1, <3>2, <3>3
  <2>5. ASSUME NEW u \in linked', nxt'[u] = leader, NEW v \in linked' PROVE age'[v] <= age'[u]
    <3>1. CASE u = t
      BY <1>1, <1>2, <1>4, <3>1 DEF Born
    <3>2. CASE u # t
      <4>1. u \in linked /\ u # tail /\ nxt[u] = leader
        BY <1>1, <1>2, <1>3, <1>6, <2>1, <2>5, <3>2 DEF Ring
      <4>2. age[u] <= age[tail] /\ age[tail] <= age[u]
        BY <4>1 DEF Ring
      <4> QED
        BY <1>1, <4>1, <4>2 DEF Ring, Born
    <3> QED
      BY <3>1, <3>2
  <2>6. ASSUME NEW u \in Born', NEW n, n = nxt'[u], n # leader
        PROVE  /\ n \in Born' /\ age'[u] < age'[n]
               /\ \A v \in linked' : age'[v] <= age'[u] \/ age'[n] <= age'[v]
    <3>1. CASE u = tail
      <4>1. \A v \in linked : age'[v] <= age'[tail]
        BY <1>1, <1>4 DEF Ring
      <4>2. age'[tail] < age'[t] /\ age'[t] <= age'[t]
        BY <1>1, <1>4
      <4>3. n = t
        BY <1>6, <2>6, <3>1
      <4> QED
        BY <1>2, <1>3, <3>1, <4>1, <4>2, <4>3
    <3>2. CASE u # tail
      <4>1. u \in Born /\ n = nxt[u]
        BY <1>3, <1>6, <2>6, <3>2
      <4>2. n \in Born /\ age[u] < age[n]
        BY <2>6, <4>1 DEF Ring
      <4>3. \A v \in linked : age[v] <= age[u] \/ age[n] <= age[v]
        BY <2>6, <4>1 DEF Ring
      <4>4. age'[u] = age[u] /\ age'[n] = age[n] /\ \A v \in linked : age'[v] = age[v]
        BY <1>1, <1>4, <4>1, <4>2
      <4>5. age'[n] <= age'[t]
        BY <1>1, <1>4, <4>2 DEF Born
      <4> QED
        BY <1>2, <1>3, <4>2, <4>3, <4>4, <4>5
    <3> QED
      BY <3>1, <3>2
  <2> QED
    BY <2>1, <2>2, <2>3, <2>4, <2>5, <2>6 DEF Ring
<1> QED
  BY <1>3, <1>4, <1>5, <1>7

\* A thread that is unlinked leaves the others in order, and its own pointer
\* still leads back to the list.
LEMMA ExitGroup ==
    ASSUME TypeOK, Ring, NEW t \in Threads, Exit(t)
    PROVE  TypeOK' /\ Ring' /\ Born' = Born
<1>1. /\ nxt \in [Threads -> Threads] /\ linked \subseteq Born /\ Born \subseteq Threads
      /\ \A u \in Born : age[u] \in Int
  BY DEF TypeOK, GroupTypeOK, Born
<1>2. /\ t \in linked /\ linked' = linked \ {t} /\ age' = age
      /\ t = leader => linked = {leader}
  BY DEF Exit, pid_alive
<1>3. \A u \in Threads : nxt'[u] = IF u \in linked \ {t} /\ nxt[u] = t THEN nxt[t] ELSE nxt[u]
  BY DEF Exit
<1>4. Born' = Born
  BY <1>2 DEF Born
<1>5. TypeOK'
  <2>1. GroupTypeOK'
    BY <1>1, <1>2, <1>4 DEF TypeOK, GroupTypeOK, Exit
  <2>2. /\ CallTypeOK' /\ listed' \subseteq Born' /\ stable' \subseteq linked'
        /\ left' \in Born'
    BY <1>2, <1>4 DEF TypeOK, CallTypeOK, Exit
  <2>3. lost' \in BOOLEAN /\ ended' \in BOOLEAN /\ mistaken' \in BOOLEAN
    BY DEF TypeOK, Exit
  <2> QED
    BY <2>1, <2>2, <2>3 DEF TypeOK
<1>6. ASSUME NEW u \in linked \ {t}, nxt[u] = t
      PROVE  /\ t # leader /\ nxt'[u] = nxt[t] /\ nxt[t] \in linked \ {t}
             /\ age[u] < age[t] /\ \A v \in linked \ {t} : age[v] <= age[u] \/ age[t] < age[v]
  <2>1. t # leader
    BY <1>2
  <2>2. nxt'[u] = nxt[t]
    BY <1>1, <1>3, <1>6
  <2>3. age[u] < age[t] /\ \A v \in linked : age[v] <= age[u] \/ age[t] <= age[v]
    BY <1>1, <1>6, <2>1 DEF Ring
  <2>4. \A v \in linked \ {t} : age[t] # age[v]
    BY <1>1, <1>2 DEF Ring
  <2>5. nxt[t] # t
    BY <1>1, <1>2, <2>1 DEF Ring
  <2>6. nxt[t] \in linked
    BY <1>2 DEF Ring
  <2>7. \A v \in linked \ {t} : age[v] <= age[u] \/ age[t] < age[v]
    BY <1>1, <1>2, <2>3, <2>4
  <2> QED
    BY <2>1, <2>2, <2>3, <2>5, <2>6, <2>7
<1>7. Ring'
  <2>1. leader \in Born' /\ (linked' = {} \/ leader \in linked')
    BY <1>2, <1>4 DEF Ring
  <2>2. /\ \A u \in Born' \ {leader} : age'[leader] < age'[u]
        /\ \A u, v \in Born' : age'[u] = age'[v] => u = v
    BY <1>2, <1>4 DEF Ring
  <2>3. ASSUME NEW u \in linked' PROVE nxt'[u] \in linked'
    BY <1>1, <1>2, <1>3, <1>6 DEF Ring
  <2>4. ASSUME NEW u \in linked', nxt'[u] = leader, NEW v \in linked' PROVE age'[v] <= age'[u]
    <3>1. CASE nxt[u] = t
      <4>1. nxt[t] = leader
        BY <1>2, <1>6, <2>4, <3>1
      <4>2. age[v] <= age[t]
        BY <1>2, <4>1 DEF Ring
      <4>3. age[v] <= age[u] \/ age[t] < age[v]
        BY <1>2, <1>6, <3>1
      <4> QED
        BY <1>1, <1>2, <4>2, <4>3
    <3>2. CASE nxt[u] # t
      BY <1>1, <1>2, <1>3, <2>4, <3>2 DEF Ring
    <3> QED
      BY <3>1, <3>2
  <2>5. ASSUME NEW u \in Born', nxt'[u] # leader
        PROVE  /\ nxt'[u] \in Born' /\ age'[u] < age'[nxt'[u]]
               /\ \A v \in linked' : age'[v] <= age'[u] \/ age'[nxt'[u]] <= age'[v]
    <3>1. CASE u \in linked \ {t} /\ nxt[u] = t
      <4>1. /\ nxt'[u] = nxt[t] /\ nxt[t] # leader /\ age[u] < age[t]
            /\ \A v \in linked \ {t} : age[v] <= age[u] \/ age[t] < age[v]
        BY <1>6, <2>5, <3>1
      <4>2. /\ nxt[t] \in Born /\ age[t] < age[nxt[t]]
            /\ \A v \in linked : age[v] <= age[t] \/ age[nxt[t]] <= age[v]
        BY <1>1, <1>2, <4>1 DEF Ring
      <4> QED
        BY <1>1, <1>2, <1>4, <4>1, <4>2
    <3>2. CASE ~ (u \in linked \ {t} /\ nxt[u] = t)
      <4>1. u \in Born /\ nxt'[u] = nxt[u] /\ nxt[u] # leader
        BY <1>1, <1>3, <1>4, <2>5, <3>2
      <4> QED
        BY <1>2, <1>4, <4>1 DEF Ring
    <3> QED
      BY <3>1, <3>2
  <2> QED
    BY <2>1, <2>2, <2>3, <2>4, <2>5 DEF Ring
<1> QED
  BY <1>4, <1>5, <1>7

-----------------------------------------------------------------------------
(* Threads that come and go under a call.                                  *)

\* A change of the list that puts no thread behind another keeps what is known
\* of the threads passed and of the thread in hand.
LEMMA ListKeeps ==
    ASSUME TypeOK, PassedCounted, InHand,
           UNCHANGED <<listed, pc, task, f_version, left>>, lost => lost', Born \subseteq Born',
           Behind' \subseteq Behind,
           \A u \in Born : age'[u] = age[u] /\ (Passed(u)' => Passed(u)),
           \A u \in Born : Older(u)' \subseteq Older(u)
    PROVE  PassedCounted' /\ InHand'
<1>1. /\ listed \in SUBSET Threads /\ Behind \in SUBSET Threads
      /\ \A u \in Born : Older(u) \in SUBSET Threads
  BY Sets
<1>2. PassedCounted'
  <2>1. Cardinality(Behind') <= Cardinality(Behind)
    BY <1>1, CardMono
  <2>2. Behind' \in SUBSET Threads
    BY <1>1
  <2>3. Cardinality(Behind') <= Cardinality(listed)
    BY <1>1, <2>1, <2>2, CardNat DEF PassedCounted
  <2> QED
    BY <2>3 DEF PassedCounted
<1>3. ASSUME NEW u \in Born, ComesNext(u) PROVE ComesNext(u)'
  <2>1. Cardinality(Older(u)') <= Cardinality(Older(u))
    BY <1>1, CardMono
  <2>2. Older(u)' \in SUBSET Threads
    BY <1>1
  <2>3. Cardinality(Older(u)') <= Cardinality(listed)
    BY <1>1, <1>3, <2>1, <2>2, CardNat DEF ComesNext
  <2>4. ~ Passed(u)'
    BY <1>3 DEF ComesNext
  <2>5. ~ lost' => Older(u)' \subseteq listed'
    BY <1>3 DEF ComesNext
  <2> QED
    BY <2>3, <2>4, <2>5 DEF ComesNext
<1>4. pc' = "fill" => ComesNext(task)'
  <2>1. task \in Born
    BY DEF TypeOK, CallTypeOK
  <2>2. pc = "fill" => ComesNext(task)
    BY DEF InHand
  <2>3. ASSUME NEW u, u = task, ComesNext(u)' PROVE ComesNext(task)'
    BY <2>3
  <2> QED
    BY <1>3, <2>1, <2>2, <2>3
<1>5. f_version' # NoTid => ComesNext(left)'
  <2>1. left \in Born /\ (f_version # NoTid => ComesNext(left))
    BY DEF InHand, TypeOK
  <2>2. ASSUME NEW u, u = left, ComesNext(u)' PROVE ComesNext(left)'
    BY <2>2
  <2> QED
    BY <1>3, <2>1, <2>2
<1>6. pc' = "next" => task' \in listed' /\ \A u \in listed' : age'[u] <= age'[task']
  <2>1. listed \subseteq Born /\ task \in Born
    BY DEF TypeOK, CallTypeOK
  <2> QED
    BY <2>1 DEF InHand
<1> QED
  BY <1>2, <1>4, <1>5, <1>6 DEF InHand

\* A new thread is younger than all that were handed out: it is ahead of every
\* call, and a walk meets it last.
LEMMA CreateExact ==
    ASSUME Basics, Exact, NEW t \in Threads, NEW k \in Tids, Create(t, k)
    PROVE  Exact'
<1> USE DEF Basics, Exact
<1>1. /\ UNCHANGED <<pc, f_pos, f_version, task, nr, listed, stable, lost, ended, left, mistaken>>
      /\ linked' = linked \cup {t}
  BY DEF Create, history
<1>2. /\ TypeOK' /\ Ring'
      /\ Born' = Born \cup {t} /\ t \notin Born
      /\ age'[t] = births + 1 /\ \A u \in Born : age'[u] = age[u] /\ age[u] < births + 1
  BY CreateGroup
<1>3. /\ linked \subseteq Born /\ listed \subseteq Born /\ task \in Born /\ births \in Nat
      /\ \A u \in Born : age[u] \in Int
  BY DEF TypeOK, GroupTypeOK, CallTypeOK, Born
<1>4. ~ Passed(t)' /\ \A u \in Born : Passed(u)' <=> Passed(u)
  BY <1>1, <1>2, <1>3 DEF Passed
<1>5. Behind' = Behind
  BY <1>1, <1>3, <1>4 DEF Behind
<1>6. \A u \in Born : Older(u)' = Older(u)
  BY <1>1, <1>2, <1>3 DEF Older
<1>7. PassedCounted' /\ InHand'
  BY <1>1, <1>2, <1>4, <1>5, <1>6, ListKeeps
<1>8. PositionCounts' /\ ListingComplete'
  BY <1>1 DEF PositionCounts, ListingComplete
<1>9. ASSUME pc = "walk" PROVE Counting'
  <2>1. Older(task)' = Older(task)
    BY <1>1, <1>3, <1>6
  <2> PICK seen \in SUBSET Born :
        /\ linked \subseteq seen /\ task \in seen /\ \A u \in seen : nxt[u] \in seen
        /\ Cardinality(Ahead(seen)) <= nr
    BY <1>9 DEF WalkCounts, Counting
  <2> PICK tail \in linked : /\ nxt[tail] = leader
                             /\ nxt' = [nxt EXCEPT ![tail] = t, ![t] = leader]
    BY DEF Create
  <2>2. \A u \in seen \cup {t} : nxt'[u] \in seen \cup {t}
    <3>1. leader \in seen
      OBVIOUS
    <3>2. /\ tail # t /\ nxt'[t] = leader /\ nxt'[tail] = t
          /\ \A u \in seen \ {tail} : nxt'[u] = nxt[u]
      BY <1>2, <1>3 DEF TypeOK, GroupTypeOK, Born
    <3> QED
      BY <3>1, <3>2
  <2>3. \A u \in seen : (age'[task'] <= age'[u] /\ Passed(u)')
                          <=> (age[task] <= age[u] /\ Passed(u))
    BY <1>1, <1>2, <1>3, <1>4
  <2>4. Ahead(seen \cup {t})' = Ahead(seen)
    BY <1>4, <2>3 DEF Ahead
  <2>5. Cardinality(Older(task)') + nr' <= Cardinality(listed')
    BY <1>1, <1>9, <2>1 DEF WalkCounts, Counting
  <2>6. /\ seen \cup {t} \in SUBSET Born' /\ linked' \subseteq seen \cup {t}
        /\ task' \in seen \cup {t} /\ Cardinality(Ahead(seen \cup {t})') <= nr'
    BY <1>1, <1>2, <2>4
  <2> QED
    BY <2>2, <2>5, <2>6 DEF Counting
<1>10. ASSUME pc = "walk", ~ lost PROVE CountingExact'
  <2>1. CountingExact
    BY <1>10 DEF WalkCounts
  <2>2. Older(task)' = Older(task)
    BY <1>1, <1>3, <1>6
  <2>3. Ahead(listed)' = Ahead(listed)
    BY <1>1, <1>2, <1>3, <1>4 DEF Ahead
  <2> QED
    BY <1>1, <2>1, <2>2, <2>3 DEF CountingExact
<1> QED
  BY <1>1, <1>2, <1>7, <1>8, <1>9, <1>10 DEF WalkCounts

\* A thread that exits makes the list before a call shorter and no longer one;
\* a walk over it is off if it was one of those handed out.
LEMMA ExitExact == ASSUME Basics, Exact, NEW t \in Threads, Exit(t) PROVE Exact'
<1> USE DEF Basics, Exact
<1>1. /\ UNCHANGED <<age, pc, f_pos, f_version, task, nr, listed, ended, left, mistaken>>
      /\ linked' = linked \ {t} /\ stable' = stable \ {t}
  BY DEF Exit
<1>2. TypeOK' /\ Ring' /\ Born' = Born
  BY ExitGroup
<1>3. (lost => lost') /\ (~ lost' /\ pc = "walk" => t \notin listed)
  BY DEF Exit
<1>4. \A u : Passed(u)' <=> Passed(u)
  BY <1>1 DEF Passed
<1>5. Behind' \subseteq Behind /\ \A u : Older(u)' \subseteq Older(u)
  BY <1>1, <1>4 DEF Behind, Older
<1>6. PassedCounted' /\ InHand'
  BY <1>1, <1>2, <1>3, <1>4, <1>5, ListKeeps
<1>7. PositionCounts'
  BY <1>1 DEF PositionCounts
<1>8. ListingComplete'
  BY <1>1, <1>3 DEF ListingComplete
<1>9. Older(task)' \subseteq Older(task) /\ \A S : Ahead(S)' = Ahead(S)
  BY <1>1, <1>4 DEF Older, Ahead
<1>10. ASSUME pc = "walk" PROVE Counting'
  <2>1. /\ Older(task) \in SUBSET Threads /\ listed \in SUBSET Threads /\ nr \in Nat
        /\ Older(task)' \in SUBSET Threads
    BY <1>9, Sets DEF TypeOK, CallTypeOK
  <2>2. Cardinality(Older(task)') <= Cardinality(Older(task))
    BY <1>9, <2>1, CardMono
  <2>3. Cardinality(Older(task)) + nr <= Cardinality(listed)
    BY <1>10 DEF WalkCounts, Counting
  <2>4. Cardinality(Older(task)') + nr <= Cardinality(listed)
    BY <2>1, <2>2, <2>3, CardNat
  <2> PICK seen \in SUBSET Born :
        /\ linked \subseteq seen /\ task \in seen /\ \A u \in seen : nxt[u] \in seen
        /\ Cardinality(Ahead(seen)) <= nr
    BY <1>10 DEF WalkCounts, Counting
  <2>5. \A u \in seen : nxt'[u] \in seen
    BY DEF Exit, Born
  <2>6. Cardinality(Ahead(seen)') <= nr'
    BY <1>1, <1>9
  <2> QED
    BY <1>1, <1>2, <2>4, <2>5, <2>6 DEF Counting
<1>11. ASSUME pc = "walk", ~ lost' PROVE CountingExact'
  <2>1. CountingExact
    BY <1>3, <1>11 DEF WalkCounts
  <2>2. Ahead(listed)' = Ahead(listed)
    BY <1>1, <1>4 DEF Ahead
  <2> QED
    BY <1>1, <1>3, <1>9, <1>11, <2>1, <2>2 DEF CountingExact
<1> QED
  BY <1>1, <1>2, <1>6, <1>7, <1>8, <1>10, <1>11 DEF WalkCounts

-----------------------------------------------------------------------------
(* The steps of a call.                                                    *)

\* The list, the threads handed out and the history stay: so does what is
\* known of the threads passed, and of any thread that comes next.
LEMMA CallKeeps ==
    ASSUME UNCHANGED <<linked, age, listed, lost>>
    PROVE  /\ PassedCounted => PassedCounted'
           /\ \A u : ComesNext(u) => ComesNext(u)'
<1>1. \A u : Passed(u)' <=> Passed(u)
  BY DEF Passed
<1>2. Behind' = Behind /\ \A u : Older(u)' = Older(u)
  BY <1>1 DEF Behind, Older
<1> QED
  BY <1>1, <1>2 DEF PassedCounted, ComesNext

\* The way in, to first_tid() and back to the start of the directory, which
\* makes up for a call that was mistaken.
LEMMA RewindExact == ASSUME Basics, Rewind PROVE Exact'
<1>1. /\ pc' = "idle" /\ f_pos' = 0 /\ f_version' = NoTid
      /\ listed' = {} /\ ended' = FALSE
  BY DEF Rewind
<1>2. PositionCounts' /\ InHand' /\ WalkCounts' /\ ListingComplete'
  BY <1>1 DEF PositionCounts, InHand, WalkCounts, ListingComplete
<1>3. Behind' = {}
  BY <1>1 DEF Behind, Passed
<1>4. PassedCounted'
  BY <1>1, <1>3, FS_EmptySet DEF PassedCounted
<1> QED
  BY <1>2, <1>4 DEF Exact

LEMMA StartExact == ASSUME Basics, Exact, Start PROVE Exact'
<1> USE DEF Basics, Exact
<1>1. /\ UNCHANGED <<linked, age, f_pos, f_version, task, nr>>
      /\ UNCHANGED <<listed, stable, lost, ended, left, mistaken>>
  BY DEF Start, history, groupVars, vars
<1>2. pc = "idle" /\ pc' \in {"idle", "dots"}
  BY DEF Start, vars
<1>3. PassedCounted' /\ InHand'
  BY <1>1, <1>2, CallKeeps DEF InHand
<1>4. ListingComplete' /\ WalkCounts' /\ PositionCounts'
  BY <1>1, <1>2 DEF ListingComplete, WalkCounts, PositionCounts
<1> QED
  BY <1>3, <1>4

LEMMA DotsExact == ASSUME Basics, Exact, Dots PROVE Exact'
<1> USE DEF Basics, Exact
<1>1. UNCHANGED <<linked, age, f_version, task, nr, listed, stable, lost, ended, left, mistaken>>
  BY DEF Dots, history, groupVars
<1>2. /\ pc = "dots" /\ pc' \in {"idle", "dots"} /\ f_pos < 2
      /\ f_pos' \in {f_pos, f_pos + 1} /\ listed' = {}
  BY <1>1 DEF Dots, Return, PositionCounts
<1>3. PassedCounted' /\ InHand'
  BY <1>1, <1>2, CallKeeps DEF InHand
<1>4. ListingComplete' /\ WalkCounts'
  BY <1>1, <1>2 DEF ListingComplete, WalkCounts
<1>5. PositionCounts'
  <2>1. Cardinality(listed') = 0 /\ f_pos \in Nat
    BY <1>2, FS_EmptySet DEF TypeOK, CallTypeOK
  <2> QED
    BY <1>2, <2>1 DEF PositionCounts
<1> QED
  BY <1>3, <1>4, <1>5

\* The thread that has the kept number is the one that was left, which comes
\* next, or the call is mistaken.
LEMMA DotsDoneExact == ASSUME Basics, Exact, DotsDone PROVE mistaken' \/ Exact'
<1> USE DEF Basics, Exact
<1> SUFFICES ASSUME ~ mistaken' PROVE Exact'
  OBVIOUS
<1>1. UNCHANGED <<linked, age, f_pos, listed, stable, lost, ended>>
  BY DEF DotsDone, groupVars
<1>2. /\ pc = "dots" /\ f_pos >= 2 /\ f_version' = NoTid /\ nr' = f_pos - 2
  BY DEF DotsDone, WalkPast
<1>3. \/ f_version # NoTid /\ task' = left /\ pc' = "fill"
      \/ task' = leader /\ pc' = "first" /\ mistaken' = mistaken
  BY LeaderAssumption DEF DotsDone, InGroup
<1>4. PassedCounted'
  BY <1>1, CallKeeps
<1>5. InHand'
  <2>1. pc' = "fill" => task' = left /\ ComesNext(left)
    BY <1>3 DEF InHand
  <2>2. pc' = "fill" => ComesNext(task)'
    BY <1>1, <2>1, CallKeeps
  <2> QED
    BY <1>2, <1>3, <2>2 DEF InHand
<1>6. WalkCounts'
  BY <1>3 DEF WalkCounts
<1>7. ListingComplete'
  <2>1. ~ mistaken
    BY DEF DotsDone
  <2> QED
    BY <1>1, <2>1 DEF ListingComplete
<1>8. PositionCounts'
  <2>1. Cardinality(listed) = f_pos - 2 /\ ~ (f_pos < 2)
    BY <1>2 DEF PositionCounts, TypeOK, CallTypeOK
  <2>2. (pc' = "first" => task' = leader) /\ pc' # "next"
    BY <1>3
  <2> QED
    BY <1>1, <1>2, <2>1, <2>2 DEF PositionCounts
<1> QED
  BY <1>4, <1>5, <1>6, <1>7, <1>8

\* The test of first_tid(): as many threads were handed out as the position
\* says, so nr threads and no more to hand out means they are the ones left;
\* otherwise the walk starts at the leader, the oldest thread.
LEMMA FirstExact == ASSUME Basics, Exact, First PROVE Exact'
<1> USE DEF Basics, Exact
<1>1. /\ UNCHANGED <<linked, nxt, age, f_pos, f_version, task, nr, listed, stable, mistaken>>
      /\ Born' = Born
  BY DEF First, groupVars, Born
<1>2. /\ pc = "first" /\ task = leader /\ f_version = NoTid
      /\ f_pos >= 2 /\ nr = f_pos - 2 /\ Cardinality(listed) = nr
  BY DEF First, PositionCounts, TypeOK, CallTypeOK
<1>3. /\ linked \subseteq Born /\ listed \subseteq Born /\ Born \subseteq Threads
      /\ leader \in Born /\ \A u \in Born : age[u] \in Int /\ age[leader] <= age[u]
  BY DEF TypeOK, GroupTypeOK, Born, Ring
<1>4. (lost => lost') /\ (~ lost' => listed \subseteq linked)
  <2>1. (lost => lost') /\ (~ lost' /\ nr > 0 => listed \subseteq linked)
    BY DEF First
  <2>2. nr = 0 => listed = {}
    BY <1>2, <1>3, CardEmpty
  <2>3. nr = 0 \/ nr > 0
    BY DEF TypeOK, CallTypeOK
  <2> QED
    BY <2>1, <2>2, <2>3
<1>6. \/ /\ pc' = "idle" /\ ended' = TRUE /\ nr >= Cardinality(linked)
      \/ /\ pc' = "walk" /\ ended' = ended
         /\ nr > 0 => Cardinality(linked) > nr
  <2>1. nr \in Nat /\ Cardinality(linked) \in Nat
    BY <1>3, CardNat DEF TypeOK, CallTypeOK
  <2> QED
    BY <2>1 DEF First, OutOfThreads, Return, get_nr_threads
<1>10. PositionCounts'
  BY <1>1, <1>2, <1>6 DEF PositionCounts
<1>11. PassedCounted' /\ InHand'
  <2>1. Behind' = Behind
    BY <1>1 DEF Behind, Passed
  <2>2. PassedCounted'
    BY <1>1, <1>4, <2>1 DEF PassedCounted
  <2> QED
    BY <1>1, <1>2, <1>6, <2>2 DEF InHand
<1>12. ListingComplete'
  <2>1. CASE pc' = "idle"
    <3>1. ~ lost' => listed = linked
      BY <1>2, <1>3, <1>4, <1>6, <2>1, CardFull
    <3> QED
      BY <1>1, <3>1 DEF ListingComplete, TypeOK
  <2>2. CASE pc' = "walk"
    BY <1>1, <1>4, <1>6, <2>2 DEF ListingComplete
  <2> QED
    BY <1>6, <2>1, <2>2
<1>13. ASSUME pc' = "walk" PROVE Counting'
  <2>1. Older(task)' = {}
    BY <1>1, <1>2, <1>3 DEF Older
  <2>2. Cardinality(Older(task)') + nr' <= Cardinality(listed')
    BY <1>1, <1>2, <2>1, FS_EmptySet
  <2>3. CASE linked = {}
    <3>1. listed = {}
      BY <1>2, <1>3, <1>6, <1>13, <2>3, CardEmpty DEF TypeOK, CallTypeOK
    <3>2. Ahead(Born)' = {}
      BY <1>1, <3>1 DEF Ahead, Passed
    <3>3. Cardinality(Ahead(Born)') <= nr'
      BY <1>1, <3>2, FS_EmptySet DEF TypeOK, CallTypeOK
    <3>4. leader \in Born /\ \A u \in Born : nxt[u] \in Born
      BY DEF Ring
    <3> QED
      BY <1>1, <1>2, <1>3, <2>2, <3>3, <3>4 DEF Counting
  <2>4. CASE leader \in linked
    <3>1. Ahead(linked)' \subseteq Behind
      BY <1>1 DEF Ahead, Behind, Passed
    <3>2. Behind \in SUBSET Threads /\ Ahead(linked)' \in SUBSET Threads
      BY <3>1, Sets
    <3>3. Cardinality(Ahead(linked)') <= nr'
      BY <1>1, <1>2, <3>1, <3>2, CardMono, CardNat DEF PassedCounted
    <3>4. \A u \in linked : nxt[u] \in linked
      BY DEF Ring
    <3> QED
      BY <1>1, <1>2, <1>3, <2>2, <2>4, <3>3, <3>4 DEF Counting
  <2> QED
    BY <2>3, <2>4 DEF Ring
<1>14. ASSUME pc' = "walk", ~ lost' PROVE CountingExact'
  <2>1. listed \subseteq linked
    BY <1>4, <1>14
  <2>2. nr > 0 => leader \in listed
    <3> SUFFICES ASSUME nr > 0 PROVE leader \in listed
      OBVIOUS
    <3>1. listed # {}
      BY <1>2, <1>3, CardEmpty
    <3>2. leader \in linked
      BY <2>1, <3>1 DEF Ring
    <3>3. leader \in Behind
      BY <1>3, <3>1, <3>2 DEF Behind, Passed
    <3> QED
      BY <1>4, <1>14, <3>3 DEF PassedCounted
  <2>3. Ahead(listed)' = listed
    BY <1>1, <1>2, <1>3 DEF Ahead, Passed
  <2>4. Older(task)' = {}
    BY <1>1, <1>2, <1>3 DEF Older
  <2> QED
    BY <1>1, <1>2, <2>1, <2>2, <2>3, <2>4 DEF CountingExact
<1> QED
  BY <1>10, <1>11, <1>12, <1>13, <1>14 DEF WalkCounts

\* A walk that has nr threads to go past ends at a thread that comes next.
LEMMA WalkEnds == ASSUME Basics, Exact, pc = "walk", nr = 0 PROVE ComesNext(task)
<1> USE DEF Basics, Exact
<1>1. Counting /\ (lost \/ CountingExact)
  BY DEF WalkCounts
<1>2. PICK seen \in SUBSET Born : task \in seen /\ Cardinality(Ahead(seen)) <= 0
  BY <1>1 DEF Counting
<1>3. Ahead(seen) = {}
  <2>1. Ahead(seen) \in SUBSET Threads
    BY DEF Ahead, Born
  <2> QED
    BY <1>2, <2>1, CardNat, CardEmpty
<1>4. ~ Passed(task)
  <2>1. age[task] \in Int
    BY DEF TypeOK, GroupTypeOK, CallTypeOK, Born
  <2> QED
    BY <1>2, <1>3, <2>1 DEF Ahead
<1>5. Cardinality(Older(task)) <= Cardinality(listed)
  BY <1>1, Sets, CardNat DEF Counting
<1>6. ~ lost => Older(task) \subseteq listed
  BY <1>1 DEF CountingExact
<1> QED
  BY <1>4, <1>5, <1>6 DEF ComesNext

\* One step of the walk leaves one thread fewer before the last one handed out,
\* and at most one more behind the walk.
LEMMA WalkOn ==
    ASSUME Basics, Exact, pc = "walk", nr > 0, nxt[task] # leader,
           UNCHANGED <<linked, nxt, age, listed, lost>>, task' = nxt[task], nr' = nr - 1
    PROVE  Counting' /\ (lost \/ CountingExact')
<1> USE DEF Basics, Exact
<1> DEFINE n == nxt[task]
<1>1. /\ task \in Born /\ n \in Born /\ age[task] < age[n] /\ nr \in Nat
      /\ linked \subseteq Born /\ listed \subseteq Born /\ Born \subseteq Threads
      /\ \A u \in Born : age[u] \in Int
      /\ \A u \in linked : age[u] <= age[task] \/ age[n] <= age[u]
      /\ \A u \in Born : age[u] = age[task] => u = task
  BY DEF TypeOK, GroupTypeOK, CallTypeOK, Born, Ring
<1> HIDE DEF n
<1>2. Counting /\ (lost \/ CountingExact)
  BY DEF WalkCounts
<1>3. task' = n
  BY DEF n
<1>4. Born' = Born /\ \A u : Passed(u)' <=> Passed(u)
  BY DEF Born, Passed
<1>5. Older(task)' \subseteq Older(task) \cup {task}
  BY <1>1, <1>3 DEF Older
<1>6. Cardinality(Older(task)') + nr' <= Cardinality(listed')
  <2>1. /\ Older(task) \in SUBSET Threads /\ Older(task) \cup {task} \in SUBSET Threads
        /\ Older(task)' \in SUBSET Threads
    BY <1>1, <1>5, Sets
  <2>2. Cardinality(Older(task)') <= Cardinality(Older(task) \cup {task})
    BY <1>5, <2>1, CardMono
  <2>3. Cardinality(Older(task) \cup {task}) <= Cardinality(Older(task)) + 1
    BY <1>1, <2>1, CardAdd
  <2>4. Cardinality(Older(task)) + nr <= Cardinality(listed)
    BY <1>2 DEF Counting
  <2>5. listed \in SUBSET Threads
    BY <1>1
  <2> QED
    BY <1>1, <2>1, <2>2, <2>3, <2>4, <2>5, CardNat
<1>7. Counting'
  <2> PICK seen \in SUBSET Born :
        /\ linked \subseteq seen /\ task \in seen /\ \A u \in seen : nxt[u] \in seen
        /\ Cardinality(Ahead(seen)) <= nr
    BY <1>2 DEF Counting
  <2>1. Ahead(seen)' \subseteq Ahead(seen) \ {task}
    BY <1>1, <1>3, <1>4 DEF Ahead
  <2>2. Ahead(seen) \in SUBSET Threads /\ Ahead(seen)' \in SUBSET Threads
    BY <1>1, <2>1 DEF Ahead
  <2>3. Cardinality(Ahead(seen)') <= nr - 1
    <3>1. CASE Passed(task)
      <4>1. task \in Ahead(seen)
        BY <1>1, <3>1 DEF Ahead
      <4>2. Cardinality(Ahead(seen) \ {task}) = Cardinality(Ahead(seen)) - 1
        BY <2>2, <4>1, CardRemove
      <4>3. Ahead(seen) \ {task} \in SUBSET Threads
        BY <2>2
      <4>4. Cardinality(Ahead(seen)') <= Cardinality(Ahead(seen) \ {task})
        BY <2>1, <4>3, CardMono
      <4> QED
        BY <1>1, <2>2, <4>2, <4>4, CardNat
    <3>2. CASE ~ Passed(task)
      <4>1. Ahead(seen) = {}
        BY <1>1, <3>2 DEF Ahead, Passed
      <4> QED
        BY <1>1, <2>1, <4>1, FS_EmptySet
    <3> QED
      BY <3>1, <3>2
  <2>4. \A u \in seen : nxt'[u] \in seen
    OBVIOUS
  <2>5. task' \in seen
    OBVIOUS
  <2> QED
    BY <1>4, <1>6, <2>3, <2>4, <2>5 DEF Counting
<1>8. ASSUME ~ lost PROVE CountingExact'
  <2>1. /\ listed \subseteq linked /\ task \in listed /\ Cardinality(Ahead(listed)) = nr
        /\ Older(task) \subseteq listed
    BY <1>2, <1>8 DEF CountingExact
  <2>2. Ahead(listed)' = Ahead(listed) \ {task}
    BY <1>1, <1>3, <1>4, <2>1 DEF Ahead
  <2>3. Ahead(listed) \in SUBSET Threads /\ task \in Ahead(listed)
    BY <1>1, <2>1 DEF Ahead, Passed
  <2>4. Cardinality(Ahead(listed)') = nr - 1
    BY <2>1, <2>2, <2>3, CardRemove
  <2>5. ASSUME nr - 1 > 0 PROVE n \in listed
    <3>1. Ahead(listed)' # {}
      BY <2>4, <2>5, FS_EmptySet
    <3>2. Passed(n)
      BY <1>3, <3>1 DEF Ahead, Passed
    <3>3. n \in linked
      BY <2>1 DEF Ring, n
    <3> QED
      BY <1>8, <3>2, <3>3 DEF PassedCounted, Behind
  <2>6. Older(task)' \subseteq listed'
    BY <1>5, <2>1
  <2> QED
    BY <1>3, <2>1, <2>4, <2>5, <2>6 DEF CountingExact
<1> QED
  BY <1>7, <1>8

\* A step of the walk of first_tid(), its end, or the end of the list.
LEMMA WalkExact == ASSUME Basics, Exact, Walk PROVE Exact'
<1> USE DEF Basics, Exact
<1>1. /\ UNCHANGED <<linked, nxt, age, f_pos, f_version, listed, stable, lost, mistaken>>
      /\ Born' = Born
  BY DEF Walk, groupVars, Born
<1>2. pc = "walk" /\ f_version = NoTid /\ task \in Born /\ nr \in Nat /\ refs = 1
  BY DEF Walk, PositionCounts, TypeOK, CallTypeOK, RefsCounted
<1>3. \/ /\ nr = 0 /\ pc' = "fill" /\ refs' = 2 /\ UNCHANGED <<task, nr, ended>>
      \/ /\ nr > 0 /\ nxt[task] = leader
         /\ pc' = "idle" /\ refs' = 0 /\ ended' = TRUE /\ UNCHANGED <<task, nr>>
      \/ /\ nr > 0 /\ nxt[task] # leader /\ task' = nxt[task] /\ nr' = nr - 1
         /\ pc' = "walk" /\ refs' = 1 /\ UNCHANGED ended
  BY <1>2 DEF Walk, OutOfThreads, Return
<1>7. PositionCounts'
  BY <1>1, <1>2, <1>3 DEF PositionCounts
<1>8. PassedCounted'
  BY <1>1, CallKeeps
<1>9. InHand'
  <2>1. pc' = "fill" => task' = task /\ ComesNext(task)
    BY <1>2, <1>3, WalkEnds
  <2>2. pc' = "fill" => ComesNext(task)'
    BY <1>1, <2>1, CallKeeps
  <2> QED
    BY <1>1, <1>2, <1>3, <2>2 DEF InHand
<1>10. ListingComplete'
  <2>1. CASE nr > 0 /\ nxt[task] = leader
    <3> SUFFICES ASSUME ~ lost PROVE linked \subseteq listed
      BY <1>1 DEF ListingComplete, TypeOK
    <3>1. listed \subseteq linked /\ task \in listed /\ Older(task) \subseteq listed
      BY <1>2, <2>1 DEF WalkCounts, CountingExact
    <3>2. \A u \in linked : age[u] <= age[task]
      BY <2>1, <3>1 DEF Ring
    <3>3. \A u \in linked : age[u] < age[task] \/ u = task
      <4>1. \A u \in linked : age[u] \in Int /\ (age[u] = age[task] => u = task)
        BY <1>2 DEF TypeOK, GroupTypeOK, Born, Ring
      <4>2. age[task] \in Int
        BY <1>2 DEF TypeOK, GroupTypeOK, Born
      <4> QED
        BY <3>2, <4>1, <4>2
    <3> QED
      BY <3>1, <3>3 DEF Older
  <2>2. CASE UNCHANGED ended
    BY <1>1, <2>2 DEF ListingComplete
  <2> QED
    BY <1>3, <2>1, <2>2
<1>11. WalkCounts'
  BY <1>1, <1>2, <1>3, WalkOn DEF WalkCounts
<1> QED
  BY <1>7, <1>8, <1>9, <1>10, <1>11

\* proc_task_fill_cache() hands out the thread that comes next, or saves it.
LEMMA FillExact == ASSUME Basics, Exact, Fill PROVE Exact'
<1> USE DEF Basics, Exact
<1>1. /\ UNCHANGED <<linked, age, f_pos, task, nr, stable, lost, ended, mistaken>>
      /\ Born' = Born
  BY DEF Fill, groupVars, Born
<1>2. /\ pc = "fill" /\ f_version = NoTid /\ task \in Born /\ refs = 2
      /\ f_pos >= 2 /\ Cardinality(listed) = f_pos - 2
  BY DEF Fill, PositionCounts, TypeOK, CallTypeOK, RefsCounted
<1>3. ComesNext(task)
  BY <1>2 DEF InHand
<1>5. CASE room > 0
  <2>1. /\ room' = room - 1 /\ listed' = listed \cup {task} /\ pc' = "next"
        /\ f_version' = NoTid /\ refs' = 2
    BY <1>2, <1>5 DEF Fill
  <2>2. /\ listed \subseteq Born /\ linked \subseteq Born /\ Born \subseteq Threads
        /\ \A u \in Born : age[u] \in Int /\ (age[u] = age[task] => u = task)
    BY <1>2 DEF TypeOK, GroupTypeOK, Born, Ring
  <2>4. WalkCounts' /\ ListingComplete'
    BY <1>1, <2>1 DEF WalkCounts, ListingComplete
  <2>5. \A u \in listed : age[u] < age[task]
    BY <1>2, <1>3, <2>2 DEF ComesNext, Passed
  <2>6. Cardinality(listed') = Cardinality(listed) + 1
    BY <1>2, <2>1, <2>2, <2>5, CardAdd
  <2>7. PositionCounts'
    BY <1>1, <1>2, <2>1, <2>6 DEF PositionCounts, TypeOK, CallTypeOK
  <2>8. InHand'
    BY <1>1, <1>2, <2>1, <2>2, <2>5 DEF InHand
  <2>9. Behind' \subseteq Older(task) \cup {task}
    BY <1>1, <1>2, <2>1, <2>2, <2>5 DEF Behind, Older, Passed
  <2>10. PassedCounted'
    <3>1. Older(task) \in SUBSET Threads /\ Behind' \in SUBSET Threads /\ listed \in SUBSET Threads
      BY <1>2, <2>2, <2>9, Sets
    <3>2. Cardinality(Behind') <= Cardinality(Older(task) \cup {task})
      BY <1>2, <2>2, <2>9, <3>1, CardMono
    <3>3. Cardinality(Older(task) \cup {task}) <= Cardinality(Older(task)) + 1
      BY <1>2, <2>2, <3>1, CardAdd
    <3>4. Cardinality(Older(task)) <= Cardinality(listed)
      BY <1>3 DEF ComesNext
    <3>5. Older(task) \cup {task} \in SUBSET Threads
      BY <1>2, <2>2, <3>1
    <3>6. Cardinality(Behind') <= Cardinality(listed')
      BY <2>6, <3>1, <3>2, <3>3, <3>4, <3>5, CardNat
    <3>7. ~ lost' => Behind' \subseteq listed'
      BY <1>1, <1>3, <2>1, <2>9 DEF ComesNext
    <3> QED
      BY <3>6, <3>7 DEF PassedCounted
  <2> QED
    BY <2>4, <2>7, <2>8, <2>10
<1>6. CASE room = 0
  <2>1. left' = task /\ pc' = "idle" /\ UNCHANGED listed
    BY <1>2, <1>6 DEF Fill, Return
  <2>3. WalkCounts' /\ ListingComplete'
    BY <1>1, <2>1 DEF WalkCounts, ListingComplete
  <2>4. PositionCounts'
    BY <1>1, <1>2, <2>1 DEF PositionCounts
  <2>5. PassedCounted' /\ ComesNext(left)'
    BY <1>1, <1>3, <2>1, CallKeeps
  <2>6. InHand'
    BY <1>1, <1>2, <2>1, <2>5 DEF InHand
  <2> QED
    BY <2>3, <2>4, <2>5, <2>6
<1> QED
  BY <1>5, <1>6 DEF TypeOK, CallTypeOK

\* next_tid() goes on to the thread that comes next, or ends the call.
LEMMA NextTidExact == ASSUME Basics, Exact, NextTid PROVE Exact'
<1> USE DEF Basics, Exact
<1>1. /\ UNCHANGED <<linked, nxt, age, f_version, nr, listed, stable, lost, ended, mistaken>>
      /\ Born' = Born
  BY DEF NextTid, groupVars, history, Born
<1>2. /\ pc = "next" /\ f_version = NoTid /\ task \in Born /\ refs = 2
      /\ f_pos \in Nat /\ f_pos' = f_pos + 1
      /\ f_pos >= 2 /\ Cardinality(listed) = f_pos - 1
  BY DEF NextTid, PositionCounts, TypeOK, CallTypeOK, RefsCounted
<1>3. task \in listed /\ \A u \in listed : age[u] <= age[task]
  BY <1>2 DEF InHand
<1>4. \/ /\ task' = nxt[task] /\ nxt[task] # leader /\ task \in linked
         /\ pc' = "fill" /\ refs' = 2
      \/ task' = task /\ pc' = "idle" /\ refs' = 0
  BY <1>2 DEF NextTid, Return, pid_alive
<1>7. WalkCounts' /\ ListingComplete'
  BY <1>1, <1>4 DEF WalkCounts, ListingComplete
<1>8. PositionCounts'
  BY <1>1, <1>2, <1>4 DEF PositionCounts
<1>9. PassedCounted'
  BY <1>1, CallKeeps
<1>10. ASSUME NEW n \in Born, n = nxt[task], n # leader PROVE ComesNext(n)
  <2>1. /\ listed \subseteq Born /\ linked \subseteq Born
        /\ \A u \in Born : age[u] \in Int
    BY DEF TypeOK, GroupTypeOK, Born
  <2>2. /\ age[task] < age[n]
        /\ \A u \in linked : age[u] <= age[task] \/ age[n] <= age[u]
    BY <1>2, <1>10 DEF Ring
  <2>3. ~ Passed(n)
    BY <1>2, <1>3, <2>1, <2>2 DEF Passed
  <2>4. Older(n) \subseteq Behind
    BY <1>2, <1>3, <2>1, <2>2 DEF Older, Behind, Passed
  <2>5. /\ Older(n) \in SUBSET Threads /\ Behind \in SUBSET Threads
        /\ listed \in SUBSET Threads
    BY Sets
  <2>6. Cardinality(Older(n)) <= Cardinality(Behind)
    BY <2>4, <2>5, CardMono
  <2>7. Cardinality(Older(n)) <= Cardinality(listed)
    BY <2>5, <2>6, CardNat DEF PassedCounted
  <2>8. ~ lost => Older(n) \subseteq listed
    BY <2>4 DEF PassedCounted
  <2> QED
    BY <2>3, <2>7, <2>8 DEF ComesNext
<1>11. pc' = "fill" => ComesNext(task)'
  <2> SUFFICES ASSUME pc' = "fill" PROVE ComesNext(task)'
    OBVIOUS
  <2>1. nxt[task] \in Born /\ nxt[task] # leader /\ task' = nxt[task]
    BY <1>2, <1>4 DEF Ring
  <2>2. ComesNext(nxt[task])
    BY <1>10, <2>1
  <2> QED
    BY <1>1, <2>1, <2>2, CallKeeps
<1>12. InHand'
  BY <1>1, <1>2, <1>4, <1>11 DEF InHand
<1> QED
  BY <1>7, <1>8, <1>9, <1>12

-----------------------------------------------------------------------------
(* The list, the types and the references, which no mistake touches.       *)

\* What the steps of a call leave alone of the group, for its types.
LEMMA GroupKeeps ==
    ASSUME TypeOK, Ring, UNCHANGED groupVars
    PROVE  GroupTypeOK' /\ Ring' /\ Born' = Born
<1>1. UNCHANGED <<linked, nxt, age, tid, births>> /\ Born' = Born
  BY DEF groupVars, Born
<1> QED
  BY <1>1 DEF TypeOK, GroupTypeOK, Ring

\* Every step of a call keeps to the types and accounts for its references.
LEMMA CallBasics == ASSUME Basics, Rewind \/ Start \/ Call PROVE Basics'
<1> USE DEF Basics
<1>1. UNCHANGED groupVars
  BY DEF Call, Rewind, Start, Dots, DotsDone, First, Walk, Fill, NextTid, vars
<1>2. GroupTypeOK' /\ Ring' /\ Born' = Born /\ linked' = linked
  BY <1>1, GroupKeeps DEF groupVars
<1>3. CASE Rewind
  <2>1. RefsCounted'
    BY <1>3 DEF Rewind, RefsCounted
  <2>2. TypeOK'
    BY <1>2, <1>3 DEF Rewind, TypeOK, CallTypeOK, Ring
  <2> QED
    BY <1>2, <2>1, <2>2
<1>4. CASE Start
  <2>1. UNCHANGED <<f_pos, f_version, task, nr, history>>
    BY <1>4 DEF Start, vars
  <2>2. pc' \in {"idle", "dots"} /\ room' \in 0 .. MaxRoom /\ refs' \in Int
    BY <1>4 DEF Start, vars, TypeOK, CallTypeOK
  <2>3. RefsCounted'
    BY <1>4 DEF Start, vars, RefsCounted
  <2>4. TypeOK'
    BY <1>2, <2>1, <2>2 DEF TypeOK, CallTypeOK, history
  <2> QED
    BY <1>2, <2>3, <2>4
<1>5. CASE Dots
  <2>1. UNCHANGED <<f_version, task, nr, history>>
    BY <1>5 DEF Dots
  <2>2. /\ pc' \in {"idle", "dots"} /\ room' \in 0 .. MaxRoom /\ refs' \in Int
        /\ f_pos' \in Nat
    BY <1>5, RoomAssumption DEF Dots, Return, TypeOK, CallTypeOK
  <2>3. RefsCounted'
    BY <1>5 DEF Dots, Return, RefsCounted
  <2>4. TypeOK'
    BY <1>2, <2>1, <2>2 DEF TypeOK, CallTypeOK, history
  <2> QED
    BY <1>2, <2>3, <2>4
<1>6. CASE DotsDone
  <2>1. /\ pc = "dots" /\ UNCHANGED <<f_pos, room, listed, stable, lost, ended>>
        /\ f_version' = NoTid /\ left' = leader /\ nr' \in Nat
    BY <1>6 DEF DotsDone, WalkPast, TypeOK, CallTypeOK
  <2>2. PICK pos \in IF f_version # NoTid /\ nr' > 0
                     THEN find_task_by_pid_ns(f_version) ELSE {NULL} :
          \/ pos \in Threads /\ task' = pos /\ pc' = "fill" /\ refs' = refs + 1
          \/ task' = leader /\ pc' = "first" /\ refs' = refs
    BY <1>6 DEF DotsDone, InGroup
  <2>3. pos \in Threads => pos \in linked
    BY LeaderAssumption DEF find_task_by_pid_ns, Holders
  <2>4. task' \in Born /\ leader \in Born
    BY <2>2, <2>3 DEF Ring, TypeOK, GroupTypeOK
  <2>5. RefsCounted' /\ refs' \in Int /\ pc' \in {"fill", "first"}
    BY <2>1, <2>2 DEF RefsCounted, TypeOK, CallTypeOK
  <2>6. mistaken' \in BOOLEAN
    BY <1>6 DEF DotsDone, TypeOK
  <2>7. TypeOK'
    BY <1>2, <2>1, <2>4, <2>5, <2>6 DEF TypeOK, CallTypeOK
  <2> QED
    BY <1>2, <2>5, <2>7
<1>7. CASE First
  <2>1. UNCHANGED <<f_pos, f_version, task, nr, room, listed, stable, left, mistaken>>
    BY <1>7 DEF First
  <2>2. /\ pc' \in {"idle", "walk"} /\ refs' \in Int /\ RefsCounted'
    BY <1>7 DEF First, OutOfThreads, Return, RefsCounted, TypeOK, CallTypeOK
  <2>3. lost' \in BOOLEAN /\ ended' \in BOOLEAN
    BY <1>7 DEF First, OutOfThreads, TypeOK
  <2>4. TypeOK'
    BY <1>2, <2>1, <2>2, <2>3 DEF TypeOK, CallTypeOK
  <2> QED
    BY <1>2, <2>2, <2>4
<1>8. CASE Walk
  <2>1. UNCHANGED <<f_pos, f_version, room, listed, stable, lost, left, mistaken>>
    BY <1>8 DEF Walk
  <2>2. /\ pc' \in {"idle", "walk", "fill"} /\ refs' \in Int /\ RefsCounted'
    BY <1>8 DEF Walk, OutOfThreads, Return, RefsCounted, TypeOK, CallTypeOK
  <2>3. nr' \in Nat
    BY <1>8 DEF Walk, TypeOK, CallTypeOK
  <2>4. task' \in Born
    BY <1>8 DEF Walk, Ring, TypeOK, CallTypeOK
  <2>5. ended' \in BOOLEAN
    BY <1>8 DEF Walk, OutOfThreads, TypeOK
  <2>6. TypeOK'
    BY <1>2, <2>1, <2>2, <2>3, <2>4, <2>5 DEF TypeOK, CallTypeOK
  <2> QED
    BY <1>2, <2>2, <2>6
<1>9. CASE Fill
  <2>1. UNCHANGED <<f_pos, task, nr, stable, lost, ended, mistaken>>
    BY <1>9 DEF Fill
  <2>2. /\ pc' \in {"idle", "next"} /\ refs' \in Int /\ RefsCounted'
    BY <1>9 DEF Fill, Return, RefsCounted, TypeOK, CallTypeOK
  <2>3. room' \in 0 .. MaxRoom
    BY <1>9, RoomAssumption DEF Fill, TypeOK, CallTypeOK
  <2>4. f_version' \in Tids \cup {NoTid}
    BY <1>9 DEF Fill, task_pid_nr_ns, TypeOK, GroupTypeOK, CallTypeOK, Born
  <2>5. listed' \subseteq Born /\ left' \in Born
    BY <1>9 DEF Fill, TypeOK, CallTypeOK
  <2>6. TypeOK'
    BY <1>2, <2>1, <2>2, <2>3, <2>4, <2>5 DEF TypeOK, CallTypeOK
  <2> QED
    BY <1>2, <2>2, <2>6
<1>10. CASE NextTid
  <2>1. UNCHANGED <<f_version, nr, room, history>>
    BY <1>10 DEF NextTid
  <2>2. /\ pc' \in {"idle", "fill"} /\ refs' \in Int /\ RefsCounted'
    BY <1>10 DEF NextTid, Return, RefsCounted, TypeOK, CallTypeOK
  <2>3. f_pos' \in Nat
    BY <1>10 DEF NextTid, TypeOK, CallTypeOK
  <2>4. task' \in Born
    BY <1>10 DEF NextTid, Ring, TypeOK, CallTypeOK
  <2>5. TypeOK'
    BY <1>2, <2>1, <2>2, <2>3, <2>4 DEF TypeOK, CallTypeOK, history
  <2> QED
    BY <1>2, <2>2, <2>5
<1> QED
  BY <1>3, <1>4, <1>5, <1>6, <1>7, <1>8, <1>9, <1>10 DEF Call

\* So do threads that are created and exit.
LEMMA StepBasics == Basics /\ [Next]_vars => Basics'
<1> SUFFICES ASSUME Basics, [Next]_vars PROVE Basics'
  OBVIOUS
<1> USE DEF Basics
<1>1. ASSUME NEW t \in Threads, NEW k \in Tids, Create(t, k) PROVE Basics'
  <2>1. RefsCounted'
    BY <1>1 DEF Create, RefsCounted
  <2> QED
    BY <1>1, <2>1, CreateGroup
<1>2. ASSUME NEW t \in Threads, Exit(t) PROVE Basics'
  <2>1. RefsCounted'
    BY <1>2 DEF Exit, RefsCounted
  <2> QED
    BY <1>2, <2>1, ExitGroup
<1>3. CASE UNCHANGED vars
  <2>1. /\ UNCHANGED <<pc, f_pos, f_version, task, nr, room, refs>>
        /\ UNCHANGED <<listed, stable, lost, ended, left, mistaken>>
    BY <1>3 DEF vars, history
  <2>2. GroupTypeOK' /\ Ring' /\ Born' = Born /\ linked' = linked
    BY <1>3, GroupKeeps DEF vars, groupVars
  <2>3. TypeOK' /\ RefsCounted'
    BY <2>1, <2>2 DEF TypeOK, CallTypeOK, RefsCounted
  <2> QED
    BY <2>2, <2>3
<1> QED
  BY <1>1, <1>2, <1>3, CallBasics DEF Next

-----------------------------------------------------------------------------
(* The theorems.                                                           *)

LEMMA InitIInv == Init => IInv
<1> SUFFICES ASSUME Init PROVE IInv
  OBVIOUS
<1> USE LeaderAssumption, TidsAssumption, RoomAssumption DEF Init
<1>1. Born = {leader} /\ linked = {leader}
  BY DEF Born
<1>2. TypeOK
  <2>1. GroupTypeOK
    BY <1>1 DEF GroupTypeOK
  <2>2. CallTypeOK
    BY <1>1 DEF CallTypeOK
  <2> QED
    BY <1>1, <2>1, <2>2 DEF TypeOK
<1>3. Ring
  <2>1. /\ \A t \in Born : t = leader /\ nxt[t] = leader
        /\ linked = Born /\ leader \in Born /\ age[leader] = 1
    BY <1>1
  <2> HIDE DEF Init
  <2> QED
    BY <2>1 DEF Ring
<1>4. RefsCounted /\ PositionCounts /\ InHand /\ WalkCounts /\ ListingComplete
  BY DEF RefsCounted, PositionCounts, InHand, WalkCounts, ListingComplete
<1>5. PassedCounted
  <2>1. Behind = {} /\ listed = {}
    BY DEF Behind, Passed
  <2> QED
    BY <2>1, FS_EmptySet DEF PassedCounted
<1> QED
  BY <1>2, <1>3, <1>4, <1>5 DEF IInv, Basics, Exact

\* What was exact stays so until a call is mistaken; a mistake lasts until the
\* file is rewound.
LEMMA StepIInv == IInv /\ [Next]_vars => IInv'
<1> SUFFICES ASSUME IInv, [Next]_vars PROVE IInv'
  OBVIOUS
<1>1. Basics /\ Basics'
  BY StepBasics DEF IInv
<1>2. CASE Rewind
  BY <1>1, <1>2, RewindExact DEF IInv
<1>3. CASE mistaken /\ ~ Rewind
  <2>1. mistaken'
    BY <1>3 DEF Next, Create, Exit, Start, Call, Dots, DotsDone, First, Walk, Fill, NextTid,
       history, vars
  <2> QED
    BY <1>1, <2>1 DEF IInv
<1>4. CASE Exact
  <2>1. ASSUME NEW t \in Threads, NEW k \in Tids, Create(t, k) PROVE Exact'
    BY <1>1, <1>4, <2>1, CreateExact
  <2>2. ASSUME NEW t \in Threads, Exit(t) PROVE Exact'
    BY <1>1, <1>4, <2>2, ExitExact
  <2>3. CASE Start \/ Call
    BY <1>1, <1>4, <2>3, StartExact, DotsExact, DotsDoneExact, FirstExact, WalkExact, FillExact,
       NextTidExact DEF Call, IInv
  <2>4. CASE UNCHANGED vars
    <3>1. /\ UNCHANGED <<linked, nxt, age, births, pc, f_pos, f_version, task, nr>>
          /\ UNCHANGED <<listed, stable, lost, ended, left, mistaken>>
      BY <2>4 DEF vars, groupVars, history
    <3>2. PositionCounts' /\ ListingComplete'
      BY <1>4, <3>1 DEF Exact, PositionCounts, ListingComplete
    <3>3. PassedCounted' /\ InHand'
      BY <1>4, <3>1, CallKeeps DEF Exact, InHand
    <3>4. WalkCounts'
      <4>1. Born' = Born /\ Older(task)' = Older(task) /\ \A S : Ahead(S)' = Ahead(S)
        BY <3>1 DEF Born, Older, Ahead, Passed
      <4>2. Ahead(listed)' = Ahead(listed)
        BY <3>1 DEF Ahead, Passed
      <4>3. Counting => Counting'
        BY <3>1, <4>1 DEF Counting
      <4>4. CountingExact => CountingExact'
        BY <3>1, <4>1, <4>2 DEF CountingExact
      <4>5. WalkCounts
        BY <1>4 DEF Exact
      <4> QED
        BY <3>1, <4>3, <4>4, <4>5 DEF WalkCounts
    <3> QED
      BY <1>1, <3>2, <3>3, <3>4 DEF Exact, IInv
  <2> QED
    BY <1>1, <1>2, <2>1, <2>2, <2>3, <2>4 DEF Next, IInv
<1> QED
  BY <1>2, <1>3, <1>4 DEF IInv

\* The position and the order of the list, under any creations and exits and
\* any reuse of numbers: the invariant of proc_task_readdir() holds in every
\* state.
THEOREM Inductive == Spec => []IInv
  BY InitIInv, StepIInv, PTL DEF Spec

\* No call of getdents hands out a thread that was handed out since the rewind,
\* unless one was mistaken about the thread whose number it kept.
THEOREM NoThreadTwice == Spec => []NoDuplicate
<1>1. IInv => NoDuplicate
  <2> SUFFICES ASSUME IInv, pc = "fill", ~ mistaken PROVE task \notin listed
    BY DEF NoDuplicate
  <2>1. ~ Passed(task) /\ age[task] \in Int
    BY DEF IInv, Basics, Exact, InHand, ComesNext, TypeOK, GroupTypeOK, CallTypeOK, Born
  <2> QED
    BY <2>1 DEF Passed
<1> QED
  BY <1>1, Inductive, PTL

\* A listing that ends, its counts from the leader not off and no call of it
\* mistaken, is complete.
THEOREM NoThreadMissed == Spec => []ListingComplete
<1>1. IInv => ListingComplete
  BY DEF IInv, Exact, ListingComplete
<1> QED
  BY <1>1, Inductive, PTL

\* The group_leader check keeps the tasks of other processes out, mistaken or
\* not.
THEOREM NoStranger == Spec => []OnlyItsThreads
<1>1. IInv => OnlyItsThreads
  BY DEF IInv, Basics, TypeOK, Born, OnlyItsThreads
<1> QED
  BY <1>1, Inductive, PTL

\* A call that has returned holds no reference, whichever way it left.
THEOREM NoReferenceLeft == Spec => []RefsBalanced
<1>1. IInv => RefsBalanced
  BY DEF IInv, Basics, RefsCounted, RefsBalanced
<1> QED
  BY <1>1, Inductive, PTL
=============================================================================
