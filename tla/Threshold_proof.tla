--------------------------- MODULE Threshold_proof ---------------------------
(* Proofs about Threshold for every validator set that fits a byte *)
EXTENDS Threshold, FiniteSetTheorems, TLAPS

(***************************************************************************)
(* The counters lag behind the containers only while a user is between a   *)
(* change of them and set_decrease.                                        *)
(***************************************************************************)
Busy == pc \in {"counting", "draining"}

Exact ==
    /\ count.in_channel = Cardinality(adding) + Cardinality(channel) + removed
    /\ count.ready + count.delayed + removed
         = Cardinality(ready) + Cardinality(delayed)
    /\ ~Busy => /\ removed = 0
                /\ count.ready = Cardinality(ready)

\* What get_reached has promised and not yet moved is still in the channel
Promised ==
    /\ is_reached => Cardinality(ready) >= target_count
    /\ pc \in {"reached", "draining", "got"} => is_reached
    /\ pc = "draining" => expected \subseteq ready \cup (channel \cap max_time)
    /\ pc = "got" => expected \subseteq ready

IInv == TypeOK /\ NoPanic /\ NothingLost /\ Exact /\ Promised

-----------------------------------------------------------------------------
\* Subsets of the validator set are finite and counted by naturals
LEMMA Sizes ==
    ASSUME NEW S \in SUBSET Authors
    PROVE  IsFiniteSet(S) /\ Cardinality(S) \in Nat
<1>1. IsFiniteSet(S)
  BY PeerCountAssumption, FS_Subset
<1> QED
  BY <1>1, FS_CardinalityType

\* One element more, one element less
LEMMA OneMore ==
    ASSUME NEW S \in SUBSET Authors, NEW a \in Authors, a \notin S
    PROVE  Cardinality(S \cup {a}) = Cardinality(S) + 1
BY Sizes, FS_AddElement

LEMMA OneLess ==
    ASSUME NEW S \in SUBSET Authors, NEW a \in S
    PROVE  Cardinality(S \ {a}) = Cardinality(S) - 1
BY Sizes, FS_RemoveElement

\* Disjoint sets of points
LEMMA TwoSets ==
    ASSUME NEW S \in SUBSET Authors, NEW T \in SUBSET Authors, S \cap T = {}
    PROVE  Cardinality(S \cup T) = Cardinality(S) + Cardinality(T)
<1>1. /\ IsFiniteSet(S) /\ IsFiniteSet(T) /\ Cardinality(S) \in Nat
      /\ Cardinality(T) \in Nat
  BY Sizes
<1>2. Cardinality(S \cup T)
        = Cardinality(S) + Cardinality(T) - Cardinality(S \cap T)
  BY <1>1, FS_Union
<1>3. Cardinality(S \cap T) = 0
  BY FS_EmptySet
<1> QED
  BY <1>1, <1>2, <1>3

\* A subset is not larger
LEMMA Smaller ==
    ASSUME NEW S \in SUBSET Authors, NEW T \in SUBSET S
    PROVE  Cardinality(T) <= Cardinality(S)
BY Sizes, FS_Subset

\* The containers together hold what was added, and that fits a byte
LEMMA Total ==
    ASSUME TypeOK, NothingLost
    PROVE  /\ Cardinality(added) = Cardinality(adding) + Cardinality(channel)
                                     + Cardinality(delayed) + Cardinality(ready)
           /\ Cardinality(added) <= full
           /\ full <= U8Max
<1>1. Cardinality(adding \cup channel) = Cardinality(adding) + Cardinality(channel)
  BY TwoSets DEF TypeOK, NothingLost
<1>2. Cardinality((adding \cup channel) \cup delayed)
        = Cardinality(adding \cup channel) + Cardinality(delayed)
  BY TwoSets DEF TypeOK, NothingLost
<1>3. Cardinality((adding \cup channel \cup delayed) \cup ready)
        = Cardinality(adding \cup channel \cup delayed) + Cardinality(ready)
  BY TwoSets DEF TypeOK, NothingLost
<1>4. Cardinality(added) <= Cardinality(Authors)
  BY Smaller, Authors \in SUBSET Authors DEF TypeOK
<1>5. /\ Cardinality(Authors) \in Nat /\ Cardinality(added) \in Nat
      /\ Cardinality(adding) \in Nat /\ Cardinality(channel) \in Nat
      /\ Cardinality(delayed) \in Nat /\ Cardinality(ready) \in Nat
  BY Sizes, Authors \in SUBSET Authors DEF TypeOK
<1>6. added = (adding \cup channel \cup delayed) \cup ready
  BY DEF NothingLost
<1>7. Cardinality(added) = Cardinality((adding \cup channel \cup delayed) \cup ready)
  BY <1>6
<1>8. Cardinality(added) <= full /\ full <= U8Max
  BY <1>4, <1>5, PeerCountAssumption DEF full
<1> QED
  BY <1>1, <1>2, <1>3, <1>5, <1>7, <1>8

\* The bounds every action relies on
LEMMA Numbers ==
    ASSUME TypeOK
    PROVE  /\ Cardinality(adding) \in Nat /\ Cardinality(channel) \in Nat
           /\ Cardinality(delayed) \in Nat /\ Cardinality(ready) \in Nat
           /\ Cardinality(added) \in Nat
           /\ F \in Nat /\ full \in Nat /\ target_count \in Nat
           /\ count.ready \in Nat /\ count.delayed \in Nat
           /\ count.in_channel \in Nat /\ removed \in Nat
BY Sizes, PeerCountAssumption DEF TypeOK, full, target_count, U8Max

LEMMA InitInv == Init => IInv
<1> SUFFICES ASSUME Init PROVE IInv
  OBVIOUS
<1>0. count \in [ready : 0..U8Max, delayed : 0..U8Max, in_channel : 0..U8Max]
  BY DEF Init, U8Max
<1>1. TypeOK
  BY <1>0, Zenon DEF Init, TypeOK
<1>2. Cardinality({}) = 0
  BY FS_EmptySet
<1>3. NoPanic /\ NothingLost /\ Exact /\ Promised
  BY <1>2 DEF Init, NoPanic, NothingLost, Exact, Promised, Busy
<1> QED
  BY <1>1, <1>3 DEF IInv

-----------------------------------------------------------------------------
\* Taking a point from the channel moves it, counted, to ready or delayed
LEMMA TakeMoves ==
    ASSUME IInv, NEW a \in Authors, NEW fits \in SUBSET Authors, Take(a, fits),
           added' = added, adding' = adding
    PROVE  /\ channel' \in SUBSET Authors /\ delayed' \in SUBSET Authors
           /\ ready' \in SUBSET Authors
           /\ removed' = removed + 1 /\ panic' = panic
           /\ NothingLost'
           /\ Cardinality(channel') = Cardinality(channel) - 1
           /\ Cardinality(ready') + Cardinality(delayed')
                = Cardinality(ready) + Cardinality(delayed) + 1
           /\ Cardinality(ready') >= Cardinality(ready)
           /\ ready \subseteq ready'
           /\ ready \cup (channel \cap fits) \subseteq ready' \cup (channel' \cap fits)
<1>1. /\ a \in channel /\ a \notin delayed /\ a \notin ready /\ a \notin adding
  BY DEF IInv, Take, NothingLost
<1>2. /\ channel' = channel \ {a} /\ removed' = removed + 1
  BY DEF Take
<1>3. Cardinality(channel') = Cardinality(channel) - 1
  BY <1>1, <1>2, OneLess DEF IInv, TypeOK
<1>4. /\ Cardinality(ready) \in Nat /\ Cardinality(delayed) \in Nat
  BY Numbers DEF IInv
<1>5. CASE a \in fits
  <2>1. ready' = ready \cup {a} /\ delayed' = delayed /\ panic' = panic
    BY <1>1, <1>5 DEF Take, push_ready, IInv, TypeOK, NoPanic
  <2>2. Cardinality(ready') = Cardinality(ready) + 1
    BY <1>1, <2>1, OneMore DEF IInv, TypeOK
  <2>3. NothingLost'
    BY <1>1, <1>2, <2>1 DEF IInv, NothingLost
  <2>4. /\ channel' \in SUBSET Authors /\ delayed' \in SUBSET Authors
        /\ ready' \in SUBSET Authors /\ ready \subseteq ready'
        /\ ready \cup (channel \cap fits) \subseteq ready' \cup (channel' \cap fits)
    BY <1>1, <1>2, <2>1 DEF IInv, TypeOK
  <2>5. /\ Cardinality(ready') + Cardinality(delayed')
             = Cardinality(ready) + Cardinality(delayed) + 1
        /\ Cardinality(ready') >= Cardinality(ready)
    BY <1>4, <2>1, <2>2
  <2> QED
    BY <1>2, <1>3, <2>1, <2>3, <2>4, <2>5
<1>6. CASE a \notin fits
  <2>1. ready' = ready /\ delayed' = delayed \cup {a} /\ panic' = panic
    BY <1>6 DEF Take
  <2>2. Cardinality(delayed') = Cardinality(delayed) + 1
    BY <1>1, <2>1, OneMore DEF IInv, TypeOK
  <2>3. NothingLost'
    BY <1>1, <1>2, <2>1 DEF IInv, NothingLost
  <2>4. /\ channel' \in SUBSET Authors /\ delayed' \in SUBSET Authors
        /\ ready' \in SUBSET Authors /\ ready \subseteq ready'
        /\ ready \cup (channel \cap fits) \subseteq ready' \cup (channel' \cap fits)
    BY <1>1, <1>2, <1>6, <2>1 DEF IInv, TypeOK
  <2>5. /\ Cardinality(ready') + Cardinality(delayed')
             = Cardinality(ready) + Cardinality(delayed) + 1
        /\ Cardinality(ready') >= Cardinality(ready)
    BY <1>4, <2>1, <2>2
  <2> QED
    BY <1>2, <1>3, <2>1, <2>3, <2>4, <2>5
<1> QED
  BY <1>5, <1>6

\* set_decrease never fails and brings the counters up to date
LEMMA DecreaseWorks ==
    ASSUME IInv, set_decrease
    PROVE  /\ panic' = panic /\ removed' = 0
           /\ count' \in [ready : 0..U8Max, delayed : 0..U8Max, in_channel : 0..U8Max]
           /\ count'.ready = Cardinality(ready)
           /\ count'.delayed = Cardinality(delayed)
           /\ count'.in_channel = Cardinality(adding) + Cardinality(channel)
<1>1. /\ Cardinality(added) = Cardinality(adding) + Cardinality(channel)
                                + Cardinality(delayed) + Cardinality(ready)
      /\ Cardinality(added) <= full /\ full <= U8Max
  BY Total DEF IInv
<1>2. /\ Cardinality(adding) \in Nat /\ Cardinality(channel) \in Nat
      /\ Cardinality(delayed) \in Nat /\ Cardinality(ready) \in Nat
      /\ full \in Nat /\ removed \in Nat /\ U8Max = 255
  BY Numbers DEF IInv, U8Max
<1>3. count.in_channel = Cardinality(adding) + Cardinality(channel) + removed
  BY DEF IInv, Exact
<1>4. /\ Cardinality(ready) <= U8Max /\ Cardinality(delayed) <= U8Max
      /\ removed <= count.in_channel
  BY <1>1, <1>2, <1>3
<1>5. count' = Decreased /\ panic' = panic /\ removed' = 0
  BY <1>4 DEF set_decrease
<1>6. count.in_channel - removed = Cardinality(adding) + Cardinality(channel)
  BY <1>2, <1>3
<1>7. /\ Cardinality(ready) \in 0..U8Max /\ Cardinality(delayed) \in 0..U8Max
      /\ Cardinality(adding) + Cardinality(channel) \in 0..U8Max
  <2>1. /\ Cardinality(ready) <= 255 /\ Cardinality(delayed) <= 255
        /\ Cardinality(adding) + Cardinality(channel) <= 255
    BY <1>1, <1>2
  <2>2. Cardinality(adding) + Cardinality(channel) \in Nat
    BY <1>2
  <2>3. \A x \in Nat : x <= 255 => x \in 0..255
    OBVIOUS
  <2> QED
    BY <1>2, <2>1, <2>2, <2>3, SMTT(30)
<1> QED
  BY <1>5, <1>6, <1>7 DEF Decreased

\* Making delayed points ready
LEMMA ExpireMoves ==
    ASSUME IInv, NEW S \in SUBSET delayed, push_ready(S), delayed' = delayed \ S,
           added' = added, adding' = adding, channel' = channel
    PROVE  /\ delayed' \in SUBSET Authors /\ ready' \in SUBSET Authors
           /\ panic' = panic /\ NothingLost'
           /\ ready' = ready \cup S
           /\ Cardinality(ready') + Cardinality(delayed')
                = Cardinality(ready) + Cardinality(delayed)
           /\ Cardinality(ready') >= Cardinality(ready)
<1>1. /\ S \cap ready = {} /\ S \in SUBSET Authors
      /\ delayed \ S \in SUBSET Authors
  BY DEF IInv, NothingLost, TypeOK
<1>2. ready' = ready \cup S /\ panic' = panic
  BY <1>1 DEF push_ready, IInv, NoPanic, TypeOK
<1>3. Cardinality(ready \cup S) = Cardinality(ready) + Cardinality(S)
  BY <1>1, TwoSets DEF IInv, TypeOK
<1>4. Cardinality((delayed \ S) \cup S) = Cardinality(delayed \ S) + Cardinality(S)
  BY <1>1, TwoSets
<1>5. (delayed \ S) \cup S = delayed
  OBVIOUS
<1>6. /\ Cardinality(ready) \in Nat /\ Cardinality(S) \in Nat
      /\ Cardinality(delayed \ S) \in Nat
  BY <1>1, Sizes DEF IInv, TypeOK
<1>7. NothingLost'
  BY <1>1, <1>2 DEF IInv, NothingLost
<1>8. Cardinality(delayed) = Cardinality(delayed \ S) + Cardinality(S)
  BY <1>4, <1>5, SMTT(30)
<1>9. /\ Cardinality(ready') + Cardinality(delayed')
           = Cardinality(ready) + Cardinality(delayed)
      /\ Cardinality(ready') >= Cardinality(ready)
  BY <1>2, <1>3, <1>6, <1>8
<1> QED
  BY <1>1, <1>2, <1>7, <1>9 DEF IInv, TypeOK

-----------------------------------------------------------------------------
\* Every step keeps the invariant
LEMMA StepInv == IInv /\ [Next]_vars => IInv'
<1> SUFFICES ASSUME IInv, [Next]_vars PROVE IInv'
  OBVIOUS
<1> USE DEF adders, work, call
<1>n. /\ Cardinality(adding) \in Nat /\ Cardinality(channel) \in Nat
      /\ Cardinality(delayed) \in Nat /\ Cardinality(ready) \in Nat
      /\ Cardinality(added) \in Nat
      /\ F \in Nat /\ full \in Nat /\ target_count \in Nat
      /\ count.ready \in Nat /\ count.delayed \in Nat
      /\ count.in_channel \in Nat /\ removed \in Nat /\ U8Max = 255
  BY Numbers DEF IInv, U8Max
<1>t. /\ Cardinality(added) = Cardinality(adding) + Cardinality(channel)
                                + Cardinality(delayed) + Cardinality(ready)
      /\ Cardinality(added) <= full /\ full <= U8Max
  BY Total DEF IInv
<1>1. ASSUME NEW a \in Authors, add_one_in_channel(a) PROVE IInv'
  <2>1. /\ a \notin adding /\ added' = added \cup {a} /\ adding' = adding \cup {a}
        /\ UNCHANGED <<work, is_reached, due, call>>
    BY <1>1 DEF add_one_in_channel, IInv, NothingLost
  <2>2. Cardinality(adding') = Cardinality(adding) + 1
    BY <2>1, OneMore DEF IInv, TypeOK
  <2>3. NothingLost'
    BY <1>1, <2>1 DEF add_one_in_channel, IInv, NothingLost
  <2>4. added' \in SUBSET Authors /\ adding' \in SUBSET Authors
    BY <2>1 DEF IInv, TypeOK
  <2>5. Cardinality(added') <= full
    <3>1. Cardinality(added') <= Cardinality(Authors)
      BY <2>4, Smaller, Authors \in SUBSET Authors
    <3>2. Cardinality(added') \in Nat /\ Cardinality(Authors) \in Nat
      BY <2>4, Sizes, Authors \in SUBSET Authors
    <3> QED
      BY <3>1, <3>2, PeerCountAssumption DEF full
  <2>6. Cardinality(added') = Cardinality(added) + 1
    BY <1>1, <2>1, OneMore DEF add_one_in_channel, IInv, TypeOK
  \* what is counted in the channel is at most what was added
  <2>7. count.in_channel < U8Max
    <3>1. count.in_channel = Cardinality(adding) + Cardinality(channel) + removed
      BY DEF IInv, Exact
    <3>2. count.ready + count.delayed + removed
            = Cardinality(ready) + Cardinality(delayed)
      BY DEF IInv, Exact
    <3>3. removed <= Cardinality(ready) + Cardinality(delayed)
      BY <1>n, <3>2
    <3>4. Cardinality(added) < U8Max
      BY <1>n, <1>t, <2>5, <2>6
    <3> QED
      BY <1>n, <1>t, <3>1, <3>3, <3>4
  <2>8. /\ count' = [count EXCEPT !.in_channel = @ + 1] /\ panic' = panic
    BY <1>1, <2>7 DEF add_one_in_channel
  <2>9. /\ count' \in [ready : 0..U8Max, delayed : 0..U8Max, in_channel : 0..U8Max]
        /\ count'.ready = count.ready /\ count'.delayed = count.delayed
        /\ count'.in_channel = count.in_channel + 1
    BY <1>n, <2>7, <2>8 DEF IInv, TypeOK
  <2>10. TypeOK' /\ NoPanic'
    BY <2>1, <2>4, <2>8, <2>9 DEF IInv, TypeOK, NoPanic
  <2>11. Exact'
    BY <1>n, <2>1, <2>2, <2>9 DEF IInv, Exact, Busy
  <2>12. Promised'
    BY <2>1 DEF IInv, Promised
  <2> QED
    BY <2>3, <2>10, <2>11, <2>12 DEF IInv
<1>2. ASSUME NEW a \in Authors, try_send(a) PROVE IInv'
  <2>1. a \in adding /\ a \notin channel /\ adding' = adding \ {a}
    BY <1>2 DEF try_send, IInv, NothingLost
  <2>2. Cardinality(adding') = Cardinality(adding) - 1
    BY <2>1, OneLess DEF IInv, TypeOK
  <2>3. Cardinality(adding') \in Nat
    BY <2>1, Sizes DEF IInv, TypeOK
  \* the point to send has not taken its place yet
  <2>4. Cardinality(channel) < full
    BY <1>n, <1>t, <2>2, <2>3
  <2>5. /\ channel' = channel \cup {a} /\ panic' = panic
        /\ UNCHANGED <<added, delayed, ready, count, is_reached, due, call>>
    BY <1>2, <2>4 DEF try_send
  <2>6. Cardinality(channel') = Cardinality(channel) + 1
    BY <2>1, <2>5, OneMore DEF IInv, TypeOK
  <2>7. NothingLost'
    BY <2>1, <2>5 DEF IInv, NothingLost
  <2>8. TypeOK' /\ NoPanic'
    BY <2>1, <2>5 DEF IInv, TypeOK, NoPanic
  <2>9. Exact'
    BY <1>n, <2>2, <2>5, <2>6 DEF IInv, Exact, Busy
  <2>10. Promised'
    BY <2>5 DEF IInv, Promised
  <2> QED
    BY <2>7, <2>8, <2>9, <2>10 DEF IInv
<1>3. ASSUME NEW a \in Authors, TimePasses(a) PROVE IInv'
  <2>1. /\ due' \in SUBSET Authors
        /\ UNCHANGED <<adders, work, count, is_reached, call, panic>>
    BY <1>3 DEF TimePasses, IInv, TypeOK
  <2>2. TypeOK' /\ NoPanic'
    BY <2>1 DEF IInv, TypeOK, NoPanic
  <2>3. NothingLost' /\ Exact' /\ Promised'
    BY <2>1 DEF IInv, NothingLost, Exact, Promised, Busy
  <2> QED
    BY <2>2, <2>3 DEF IInv
<1>4. ASSUME NEW a \in Authors, Receive(a) PROVE IInv'
  <2>1. /\ Take(a, due) /\ pc = "waiting" /\ pc' = "counting"
        /\ UNCHANGED <<adders, count, is_reached, due, user, max_time, expected>>
    BY <1>4 DEF Receive, Waiting
  <2>2. due \in SUBSET Authors
    BY DEF IInv, TypeOK
  <2>3. /\ channel' \in SUBSET Authors /\ delayed' \in SUBSET Authors
        /\ ready' \in SUBSET Authors
        /\ removed' = removed + 1 /\ panic' = panic
        /\ NothingLost'
        /\ Cardinality(channel') = Cardinality(channel) - 1
        /\ Cardinality(ready') + Cardinality(delayed')
             = Cardinality(ready) + Cardinality(delayed) + 1
        /\ Cardinality(ready') >= Cardinality(ready)
    BY <2>1, <2>2, TakeMoves
  <2>4. TypeOK' /\ NoPanic'
    BY <1>n, <2>1, <2>3 DEF IInv, TypeOK, NoPanic
  <2>5. Exact'
    BY <1>n, <2>1, <2>3 DEF IInv, Exact, Busy
  <2>6. Promised'
    <3>1. Cardinality(ready') \in Nat
      BY <2>3, Sizes
    <3> QED
      BY <1>n, <2>1, <2>3, <3>1 DEF IInv, Promised, target_count
  <2> QED
    BY <2>3, <2>4, <2>5, <2>6 DEF IInv
<1>5. ASSUME NEW a \in Authors, Expire(a) PROVE IInv'
  <2>1. /\ {a} \in SUBSET delayed /\ push_ready({a}) /\ delayed' = delayed \ {a}
        /\ pc = "waiting" /\ pc' = "counting"
        /\ UNCHANGED <<adders, channel, count, is_reached, due, user, removed,
                       max_time, expected>>
    BY <1>5 DEF Expire, Waiting
  <2>2. /\ delayed' \in SUBSET Authors /\ ready' \in SUBSET Authors
        /\ panic' = panic /\ NothingLost'
        /\ Cardinality(ready') + Cardinality(delayed')
             = Cardinality(ready) + Cardinality(delayed)
        /\ Cardinality(ready') >= Cardinality(ready)
    BY <2>1, ExpireMoves
  <2>3. TypeOK' /\ NoPanic'
    BY <2>1, <2>2 DEF IInv, TypeOK, NoPanic
  <2>4. Exact'
    BY <1>n, <2>1, <2>2 DEF IInv, Exact, Busy
  <2>5. Promised'
    <3>1. Cardinality(ready') \in Nat
      BY <2>2, Sizes
    <3> QED
      BY <1>n, <2>1, <2>2, <3>1 DEF IInv, Promised, target_count
  <2> QED
    BY <2>2, <2>3, <2>4, <2>5 DEF IInv
<1>6. ASSUME NEW a \in Authors, Drain(a) PROVE IInv'
  <2>1. /\ Take(a, max_time) /\ pc = "draining"
        /\ UNCHANGED <<adders, count, is_reached, due, user, pc, max_time, expected>>
    BY <1>6 DEF Drain
  <2>2. max_time \in SUBSET Authors
    BY DEF IInv, TypeOK
  <2>3. /\ channel' \in SUBSET Authors /\ delayed' \in SUBSET Authors
        /\ ready' \in SUBSET Authors
        /\ removed' = removed + 1 /\ panic' = panic
        /\ NothingLost'
        /\ Cardinality(channel') = Cardinality(channel) - 1
        /\ Cardinality(ready') + Cardinality(delayed')
             = Cardinality(ready) + Cardinality(delayed) + 1
        /\ Cardinality(ready') >= Cardinality(ready)
        /\ ready \cup (channel \cap max_time)
             \subseteq ready' \cup (channel' \cap max_time)
    BY <2>1, <2>2, TakeMoves
  <2>4. TypeOK' /\ NoPanic'
    BY <1>n, <2>1, <2>3, SMTT(30) DEF IInv, TypeOK, NoPanic
  <2>5. Exact'
    BY <1>n, <2>1, <2>3 DEF IInv, Exact, Busy
  <2>6. Promised'
    <3>1. Cardinality(ready') \in Nat
      BY <2>3, Sizes
    <3>2. is_reached' => Cardinality(ready') >= target_count
      BY <1>n, <2>1, <2>3, <3>1 DEF IInv, Promised
    <3>3. expected' \subseteq ready' \cup (channel' \cap max_time')
      BY <2>1, <2>3 DEF IInv, Promised
    <3> QED
      BY <2>1, <3>2, <3>3 DEF IInv, Promised, target_count
  <2> QED
    BY <2>3, <2>4, <2>5, <2>6 DEF IInv
<1>7. CASE CallReached
  <2>1. /\ pc = "idle" /\ pc' \in {"reached", "waiting"} /\ (pc' = "reached" => is_reached)
        /\ UNCHANGED <<adders, work, count, is_reached, due, user, removed,
                       max_time, expected, panic>>
    BY <1>7 DEF CallReached
  <2>2. TypeOK' /\ NoPanic'
    BY <2>1 DEF IInv, TypeOK, NoPanic
  <2>3. NothingLost' /\ Exact' /\ Promised'
    BY <2>1 DEF IInv, NothingLost, Exact, Promised, Busy
  <2> QED
    BY <2>2, <2>3 DEF IInv
<1>8. CASE Count
  <2>1. /\ set_decrease /\ pc = "counting" /\ pc' = "waiting"
        /\ UNCHANGED <<adders, work, is_reached, due, user, max_time, expected>>
    BY <1>8 DEF Count
  <2>2. /\ panic' = panic /\ removed' = 0
        /\ count' \in [ready : 0..U8Max, delayed : 0..U8Max, in_channel : 0..U8Max]
        /\ count'.ready = Cardinality(ready)
        /\ count'.delayed = Cardinality(delayed)
        /\ count'.in_channel = Cardinality(adding) + Cardinality(channel)
    BY <2>1, DecreaseWorks
  <2>3. TypeOK' /\ NoPanic'
    BY <2>1, <2>2 DEF IInv, TypeOK, NoPanic
  <2>4. Exact'
    BY <1>n, <2>1, <2>2 DEF Exact, Busy
  <2>5. NothingLost' /\ Promised'
    BY <2>1 DEF IInv, NothingLost, Promised
  <2> QED
    BY <2>3, <2>4, <2>5 DEF IInv
<1>9. CASE Reached
  <2>1. /\ pc = "waiting" /\ pc' = "reached" /\ is_reached' = TRUE
        /\ Cardinality(ready) >= target_count
        /\ UNCHANGED <<adders, work, count, due, user, removed, max_time, expected,
                       panic>>
    BY <1>9 DEF Reached
  <2>2. TypeOK' /\ NoPanic'
    BY <2>1 DEF IInv, TypeOK, NoPanic
  <2>3. NothingLost' /\ Exact' /\ Promised'
    BY <2>1 DEF IInv, NothingLost, Exact, Promised, Busy
  <2> QED
    BY <2>2, <2>3 DEF IInv
<1>10. CASE CollectorLeaves \/ ProducerLeaves
  <2>1. /\ pc \in {"idle", "reached", "waiting"} /\ pc' = "idle"
        /\ user' \in {"producer", "nobody"}
        /\ UNCHANGED <<adders, work, count, is_reached, due, removed, max_time,
                       expected, panic>>
    BY <1>10 DEF CollectorLeaves, ProducerLeaves, Waiting, NextUser
  <2>2. TypeOK' /\ NoPanic'
    BY <2>1 DEF IInv, TypeOK, NoPanic
  <2>3. NothingLost' /\ Exact' /\ Promised'
    BY <2>1 DEF IInv, NothingLost, Exact, Promised, Busy
  <2> QED
    BY <2>2, <2>3 DEF IInv
<1>11. CASE GetDelayed
  <2>1. /\ push_ready(delayed \cap due) /\ delayed' = delayed \ (delayed \cap due)
        /\ max_time' = due /\ expected' = ready \cup ((channel \cup delayed) \cap due)
        /\ pc = "reached" /\ pc' = "draining"
        /\ UNCHANGED <<adders, channel, count, is_reached, due, user, removed>>
    BY <1>11 DEF GetDelayed
  <2>2. /\ delayed' \in SUBSET Authors /\ ready' \in SUBSET Authors
        /\ panic' = panic /\ NothingLost'
        /\ ready' = ready \cup (delayed \cap due)
        /\ Cardinality(ready') + Cardinality(delayed')
             = Cardinality(ready) + Cardinality(delayed)
        /\ Cardinality(ready') >= Cardinality(ready)
    BY <2>1, delayed \cap due \in SUBSET delayed, ExpireMoves
  <2>3. max_time' \in SUBSET Authors /\ expected' \in SUBSET Authors
    BY <2>1 DEF IInv, TypeOK
  <2>4. TypeOK' /\ NoPanic'
    BY <2>1, <2>2, <2>3 DEF IInv, TypeOK, NoPanic
  <2>5. Exact'
    BY <1>n, <2>1, <2>2 DEF IInv, Exact, Busy
  <2>6. Promised'
    <3>1. Cardinality(ready') \in Nat
      BY <2>2, Sizes
    <3>2. is_reached' /\ Cardinality(ready') >= target_count
      BY <1>n, <2>1, <2>2, <3>1 DEF IInv, Promised
    <3>3. expected' \subseteq ready' \cup (channel' \cap max_time')
      BY <2>1, <2>2
    <3> QED
      BY <2>1, <3>2, <3>3 DEF Promised, target_count
  <2> QED
    BY <2>2, <2>4, <2>5, <2>6 DEF IInv
<1>12. CASE GetReached
  <2>1. /\ set_decrease /\ channel = {} /\ pc = "draining" /\ pc' = "got"
        /\ user' \in {"producer", "nobody"}
        /\ UNCHANGED <<adders, work, is_reached, due, max_time, expected>>
    BY <1>12 DEF GetReached, Drained, NextUser
  <2>2. /\ panic' = panic /\ removed' = 0
        /\ count' \in [ready : 0..U8Max, delayed : 0..U8Max, in_channel : 0..U8Max]
        /\ count'.ready = Cardinality(ready)
        /\ count'.delayed = Cardinality(delayed)
        /\ count'.in_channel = Cardinality(adding) + Cardinality(channel)
    BY <2>1, DecreaseWorks
  <2>3. TypeOK' /\ NoPanic'
    BY <2>1, <2>2 DEF IInv, TypeOK, NoPanic
  <2>4. Exact'
    BY <1>n, <2>1, <2>2 DEF Exact, Busy
  <2>5. NothingLost' /\ Promised'
    BY <2>1 DEF IInv, NothingLost, Promised
  <2> QED
    BY <2>3, <2>4, <2>5 DEF IInv
<1>13. CASE UNCHANGED vars
  <2>1. TypeOK' /\ NoPanic'
    BY <1>13 DEF vars, IInv, TypeOK, NoPanic
  <2>2. NothingLost' /\ Exact' /\ Promised'
    BY <1>13 DEF vars, IInv, NothingLost, Exact, Promised, Busy
  <2> QED
    BY <2>1, <2>2 DEF IInv
<1> QED
  BY <1>1, <1>2, <1>3, <1>4, <1>5, <1>6, <1>7, <1>8, <1>9, <1>10, <1>11, <1>12,
     <1>13 DEF Next, UserSteps, add

-----------------------------------------------------------------------------
\* The inductive invariant holds in every reachable state of a threshold
THEOREM Invariant == Spec => []IInv
BY InitInv, StepInv, PTL DEF Spec

\* No order of add(), reached(), its cancellation and get_reached() panics: the
\* channel of 3F+1 points is never full and no byte counter over- or underflows
THEOREM ThresholdNeverPanics == Spec => []NoPanic
<1>1. IInv => NoPanic
  BY DEF IInv
<1> QED
  BY <1>1, Invariant, PTL

\* A point that was added is in exactly one of the channel, the delay queue and
\* the ready points, whenever the waiting future was dropped
THEOREM NoPointIsLost == Spec => []NothingLost
<1>1. IInv => NothingLost
  BY DEF IInv
<1> QED
  BY <1>1, Invariant, PTL

\* ThresholdCount::total is the number of points added, at every moment
THEOREM TotalIsAlwaysExact == Spec => []TotalIsExact
<1>1. IInv => TotalIsExact
  <2> SUFFICES ASSUME IInv PROVE TotalIsExact
    OBVIOUS
  <2>1. Cardinality(added) = Cardinality(adding) + Cardinality(channel)
                               + Cardinality(delayed) + Cardinality(ready)
    BY Total DEF IInv
  <2>2. /\ Cardinality(adding) \in Nat /\ Cardinality(channel) \in Nat
        /\ Cardinality(delayed) \in Nat /\ Cardinality(ready) \in Nat
        /\ count.ready \in Nat /\ count.delayed \in Nat
        /\ count.in_channel \in Nat /\ removed \in Nat
    BY Numbers DEF IInv
  <2>3. /\ count.in_channel = Cardinality(adding) + Cardinality(channel) + removed
        /\ count.ready + count.delayed + removed
             = Cardinality(ready) + Cardinality(delayed)
    BY DEF IInv, Exact
  <2>4. count.ready + count.delayed + count.in_channel = Cardinality(added)
    BY <2>1, <2>2, <2>3
  <2> QED
    BY <2>4 DEF TotalIsExact
<1> QED
  BY <1>1, Invariant, PTL

\* get_reached returns a majority and every point there and due at the call
THEOREM IncludesAreAlwaysComplete == Spec => []IncludesAreComplete
<1>1. IInv => IncludesAreComplete
  BY DEF IInv, Promised, IncludesAreComplete
<1> QED
  BY <1>1, Invariant, PTL
=============================================================================
