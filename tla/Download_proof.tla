--------------------------- MODULE Download_proof ---------------------------
(* A download that gives up is right to do so, []NotFoundIsUnproven; and the limiter in
   front of it keeps its credits, []Credits.                                    *)
EXTENDS Downloads, TLAPS, FiniteSetTheorems

(* The sum of a function as the number of its units.                           *)
LEMMA UnitOf ==
  ASSUME NEW f, NEW u
  PROVE  u \in Units(f) <=> \E x \in DOMAIN f : \E k \in 1 .. f[x] : u = <<x, k>>
BY DEF Units

LEMMA UnitsFinite ==
  ASSUME NEW S, IsFiniteSet(S), NEW f \in [S -> Nat]
  PROVE  IsFiniteSet(Units(f)) /\ Total(f) \in Nat
<1> DEFINE T == {{x} \X (1 .. f[x]) : x \in DOMAIN f}
           h == [x \in S |-> {x} \X (1 .. f[x])]
<1>1. h \in Surjection(S, T) BY Zenon DEF Surjection
<1>2. IsFiniteSet(T) BY <1>1, FS_Surjection
<1>3. ASSUME NEW U \in T PROVE IsFiniteSet(U)
  <2>1. PICK x \in S : U = {x} \X (1 .. f[x]) OBVIOUS
  <2>2. IsFiniteSet({x}) BY FS_Singleton, Zenon
  <2>3. 1 \in Int /\ f[x] \in Int OBVIOUS
  <2>4. IsFiniteSet(1 .. f[x]) BY <2>3, FS_Interval
  <2> QED BY <2>1, <2>2, <2>4, FS_Product, Zenon
<1>4. IsFiniteSet(UNION T) BY <1>2, <1>3, FS_UNION, Zenon
<1> QED BY <1>4, FS_CardinalityType DEF Units, Total

(* One more at x, which may be new.                                             *)
LEMMA OneMore ==
  ASSUME NEW S, NEW T, IsFiniteSet(S), NEW f \in [S -> Nat], NEW g \in [T -> Nat],
         NEW x \in T, T = S \cup {x}, \A y \in S \ {x} : g[y] = f[y],
         g[x] = (IF x \in S THEN f[x] ELSE 0) + 1
  PROVE  Total(g) = Total(f) + 1 /\ Total(f) \in Nat
<1> DEFINE new == <<x, g[x]>>
<1>1. new \notin Units(f)
  <2> SUFFICES ASSUME new \in Units(f) PROVE FALSE OBVIOUS
  <2>1. PICK y \in S : \E k \in 1 .. f[y] : new = <<y, k>> BY UnitOf
  <2> QED BY <2>1
<1>2. ASSUME NEW u PROVE u \in Units(g) <=> u \in Units(f) \cup {new}
  <2>1. ASSUME u \in Units(g) PROVE u \in Units(f) \cup {new}
    <3>1. PICK y \in T : \E k \in 1 .. g[y] : u = <<y, k>> BY <2>1, UnitOf
    <3>2. PICK k \in 1 .. g[y] : u = <<y, k>> BY <3>1
    <3>3. CASE y # x
      <4>1. y \in S /\ g[y] = f[y] BY <3>3
      <4> QED BY <4>1, <3>2, UnitOf
    <3>4. CASE y = x /\ k = g[x] BY <3>2, <3>4
    <3>5. CASE y = x /\ k # g[x]
      <4>1. x \in S /\ k \in 1 .. f[x] BY <3>5
      <4> QED BY <4>1, <3>2, <3>5, UnitOf
    <3> QED BY <3>3, <3>4, <3>5
  <2>2. ASSUME u \in Units(f) PROVE u \in Units(g)
    <3>1. PICK y \in S : \E k \in 1 .. f[y] : u = <<y, k>> BY <2>2, UnitOf
    <3>2. PICK k \in 1 .. f[y] : u = <<y, k>> BY <3>1
    <3>3. y \in T /\ k \in 1 .. g[y] BY <3>2
    <3> QED BY <3>2, <3>3, UnitOf
  <2>3. new \in Units(g)
    <3>1. g[x] \in 1 .. g[x] OBVIOUS
    <3> QED BY <3>1, UnitOf
  <2> QED BY <2>1, <2>2, <2>3
<1>3. Units(g) = Units(f) \cup {new} BY <1>2
<1>4. IsFiniteSet(Units(f)) /\ Total(f) \in Nat BY UnitsFinite
<1> HIDE DEF new
<1> QED BY <1>1, <1>3, <1>4, FS_AddElement, Zenon DEF Total
-----------------------------------------------------------------------------
\* The tasks that came to a semaphore and have not passed it.
At(s) == {g \in Guests : phase[g] \in {"waiting", "lost"} /\ semOf[g] = s}

\* Those of them that the entry of the round still counts.
Open(s) == IF RoundOf[s] \in DOMAIN waiters /\ waiters[RoundOf[s]].sem = s
           THEN waiters[RoundOf[s]].inflight ELSE 0

(* The counts hold for each semaphore, which a task of its round made; and a queue is
   made only while the bypass is exhausted, which lasts as long as the queue.   *)
LInv ==
  /\ LimiterTypeOK
  /\ \A r \in DOMAIN waiters :
        waiters[r].inflight > 0 /\ RoundOf[waiters[r].sem] = r /\ phase[waiters[r].sem] # "new"
  /\ \A g \in Guests : phase[g] \in {"waiting", "lost"} => phase[semOf[g]] # "new"
  /\ \A s \in Guests : phase[s] = "new" => permits[s] = 0
  /\ \A s \in Guests : Cardinality(At(s)) = permits[s] + Open(s)
  /\ DOMAIN waiters # {} => bypassed > DownloadTasks
  /\ bypassed = Cardinality(In("inside")) + Total(permits)
  /\ Total(permits) + Total(Inflight) = Cardinality(In("waiting") \cup In("lost"))

LEMMA GuestSets ==
  ASSUME NEW S, S \subseteq Guests
  PROVE  IsFiniteSet(S) /\ Cardinality(S) \in Nat
BY LimiterAssumption, FS_Subset, FS_CardinalityType

LEMMA Disjoint ==
  ASSUME NEW S, NEW T, S \subseteq Guests, T \subseteq Guests, S \cap T = {}
  PROVE  Cardinality(S \cup T) = Cardinality(S) + Cardinality(T)
<1>1. IsFiniteSet(S) /\ IsFiniteSet(T) /\ Cardinality(S) \in Nat /\ Cardinality(T) \in Nat
  BY GuestSets
<1>2. Cardinality(S \cap T) = 0 BY FS_EmptySet
<1>3. Cardinality(S \cup T) = Cardinality(S) + Cardinality(T) - Cardinality(S \cap T) BY <1>1, FS_Union
<1> QED BY <1>1, <1>2, <1>3

LEMMA RoundsFinite ==
  ASSUME LimiterTypeOK
  PROVE  IsFiniteSet(DOMAIN waiters) /\ Inflight \in [DOMAIN waiters -> Nat]
<1>1. RoundOf \in Surjection(Guests, Range(RoundOf)) BY LimiterAssumption DEF Surjection, Range
<1>2. IsFiniteSet(Range(RoundOf)) BY <1>1, LimiterAssumption, FS_Surjection
<1> QED BY <1>2, FS_Subset DEF LimiterTypeOK, Inflight

(* If no permit is on its way to somebody in the queue, the entries still count all who
   wait there, so that the permits left belong to tasks lost.                   *)
LEMMA LInvCredits == LInv => Credits
<1> SUFFICES ASSUME LInv, In("waiting") # {}, In("inside") = {},
                    \A g \in In("waiting") : ~ (permits[semOf[g]] > 0)
             PROVE  Cardinality(In("lost")) > DownloadTasks
  BY DEF LInv, Credits
<1> DEFINE W == In("waiting")
           Bij(g) == CHOOSE b \in Bijection(At(semOf[g]), 1 .. Open(semOf[g])) : TRUE
           f == [g \in W |-> <<RoundOf[semOf[g]], Bij(g)[g]>>]
<1>1. ASSUME NEW g \in W
      PROVE  /\ semOf[g] \in Guests /\ g \in At(semOf[g])
             /\ Cardinality(At(semOf[g])) = Open(semOf[g]) /\ Open(semOf[g]) \in Nat
  <2>1. semOf[g] \in Guests /\ permits[semOf[g]] \in Nat BY DEF LInv, LimiterTypeOK, In
  <2>2. permits[semOf[g]] = 0 BY <2>1
  <2>3. g \in At(semOf[g]) BY DEF At, In
  <2>4. Open(semOf[g]) \in Nat BY DEF LInv, LimiterTypeOK, Open
  <2>5. Cardinality(At(semOf[g])) = permits[semOf[g]] + Open(semOf[g]) BY <2>1 DEF LInv
  <2> QED BY <2>1, <2>2, <2>3, <2>4, <2>5
<1>2. ASSUME NEW g \in W PROVE Bij(g) \in Bijection(At(semOf[g]), 1 .. Open(semOf[g]))
  <2>1. IsFiniteSet(At(semOf[g])) BY GuestSets DEF At
  <2>2. IsFiniteSet(1 .. Open(semOf[g])) /\ Cardinality(1 .. Open(semOf[g])) = Open(semOf[g])
    BY <1>1, FS_Interval
  <2>3. ExistsBijection(At(semOf[g]), 1 .. Open(semOf[g])) BY <2>1, <2>2, <1>1, FS_SameCardinalityBij
  <2> QED BY <2>3 DEF ExistsBijection
<1>3. ASSUME NEW g \in W
      PROVE  /\ Bij(g)[g] \in 1 .. Open(semOf[g])
             /\ \A h \in At(semOf[g]) : Bij(g)[h] = Bij(g)[g] => h = g
  BY <1>1, <1>2, Zenon DEF Bijection, Injection, IsInjective
<1> HIDE DEF Bij
<1>4. ASSUME NEW g \in W
      PROVE  LET r == RoundOf[semOf[g]]
             IN  /\ r \in DOMAIN waiters /\ waiters[r].sem = semOf[g]
                 /\ Open(semOf[g]) = waiters[r].inflight
  BY <1>3 DEF Open
<1>5. f \in Injection(W, Units(Inflight))
  <2>1. ASSUME NEW g \in W PROVE f[g] \in Units(Inflight)
    <3>1. f[g] = <<RoundOf[semOf[g]], Bij(g)[g]>> OBVIOUS
    <3> QED BY <3>1, <1>3, <1>4, UnitOf DEF Inflight
  <2>2. ASSUME NEW g \in W, NEW h \in W, f[g] = f[h] PROVE g = h
    <3>1. RoundOf[semOf[g]] = RoundOf[semOf[h]] /\ Bij(g)[g] = Bij(h)[h] BY <2>2
    <3>2. semOf[g] = semOf[h] BY <3>1, <1>4
    <3>3. Bij(g) = Bij(h) BY <3>2 DEF Bij
    <3> QED BY <3>1, <3>2, <3>3, <1>1, <1>3
  <2> QED BY <2>1, <2>2 DEF Injection, IsInjective
<1>6. Cardinality(W) <= Total(Inflight) /\ Total(Inflight) \in Nat
  BY <1>5, RoundsFinite, UnitsFinite, FS_Injection DEF Total, LInv
<1>7. bypassed > DownloadTasks /\ bypassed = Total(permits)
  <2>1. PICK g \in W : TRUE OBVIOUS
  <2>2. DOMAIN waiters # {} BY <1>4
  <2>3. Cardinality(In("inside")) = 0 BY FS_EmptySet
  <2>4. Total(permits) \in Nat BY LimiterAssumption, UnitsFinite DEF LInv, LimiterTypeOK
  <2> QED BY <2>2, <2>3, <2>4 DEF LInv
<1>8. Cardinality(W \cup In("lost")) = Cardinality(W) + Cardinality(In("lost"))
  <2>1. W \cap In("lost") = {} BY DEF In
  <2>2. W \subseteq Guests /\ In("lost") \subseteq Guests BY DEF In
  <2> QED BY <2>1, <2>2, Disjoint
<1>9. Cardinality(W) \in Nat /\ Cardinality(In("lost")) \in Nat /\ Total(permits) \in Nat
  BY GuestSets, LimiterAssumption, UnitsFinite DEF In, LInv, LimiterTypeOK
<1> HIDE DEF W
<1> QED BY <1>6, <1>7, <1>8, <1>9, LimiterAssumption DEF LInv, W

LEMMA LInit == LimiterInit => LInv
<1> SUFFICES ASSUME LimiterInit PROVE LInv OBVIOUS
<1> USE DEF LimiterInit
<1>1. DOMAIN waiters = {} OBVIOUS
<1>2. In("inside") = {} /\ In("waiting") \cup In("lost") = {} BY DEF In
<1>3. \A s \in Guests : At(s) = {} BY DEF At
<1>4. Units(permits) = {} /\ Units(Inflight) = {}
  <2>1. DOMAIN Inflight = {} BY <1>1 DEF Inflight
  <2>2. \A g \in DOMAIN permits : 1 .. permits[g] = {} OBVIOUS
  <2> QED BY <2>1, <2>2, UnitOf
<1>5. LimiterTypeOK BY <1>1, LimiterAssumption DEF LimiterTypeOK
<1>6. \A s \in Guests : Cardinality(At(s)) = permits[s] + Open(s) BY <1>1, <1>3, FS_EmptySet DEF Open
<1>7. Total(permits) = 0 /\ Total(Inflight) = 0 BY <1>4, FS_EmptySet, Zenon DEF Total
<1>8. Cardinality(In("inside")) = 0 /\ Cardinality(In("waiting") \cup In("lost")) = 0 BY <1>2, FS_EmptySet, Zenon
<1> QED BY <1>1, <1>3, <1>5, <1>6, <1>7, <1>8 DEF LInv

LEMMA Moves ==
  ASSUME LimiterTypeOK, NEW g \in Guests, NEW p \in {"new", "waiting", "inside", "out", "lost"}, To(g, p)
  PROVE  /\ phase' \in [Guests -> {"new", "waiting", "inside", "out", "lost"}]
         /\ phase'[g] = p /\ \A h \in Guests \ {g} : phase'[h] = phase[h]
BY DEF LimiterTypeOK, To

LEMMA Joined ==
  ASSUME NEW S, S \subseteq Guests, NEW g, g \in Guests \ S
  PROVE  Cardinality(S \cup {g}) = Cardinality(S) + 1 /\ Cardinality(S) \in Nat
BY GuestSets, FS_AddElement

LEMMA Left ==
  ASSUME NEW S, S \subseteq Guests, NEW g \in S
  PROVE  Cardinality(S \ {g}) = Cardinality(S) - 1 /\ Cardinality(S) \in Nat \ {0}
BY GuestSets, FS_RemoveElement, FS_EmptySet, Zenon

LEMMA BypassInv ==
  ASSUME LInv, NEW g \in Guests, Bypass(g)
  PROVE  LInv'
<1>1. phase[g] = "new" /\ bypassed' = bypassed + 1 /\ UNCHANGED <<waiters, permits, semOf>> BY DEF Bypass
<1>2. /\ phase' \in [Guests -> {"new", "waiting", "inside", "out", "lost"}]
      /\ phase'[g] = "inside" /\ \A h \in Guests \ {g} : phase'[h] = phase[h]
  BY Moves DEF Bypass, LInv
<1>3. In("inside")' = In("inside") \cup {g} /\ g \notin In("inside") BY <1>1, <1>2 DEF In
<1>4. Cardinality(In("inside")') = Cardinality(In("inside")) + 1 /\ Cardinality(In("inside")) \in Nat
  BY <1>3, Joined DEF In
<1>5. (In("waiting") \cup In("lost"))' = In("waiting") \cup In("lost") BY <1>1, <1>2 DEF In
<1>6. \A s \in Guests : At(s)' = At(s) /\ Open(s)' = Open(s) BY <1>1, <1>2 DEF At, Open
<1>7. Total(permits)' = Total(permits) /\ Total(Inflight)' = Total(Inflight) /\ Total(permits) \in Nat
  BY <1>1, LimiterAssumption, UnitsFinite DEF LInv, LimiterTypeOK, Inflight
<1>8. LimiterTypeOK' BY <1>1, <1>2 DEF LInv, LimiterTypeOK
<1>9. \A h \in Guests : phase'[h] = "new" => phase[h] = "new" BY <1>1, <1>2
<1>10. \A h \in Guests : phase'[h] \in {"waiting", "lost"} <=> phase[h] \in {"waiting", "lost"} BY <1>1, <1>2
<1>11. (\A r \in DOMAIN waiters : waiters[r].inflight > 0 /\ RoundOf[waiters[r].sem] = r
                                   /\ phase[waiters[r].sem] # "new")'
  BY <1>1, <1>9 DEF LInv, LimiterTypeOK
<1>12. (\A h \in Guests : phase[h] \in {"waiting", "lost"} => phase[semOf[h]] # "new")'
  BY <1>1, <1>9, <1>10 DEF LInv, LimiterTypeOK
<1>13. (\A s \in Guests : Cardinality(At(s)) = permits[s] + Open(s))' BY <1>1, <1>6 DEF LInv
<1>14. (\A s \in Guests : phase[s] = "new" => permits[s] = 0)' BY <1>1, <1>9 DEF LInv
<1>15. (DOMAIN waiters # {} => bypassed > DownloadTasks)' 
  BY <1>1, LimiterAssumption DEF LInv, LimiterTypeOK
<1>16. (bypassed = Cardinality(In("inside")) + Total(permits))'
  BY <1>1, <1>4, <1>7 DEF LInv
<1>17. (Total(permits) + Total(Inflight) = Cardinality(In("waiting") \cup In("lost")))'
  BY <1>5, <1>7, Zenon DEF LInv
<1> QED BY <1>8, <1>11, <1>12, <1>13, <1>14, <1>15, <1>16, <1>17 DEF LInv

LEMMA WaitInv ==
  ASSUME LInv, NEW g \in Guests, Wait(g)
  PROVE  LInv'
<1> DEFINE r == RoundOf[g]
           w == IF r \in DOMAIN waiters THEN waiters[r] ELSE [sem |-> g, inflight |-> 0]
<1>1. /\ phase[g] = "new" /\ bypassed > DownloadTasks /\ UNCHANGED <<bypassed, permits>>
      /\ DOMAIN waiters' = DOMAIN waiters \cup {r}
      /\ waiters'[r] = [w EXCEPT !.inflight = @ + 1]
      /\ \A q \in DOMAIN waiters \ {r} : waiters'[q] = waiters[q]
      /\ semOf' = [semOf EXCEPT ![g] = w.sem]
  BY DEF Wait, SetWaiter
<1>2. /\ phase' \in [Guests -> {"new", "waiting", "inside", "out", "lost"}]
      /\ phase'[g] = "waiting" /\ \A h \in Guests \ {g} : phase'[h] = phase[h]
  BY Moves DEF Wait, LInv
<1>3. /\ w \in [sem : Guests, inflight : Nat] /\ RoundOf[w.sem] = r
      /\ w.sem # g => phase[w.sem] # "new" /\ r \in DOMAIN waiters
      /\ r \in DOMAIN waiters => w = waiters[r]
      /\ r \notin DOMAIN waiters => w.inflight = 0 /\ w.sem = g
  BY <1>1 DEF LInv, LimiterTypeOK
<1> HIDE DEF w
<1>4. /\ waiters'[r] \in [sem : Guests, inflight : Nat]
      /\ waiters'[r].sem = w.sem /\ waiters'[r].inflight = w.inflight + 1
  BY <1>1, <1>3
<1>5. semOf' \in [Guests -> Guests] /\ semOf'[g] = w.sem /\ \A h \in Guests \ {g} : semOf'[h] = semOf[h]
  BY <1>1, <1>3 DEF LInv, LimiterTypeOK
<1>6. r \in Range(RoundOf) /\ r \in Nat BY LimiterAssumption DEF Range
<1>7. LimiterTypeOK' BY <1>1, <1>2, <1>4, <1>5, <1>6 DEF LInv, LimiterTypeOK
<1>8. \A h \in Guests : phase'[h] = "new" => phase[h] = "new" BY <1>1, <1>2
<1>9. phase'[w.sem] # "new" BY <1>2, <1>3
<1>10. (\A q \in DOMAIN waiters : waiters[q].inflight > 0 /\ RoundOf[waiters[q].sem] = q
                                   /\ phase[waiters[q].sem] # "new")'
  <2> SUFFICES ASSUME NEW q \in DOMAIN waiters'
               PROVE  waiters'[q].inflight > 0 /\ RoundOf[waiters'[q].sem] = q /\ phase'[waiters'[q].sem] # "new"
    OBVIOUS
  <2>1. CASE q = r BY <2>1, <1>3, <1>4, <1>9
  <2>2. CASE q # r BY <2>2, <1>1, <1>8 DEF LInv, LimiterTypeOK
  <2> QED BY <2>1, <2>2
<1>11. (\A h \in Guests : phase[h] \in {"waiting", "lost"} => phase[semOf[h]] # "new")'
  <2> SUFFICES ASSUME NEW h \in Guests, phase'[h] \in {"waiting", "lost"} PROVE phase'[semOf'[h]] # "new"
    OBVIOUS
  <2>1. CASE h = g BY <2>1, <1>5, <1>9
  <2>2. CASE h # g BY <2>2, <1>2, <1>5, <1>8 DEF LInv, LimiterTypeOK
  <2> QED BY <2>1, <2>2
<1>12. (\A s \in Guests : phase[s] = "new" => permits[s] = 0)' BY <1>1, <1>8 DEF LInv
<1>13. (\A s \in Guests : Cardinality(At(s)) = permits[s] + Open(s))'
  <2> SUFFICES ASSUME NEW s \in Guests PROVE Cardinality(At(s)') = permits[s] + Open(s)'
    BY <1>1
  <2>0. Cardinality(At(s)) = permits[s] + Open(s) /\ permits[s] \in Nat BY DEF LInv, LimiterTypeOK
  <2>1. CASE s = w.sem
    <3>1. At(s)' = At(s) \cup {g} /\ g \notin At(s) BY <2>1, <1>1, <1>2, <1>5 DEF At
    <3>2. Open(s)' = Open(s) + 1 /\ Open(s) \in Nat
      <4>1. Open(s) = w.inflight BY <2>1, <1>3 DEF Open
      <4>2. Open(s)' = w.inflight + 1 BY <2>1, <1>1, <1>3, <1>4 DEF Open
      <4> QED BY <4>1, <4>2, <1>3
    <3>3. Cardinality(At(s)') = Cardinality(At(s)) + 1 BY <3>1, Joined DEF At
    <3> QED BY <2>0, <3>2, <3>3
  <2>2. CASE s # w.sem
    <3>1. At(s)' = At(s) BY <2>2, <1>1, <1>2, <1>5 DEF At
    <3>2. Open(s)' = Open(s)
      <4>1. CASE RoundOf[s] # r BY <4>1, <1>1 DEF Open
      <4>2. CASE RoundOf[s] = r BY <4>2, <2>2, <1>1, <1>3, <1>4 DEF Open
      <4> QED BY <4>1, <4>2
    <3> QED BY <2>0, <3>1, <3>2
  <2> QED BY <2>1, <2>2
<1>14. (DOMAIN waiters # {} => bypassed > DownloadTasks)' BY <1>1
<1>15. (bypassed = Cardinality(In("inside")) + Total(permits))'
  <2>1. In("inside")' = In("inside") BY <1>1, <1>2 DEF In
  <2> QED BY <2>1, <1>1 DEF LInv
<1>16. (Total(permits) + Total(Inflight) = Cardinality(In("waiting") \cup In("lost")))'
  <2>1. (In("waiting") \cup In("lost"))' = (In("waiting") \cup In("lost")) \cup {g}
        /\ g \notin In("waiting") \cup In("lost") /\ In("waiting") \cup In("lost") \subseteq Guests
    BY <1>1, <1>2 DEF In
  <2>2. Cardinality((In("waiting") \cup In("lost"))') = Cardinality(In("waiting") \cup In("lost")) + 1
    BY <2>1, Joined
  <2>3. Total(Inflight') = Total(Inflight) + 1 /\ Total(Inflight) \in Nat
    <3>1. IsFiniteSet(DOMAIN waiters) /\ Inflight \in [DOMAIN waiters -> Nat] BY RoundsFinite DEF LInv
    <3>2. Inflight' \in [DOMAIN waiters' -> Nat] BY <1>7 DEF Inflight, LimiterTypeOK
    <3>3. \A q \in DOMAIN waiters \ {r} : Inflight'[q] = Inflight[q] BY <1>1 DEF Inflight
    <3>4. Inflight'[r] = (IF r \in DOMAIN waiters THEN Inflight[r] ELSE 0) + 1
      BY <1>1, <1>3, <1>4 DEF Inflight
    <3> HIDE DEF r
    <3> QED BY <3>1, <3>2, <3>3, <3>4, <1>1, OneMore
  <2>4. Total(permits) \in Nat BY LimiterAssumption, UnitsFinite DEF LInv, LimiterTypeOK
  <2>5. Total(permits)' = Total(permits) BY <1>1
  <2> QED BY <2>2, <2>3, <2>4, <2>5 DEF LInv
<1> QED BY <1>7, <1>10, <1>11, <1>12, <1>13, <1>14, <1>15, <1>16 DEF LInv

LEMMA AcquireInv ==
  ASSUME LInv, NEW g \in Guests, Acquire(g)
  PROVE  LInv'
<1> DEFINE s0 == semOf[g]
<1>1. /\ phase[g] = "waiting" /\ permits[s0] > 0 /\ UNCHANGED <<bypassed, waiters, semOf>>
      /\ permits' = [permits EXCEPT ![s0] = @ - 1]
  BY SMTT(30) DEF Acquire
<1>2. /\ phase' \in [Guests -> {"new", "waiting", "inside", "out", "lost"}]
      /\ phase'[g] = "inside" /\ \A h \in Guests \ {g} : phase'[h] = phase[h]
  BY Moves, SMTT(30) DEF Acquire, LInv
<1>3. /\ s0 \in Guests /\ permits' \in [Guests -> Nat] /\ permits[s0] = permits'[s0] + 1
      /\ \A s \in Guests \ {s0} : permits'[s] = permits[s]
  BY <1>1, SMTT(30) DEF LInv, LimiterTypeOK
<1>4. LimiterTypeOK' BY <1>1, <1>2, <1>3 DEF LInv, LimiterTypeOK
<1>5. \A h \in Guests : phase'[h] = "new" => phase[h] = "new" BY <1>1, <1>2
<1>6. (\A r \in DOMAIN waiters : waiters[r].inflight > 0 /\ RoundOf[waiters[r].sem] = r
                                  /\ phase[waiters[r].sem] # "new")'
  BY <1>1, <1>5 DEF LInv, LimiterTypeOK
<1>7. (\A h \in Guests : phase[h] \in {"waiting", "lost"} => phase[semOf[h]] # "new")'
  BY <1>1, <1>2, <1>5, SMTT(30) DEF LInv, LimiterTypeOK
<1>8. (\A s \in Guests : phase[s] = "new" => permits[s] = 0)'
  <2>1. permits[s0] # 0 BY <1>1
  <2> QED BY <2>1, <1>3, <1>5 DEF LInv
<1>9. (\A s \in Guests : Cardinality(At(s)) = permits[s] + Open(s))'
  <2> SUFFICES ASSUME NEW s \in Guests PROVE Cardinality(At(s)') = permits'[s] + Open(s)'
    OBVIOUS
  <2>0. /\ Cardinality(At(s)) = permits[s] + Open(s) /\ permits[s] \in Nat
        /\ Open(s) \in Nat /\ Open(s)' = Open(s)
    BY <1>1 DEF LInv, LimiterTypeOK, Open
  <2>1. CASE s = s0
    <3>1. At(s)' = At(s) \ {g} /\ g \in At(s) BY <2>1, <1>1, <1>2 DEF At
    <3>2. Cardinality(At(s)') = Cardinality(At(s)) - 1 BY <3>1, Left DEF At
    <3> QED BY <2>0, <2>1, <3>2, <1>3
  <2>2. CASE s # s0
    <3>1. At(s)' = At(s) BY <2>2, <1>1, <1>2 DEF At
    <3> QED BY <2>0, <2>2, <3>1, <1>3
  <2> QED BY <2>1, <2>2
<1>10. (DOMAIN waiters # {} => bypassed > DownloadTasks)' BY <1>1 DEF LInv
<1>11. Total(permits) = Total(permits') + 1 /\ Total(permits') \in Nat
  <2>1. permits \in [Guests -> Nat] BY DEF LInv, LimiterTypeOK
  <2>2. Guests = Guests \cup {s0} /\ permits[s0] = (IF s0 \in Guests THEN permits'[s0] ELSE 0) + 1 BY <1>3, SMTT(20)
  <2> HIDE DEF s0
  <2> QED BY <2>1, <2>2, <1>3, LimiterAssumption, OneMore
<1>12. (bypassed = Cardinality(In("inside")) + Total(permits))'
  <2>1. In("inside")' = In("inside") \cup {g} /\ g \notin In("inside") /\ In("inside") \subseteq Guests
    BY <1>1, <1>2 DEF In
  <2>2. Cardinality(In("inside")') = Cardinality(In("inside")) + 1 /\ Cardinality(In("inside")) \in Nat
    BY <2>1, Joined
  <2> QED BY <2>2, <1>1, <1>11 DEF LInv
<1>13. (Total(permits) + Total(Inflight) = Cardinality(In("waiting") \cup In("lost")))'
  <2> DEFINE Q == In("waiting") \cup In("lost")
  <2>1. Q' = Q \ {g} /\ g \in Q /\ Q \subseteq Guests BY <1>1, <1>2 DEF In
  <2>2. Cardinality(Q') = Cardinality(Q) - 1 /\ Cardinality(Q) \in Nat \ {0} BY <2>1, Left
  <2>3. Inflight' = Inflight /\ Total(Inflight) \in Nat
    BY <1>1, RoundsFinite, UnitsFinite DEF Inflight, LInv
  <2> QED BY <2>2, <2>3, <1>11 DEF LInv
<1> QED BY <1>4, <1>6, <1>7, <1>8, <1>9, <1>10, <1>12, <1>13 DEF LInv

LEMMA AbortWaitingInv ==
  ASSUME LInv, NEW g \in Guests, AbortWaiting(g)
  PROVE  LInv'
<1>1. phase[g] = "waiting" /\ UNCHANGED <<bypassed, waiters, permits, semOf>> BY DEF AbortWaiting
<1>2. /\ phase' \in [Guests -> {"new", "waiting", "inside", "out", "lost"}]
      /\ phase'[g] = "lost" /\ \A h \in Guests \ {g} : phase'[h] = phase[h]
  BY Moves DEF AbortWaiting, LInv
<1>3. \A h \in Guests : /\ phase'[h] = "new" <=> phase[h] = "new"
                        /\ phase'[h] \in {"waiting", "lost"} <=> phase[h] \in {"waiting", "lost"}
  BY <1>1, <1>2
<1>4. LimiterTypeOK' BY <1>1, <1>2, SMTT(30) DEF LInv, LimiterTypeOK
<1>5. \A s \in Guests : At(s)' = At(s) /\ Open(s)' = Open(s) BY <1>1, <1>3 DEF At, Open
<1>6. In("inside")' = In("inside") /\ (In("waiting") \cup In("lost"))' = In("waiting") \cup In("lost")
  BY <1>1, <1>2 DEF In
<1>7. Total(permits)' = Total(permits) /\ Total(Inflight)' = Total(Inflight) BY <1>1, SMTT(30) DEF Inflight
<1>8. (\A r \in DOMAIN waiters : waiters[r].inflight > 0 /\ RoundOf[waiters[r].sem] = r
                                  /\ phase[waiters[r].sem] # "new")'
  BY <1>1, <1>3 DEF LInv, LimiterTypeOK
<1>9. (\A h \in Guests : phase[h] \in {"waiting", "lost"} => phase[semOf[h]] # "new")'
  BY <1>1, <1>3 DEF LInv, LimiterTypeOK
<1>10. (\A s \in Guests : phase[s] = "new" => permits[s] = 0)' BY <1>1, <1>3 DEF LInv
<1>11. (\A s \in Guests : Cardinality(At(s)) = permits[s] + Open(s))' BY <1>1, <1>5 DEF LInv
<1> QED BY <1>1, <1>4, <1>6, <1>7, <1>8, <1>9, <1>10, <1>11, Zenon DEF LInv

(* Who leaves was neither new nor in the queue.                                 *)
LEMMA LeaveInv ==
  ASSUME LInv, NEW g \in Guests, Leave(g)
  PROVE  LInv'
<1>1. phase[g] = "inside" /\ UNCHANGED semOf /\ Release BY DEF Leave
<1>2. /\ phase' \in [Guests -> {"new", "waiting", "inside", "out", "lost"}]
      /\ phase'[g] = "out" /\ \A h \in Guests \ {g} : phase'[h] = phase[h]
  BY Moves DEF Leave, LInv
<1>3. \A h \in Guests : /\ phase'[h] = "new" <=> phase[h] = "new"
                        /\ phase'[h] \in {"waiting", "lost"} <=> phase[h] \in {"waiting", "lost"}
  BY <1>1, <1>2
<1>4. \A s \in Guests : At(s)' = At(s) BY <1>1, <1>3 DEF At
<1>5. In("inside")' = In("inside") \ {g} /\ g \in In("inside") /\ In("inside") \subseteq Guests
  BY <1>1, <1>2 DEF In
<1>6. Cardinality(In("inside")') = Cardinality(In("inside")) - 1 /\ Cardinality(In("inside")) \in Nat \ {0}
  BY <1>5, Left
<1>7. (In("waiting") \cup In("lost"))' = In("waiting") \cup In("lost") BY <1>1, <1>2, SMTT(30) DEF In
<1>8. (\A h \in Guests : phase[h] \in {"waiting", "lost"} => phase[semOf[h]] # "new")'
  BY <1>1, <1>3, SMTT(30) DEF LInv, LimiterTypeOK
<1>9. /\ Total(permits) \in Nat /\ IsFiniteSet(DOMAIN waiters) /\ Inflight \in [DOMAIN waiters -> Nat]
      /\ Total(Inflight) \in Nat
  BY LimiterAssumption, UnitsFinite, RoundsFinite DEF LInv, LimiterTypeOK
<1>10. CASE DOMAIN waiters = {} /\ bypassed' = bypassed - 1 /\ UNCHANGED <<waiters, permits>>
  <2>1. bypassed' \in Nat /\ bypassed' = Cardinality(In("inside")') + Total(permits)
    BY <1>6, <1>9, <1>10, SMTT(30) DEF LInv
  <2>2. LimiterTypeOK' BY <1>1, <1>2, <1>10, <2>1, SMTT(30) DEF LInv, LimiterTypeOK
  <2>3. \A s \in Guests : Open(s)' = Open(s) BY <1>10 DEF Open
  <2>4. Total(permits)' = Total(permits) /\ Total(Inflight)' = Total(Inflight) BY <1>10 DEF Inflight
  <2>5. (\A s \in Guests : phase[s] = "new" => permits[s] = 0)' BY <1>3, <1>10, SMTT(30) DEF LInv
  <2>6. (\A s \in Guests : Cardinality(At(s)) = permits[s] + Open(s))' BY <1>4, <1>10, <2>3, SMTT(30) DEF LInv
  <2> QED BY <1>7, <1>8, <1>10, <2>1, <2>2, <2>4, <2>5, <2>6, Zenon DEF LInv
<1>11. ASSUME NEW r \in DOMAIN waiters, Pass(r) PROVE LInv'
  <2> DEFINE s0 == waiters[r].sem
             n == waiters[r].inflight
  <2>1. /\ s0 \in Guests /\ n \in Nat \ {0} /\ RoundOf[s0] = r /\ phase[s0] # "new" /\ r \in Nat
        /\ waiters[r] \in [sem : Guests, inflight : Nat]
    BY LimiterAssumption DEF LInv, LimiterTypeOK
  <2>2. bypassed' = bypassed /\ permits' = [permits EXCEPT ![s0] = @ + 1] BY <1>11 DEF Pass
  <2>3. /\ permits' \in [Guests -> Nat] /\ permits'[s0] = permits[s0] + 1 /\ permits[s0] \in Nat
        /\ \A s \in Guests \ {s0} : permits'[s] = permits[s]
    <3>1. permits \in [Guests -> Nat] /\ s0 \in Guests BY <2>1, SMTT(20) DEF LInv, LimiterTypeOK
    <3> HIDE DEF s0
    <3> QED BY <3>1, <2>2, SMTT(30)
  <2>4. /\ DOMAIN waiters = DOMAIN waiters' \cup {r}
        /\ \A q \in DOMAIN waiters \ {r} : q \in DOMAIN waiters' /\ waiters'[q] = waiters[q]
        /\ r \in DOMAIN waiters' =>
              n > 1 /\ waiters'[r] \in [sem : Guests, inflight : Nat] /\ waiters'[r].sem = s0
                    /\ waiters'[r].inflight = n - 1
        /\ r \notin DOMAIN waiters' => n = 1
    <3>1. CASE n = 1 BY <3>1, <1>11, <2>1, Zenon DEF Pass, Restrict
    <3>2. CASE n # 1
      <4>1. /\ DOMAIN waiters' = DOMAIN waiters /\ waiters'[r] = [waiters[r] EXCEPT !.inflight = @ - 1]
            /\ \A q \in DOMAIN waiters \ {r} : waiters'[q] = waiters[q]
        BY <3>2, <1>11 DEF Pass, SetWaiter
      <4>2. waiters'[r] \in [sem : Guests, inflight : Nat] /\ waiters'[r].sem = s0 /\ waiters'[r].inflight = n - 1
        BY <4>1, <3>2, <2>1, SMTT(20)
      <4> QED BY <4>1, <4>2, <3>2, <2>1
    <3> QED BY <3>1, <3>2
  <2>5. LimiterTypeOK' BY <1>1, <1>2, <2>2, <2>3, <2>4, SMTT(30) DEF LInv, LimiterTypeOK
  <2>6. (\A q \in DOMAIN waiters : waiters[q].inflight > 0 /\ RoundOf[waiters[q].sem] = q
                                    /\ phase[waiters[q].sem] # "new")'
    <3> SUFFICES ASSUME NEW q \in DOMAIN waiters'
                 PROVE  waiters'[q].inflight > 0 /\ RoundOf[waiters'[q].sem] = q /\ phase'[waiters'[q].sem] # "new"
      OBVIOUS
    <3>1. CASE q = r BY <3>1, <2>1, <2>4, <1>3, SMTT(20)
    <3>2. CASE q # r BY <3>2, <2>4, <1>3, SMTT(30) DEF LInv, LimiterTypeOK
    <3> QED BY <3>1, <3>2, SMTT(30)
  <2>7. (\A s \in Guests : phase[s] = "new" => permits[s] = 0)' BY <1>3, <2>1, <2>3, SMTT(30) DEF LInv
  <2>8. (\A s \in Guests : Cardinality(At(s)) = permits[s] + Open(s))'
    <3> SUFFICES ASSUME NEW s \in Guests PROVE Cardinality(At(s)') = permits'[s] + Open(s)'
      OBVIOUS
    <3>0. Cardinality(At(s)') = permits[s] + Open(s) /\ permits[s] \in Nat BY <1>4, SMTT(30) DEF LInv, LimiterTypeOK
    <3>1. CASE s = s0
      <4>1. Open(s) = n BY <3>1, <2>1 DEF Open
      <4>2. Open(s)' = n - 1
        <5>1. CASE r \in DOMAIN waiters' BY <5>1, <3>1, <2>1, <2>4 DEF Open
        <5>2. CASE r \notin DOMAIN waiters' BY <5>2, <3>1, <2>1, <2>4, SMTT(30) DEF Open
        <5> QED BY <5>1, <5>2
      <4> QED BY <4>1, <4>2, <3>0, <3>1, <2>1, <2>3, SMTT(30)
    <3>2. CASE s # s0
      <4>1. Open(s)' = Open(s)
        <5>1. CASE RoundOf[s] = r BY <5>1, <3>2, <2>1, <2>4, SMTT(30) DEF Open
        <5>2. CASE RoundOf[s] # r BY <5>2, <2>4 DEF Open
        <5> QED BY <5>1, <5>2
      <4> QED BY <4>1, <3>0, <3>2, <2>3
    <3> QED BY <3>1, <3>2
  <2>9. (DOMAIN waiters # {} => bypassed > DownloadTasks)' BY <2>2, SMTT(30) DEF LInv
  <2>10. Total(permits') = Total(permits) + 1
    <3>1. permits \in [Guests -> Nat] BY DEF LInv, LimiterTypeOK
    <3>2. Guests = Guests \cup {s0} /\ permits'[s0] = (IF s0 \in Guests THEN permits[s0] ELSE 0) + 1 BY <2>1, <2>3
    <3> HIDE DEF s0
    <3> QED BY <3>1, <3>2, <2>1, <2>3, LimiterAssumption, OneMore, SMTT(30)
  <2>11. Total(Inflight) = Total(Inflight') + 1 /\ Total(Inflight') \in Nat
    <3>1. IsFiniteSet(DOMAIN waiters') /\ Inflight' \in [DOMAIN waiters' -> Nat]
      <4>1. IsFiniteSet(DOMAIN waiters') BY <2>4, <1>9, FS_Subset
      <4>2. Inflight' \in [DOMAIN waiters' -> Nat] BY <2>5 DEF Inflight, LimiterTypeOK
      <4> QED BY <4>1, <4>2
    <3>2. \A q \in DOMAIN waiters' \ {r} : Inflight[q] = Inflight'[q] BY <2>4 DEF Inflight
    <3>3. Inflight[r] = (IF r \in DOMAIN waiters' THEN Inflight'[r] ELSE 0) + 1
      BY <2>1, <2>4, SMTT(20) DEF Inflight
    <3> QED BY <3>1, <3>2, <3>3, <2>4, <1>9, OneMore
  <2>12. (bypassed = Cardinality(In("inside")) + Total(permits))' BY <1>6, <1>9, <2>2, <2>10 DEF LInv
  <2>13. (Total(permits) + Total(Inflight) = Cardinality(In("waiting") \cup In("lost")))'
    <3>1. Total(permits) + Total(Inflight) = Cardinality(In("waiting") \cup In("lost")) BY DEF LInv
    <3>2. Total(permits') + Total(Inflight') = Total(permits) + Total(Inflight) BY <1>9, <2>10, <2>11
    <3> QED BY <3>1, <3>2, <1>7
  <2> QED BY <1>8, <2>5, <2>6, <2>7, <2>8, <2>9, <2>12, <2>13, SMTT(20) DEF LInv
<1> QED BY <1>1, <1>10, <1>11 DEF Release

LEMMA LNext == LInv /\ [Next]_vars => LInv'
<1> SUFFICES ASSUME LInv, [Next]_vars PROVE LInv' OBVIOUS
<1>1. ASSUME NEW g \in Guests, Bypass(g) \/ Wait(g) \/ Acquire(g) \/ Leave(g) \/ AbortWaiting(g)
      PROVE  LInv'
  BY <1>1, BypassInv, WaitInv, AcquireInv, LeaveInv, AbortWaitingInv, SMTT(20)
<1>2. CASE UNCHANGED limiterVars
  BY <1>2 DEF limiterVars, LInv, LimiterTypeOK, In, At, Open, Inflight
<1>3. UNCHANGED limiterVars
      \/ \E g \in Guests : Bypass(g) \/ Wait(g) \/ Acquire(g) \/ Leave(g) \/ AbortWaiting(g)
  BY MeAssumption DEF Next, EnterMe, QueueMe, StepMe, AbortMe, StepOther, Others, vars
<1> QED BY <1>1, <1>2, <1>3

(* CreditsAreKept: whatever the number of tasks, their rounds and the limit: Limiter
   neither makes up nor loses a credit but those of tasks aborted in its queue, its
   counters do not underflow, and a queue is called as long as no more than
   download_tasks were lost there.                                              *)
THEOREM CreditsAreKept == Spec => []Credits
<1>1. Init => LInv BY LInit DEF Init
<1>2. LInv /\ [Next]_vars => LInv' BY LNext
<1>3. LInv => Credits BY LInvCredits
<1> QED BY <1>1, <1>2, <1>3, PTL DEF Spec
-----------------------------------------------------------------------------

Counting == result \in {"queued", "running", "notFound"}

Removed == Asked \ undone

\* A peer that will not sign the point any more, or cannot be asked for it.
Gone(p) == status[p] \in {"rejected", "proven", "provenBad"} \/ p \notin kept

(* The task has counted each removed peer once, and those that follow the protocol are
   gone, whatever happens to them next; a signer's status stays `valid`.        *)
IInv ==
  /\ undone \subseteq Asked /\ inFlight \subseteq undone
  /\ notFound \in Nat
  /\ status \in [Asked -> Statuses]
  /\ signed \subseteq (Peers \cap Honest) \ {Author}
  /\ \A p \in signed : status[p] = "valid"
  /\ Author \in Honest => status[Author] = "valid"
  /\ Counting => /\ notFound = Cardinality(Removed)
                 /\ \A p \in Removed \cap Honest : Gone(p)
  /\ result = "notFound" => notFound >= MajorityOfOthers

LEMMA AskedFinite == IsFiniteSet(Asked)
BY DownloadAssumption, FS_AddElement DEF Asked

(* PeerCount::try_from rounds up: the others are 3F at most.                    *)
LEMMA Ceiling == OneF \in Nat /\ Cardinality(Peers) \in Nat /\ Cardinality(Peers) <= 3 * OneF
BY DownloadAssumption, FS_CardinalityType DEF OneF

(* 2F+1 holders and 2F others that say no have a faulty peer too many in common. *)
LEMMA Quorum ==
  ASSUME NEW D, NEW H, D \subseteq Peers, H \subseteq Peers, Author \in Peers,
         Cardinality(D) >= MajorityOfOthers, Cardinality(H) >= MajorityOfOthers + 1,
         D \cap H \subseteq Faulty
  PROVE  FALSE
<1>1. /\ IsFiniteSet(D) /\ IsFiniteSet(H) /\ IsFiniteSet(D \cup H) /\ IsFiniteSet(D \cap H)
      /\ IsFiniteSet((Peers \cup {Author}) \cap Faulty)
  <2>1. IsFiniteSet(Peers) BY DownloadAssumption
  <2>2. (Peers \cup {Author}) \cap Faulty \subseteq Peers /\ D \cup H \subseteq Peers /\ D \cap H \subseteq Peers
    OBVIOUS
  <2> QED BY <2>1, <2>2, FS_Subset
<1>2. Cardinality(D \cup H) <= Cardinality(Peers)
  BY DownloadAssumption, FS_Subset
<1>3. Cardinality(D \cap H) <= OneF
  <2>1. D \cap H \subseteq (Peers \cup {Author}) \cap Faulty OBVIOUS
  <2>2. Cardinality(D \cap H) <= Cardinality((Peers \cup {Author}) \cap Faulty)
    BY <2>1, <1>1, FS_Subset
  <2> QED BY <2>2, <1>1, Ceiling, DownloadAssumption, FS_CardinalityType
<1>4. Cardinality(D \cup H) = Cardinality(D) + Cardinality(H) - Cardinality(D \cap H)
  BY <1>1, FS_Union
<1>5. /\ Cardinality(D) \in Nat /\ Cardinality(H) \in Nat
      /\ Cardinality(D \cup H) \in Nat /\ Cardinality(D \cap H) \in Nat
  BY <1>1, FS_CardinalityType
<1> QED BY <1>2, <1>3, <1>4, <1>5, Ceiling DEF MajorityOfOthers

LEMMA IInvImplies == IInv => NotFoundIsUnproven
<1> SUFFICES ASSUME IInv, result = "notFound", Author \in Peers,
                    ((signed \cup {Author}) \cap Honest) \subseteq kept, Certified
             PROVE  FALSE
  BY DEF NotFoundIsUnproven
<1> DEFINE H == Signers \cup {Author}
<1>1. Removed \subseteq Peers /\ H \subseteq Peers BY DEF Removed, Asked, Signers
<1>2. Cardinality(Removed) >= MajorityOfOthers BY DEF IInv, Counting
<1>3. Cardinality(H) >= MajorityOfOthers + 1
  <2>1. IsFiniteSet(Signers) /\ Author \notin Signers
    BY DownloadAssumption, FS_Subset DEF Signers
  <2>2. Cardinality(H) = Cardinality(Signers) + 1 BY <2>1, FS_AddElement
  <2> QED BY <2>1, <2>2, Ceiling, FS_CardinalityType DEF Certified, MajorityOfOthers
<1>4. Removed \cap H \subseteq Faulty
  <2> SUFFICES ASSUME NEW p \in Removed, p \in H, p \notin Faulty PROVE FALSE OBVIOUS
  <2>1. p \in Honest /\ p \in signed \cup {Author} BY DEF Removed, Honest, Signers
  <2>2. status[p] = "valid" /\ p \in kept BY <2>1 DEF IInv
  <2>3. Gone(p) BY <2>1 DEF IInv, Counting
  <2> QED BY <2>2, <2>3 DEF Gone
<1> HIDE DEF H
<1> QED BY <1>1, <1>2, <1>3, <1>4, Quorum
-----------------------------------------------------------------------------
LEMMA InitInv == Init => IInv
<1> SUFFICES ASSUME Init PROVE IInv OBVIOUS
<1> USE DEF Init, DownloadInit
<1>1. Removed = {} BY DEF Removed
<1>2. Cardinality(Removed) = 0 BY <1>1, FS_EmptySet
<1>3. status \in [Asked -> Statuses] BY DEF Statuses
<1>4. Author \in Honest => status[Author] = "valid" BY DEF Asked, Honest
<1> QED BY <1>1, <1>2, <1>3, <1>4 DEF IInv, Counting

(* A step that leaves the peers and the count alone, and does not give up.      *)
LEMMA Quiet ==
  ASSUME IInv, UNCHANGED <<undone, notFound, status, kept, signed>>,
         inFlight' \subseteq undone, result' # "notFound" \/ result' = result,
         Counting' => Counting
  PROVE  IInv'
BY DEF IInv, Counting, Removed, Gone

(* DownloadTask::verify of a negative answer.                                   *)
LEMMA CountNoneInv ==
  ASSUME IInv, NEW p \in undone, result = "running", CountNone(p), p \in Faulty \/ Gone(p)
  PROVE  IInv'
<1>1. undone' = undone \ {p} /\ notFound' = notFound + 1 /\ UNCHANGED <<status, kept, signed>>
  BY DEF CountNone, End, peerVars
<1>2. Removed' = Removed \cup {p} /\ p \notin Removed BY <1>1 DEF Removed, IInv
<1>3. IsFiniteSet(Removed) BY AskedFinite, FS_Subset DEF Removed
<1>4. Cardinality(Removed') = Cardinality(Removed) + 1 BY <1>2, <1>3, FS_AddElement, Zenon
<1>5. notFound' = Cardinality(Removed') BY <1>1, <1>4 DEF IInv, Counting
<1>6. \A q \in Removed' \cap Honest : Gone(q)' BY <1>1, <1>2 DEF IInv, Counting, Gone, Honest
<1>7. inFlight' \subseteq undone' BY <1>1 DEF IInv, CountNone, End
<1>8. result' = "notFound" => notFound' >= MajorityOfOthers BY DEF CountNone
<1> QED BY <1>1, <1>5, <1>6, <1>7, <1>8 DEF IInv

LEMMA AnswerInv ==
  ASSUME IInv, NEW p \in Asked, NEW a, Answer(p, a)
  PROVE  IInv'
<1>0. p \in undone /\ result = "running" /\ a \in Answers(p) BY DEF IInv, Answer
<1>1. CASE a \in {"later", "error"}
  <2>1. Retry(p) BY <1>1, Zenon DEF Answer
  <2> QED BY <2>1, <1>0, Quiet DEF Retry, peerVars, IInv, Counting
<1>2. CASE a \in {"none", "wrong"}
  <2>1. CountNone(p) BY <1>2, Zenon DEF Answer
  <2>2. p \in Faulty \/ Gone(p)
    <3> SUFFICES ASSUME p \notin Faulty PROVE Gone(p) OBVIOUS
    <3>1. a \in Stored(p) BY <1>0, <1>2 DEF Answers
    <3>2. status[p] \in Statuses BY DEF IInv
    <3> QED BY <3>1, <3>2, <1>2 DEF Stored, Gone, Statuses
  <2> QED BY <2>1, <2>2, <1>0, CountNoneInv
<1>3. CASE a = "defined"
  <2>1. Found(p) BY <1>3 DEF Answer
  <2>2. result' \in {"illFormed", "verified"} BY <2>1 DEF Found, End, Verdict
  <2> QED BY <2>1, <2>2 DEF Found, End, peerVars, IInv, Counting
<1>4. a \in {"later", "error", "none", "wrong", "defined"}
  <2>1. CASE p \in Faulty BY <1>0, <2>1 DEF Answers
  <2>2. CASE p \notin Faulty
    <3>1. status[p] \in Statuses BY DEF IInv
    <3>2. Stored(p) \subseteq {"defined", "none", "later"} BY <3>1 DEF Stored, Statuses
    <3> QED BY <1>0, <2>2, <3>2 DEF Answers
  <2> QED BY <2>1, <2>2
<1> QED BY <1>1, <1>2, <1>3, <1>4

(* What the peers do.                                                           *)
LEMMA PeerInv ==
  ASSUME IInv, PeerNext
  PROVE  IInv'
<1> PICK p \in Asked : \/ Depend(p) \/ Sign(p) \/ Forget(p)
                       \/ \E s \in Statuses : Validate(p, s) \/ Prove(p, s)
  BY SMTT(30) DEF PeerNext
<1>1. CASE Depend(p) BY <1>1, Quiet DEF Depend, taskVars, peerVars, IInv, Counting
<1>2. CASE Sign(p) BY <1>2 DEF Sign, taskVars, IInv, Counting, Removed, Gone
<1>3. CASE Forget(p) BY <1>3 DEF Forget, taskVars, IInv, Counting, Removed, Gone
<1>4. ASSUME NEW s \in Statuses, Validate(p, s) \/ Prove(p, s) PROVE IInv'
  <2>1. /\ UNCHANGED <<result, undone, inFlight, notFound, kept, signed>>
        /\ status' = [status EXCEPT ![p] = s]
    BY <1>4 DEF Validate, Prove, SetStatus, taskVars
  <2>2. status[p] # "valid" /\ (s \in {"rejected", "proven", "provenBad"} \/ (p \in kept /\ status[p] = "unknown"))
    BY <1>4 DEF Validate, Prove
  <2>3. status' \in [Asked -> Statuses] /\ (\A q \in Asked : q # p => status'[q] = status[q]) /\ status'[p] = s
    BY <2>1 DEF IInv
  <2>4. \A q \in signed' : status'[q] = "valid" BY <2>1, <2>2, <2>3 DEF IInv, Honest
  <2>5. Author \in Honest => status'[Author] = "valid" BY <2>1, <2>2, <2>3 DEF IInv, Asked
  <2>6. ASSUME Counting', NEW q \in Removed' \cap Honest PROVE Gone(q)'
    <3>1. Gone(q) /\ q \in Asked BY <2>1, <2>6 DEF IInv, Counting, Removed
    <3>2. CASE q # p BY <3>1, <3>2, <2>1, <2>3 DEF Gone
    <3>3. CASE q = p BY <3>1, <3>3, <2>1, <2>2, <2>3 DEF Gone
    <3> QED BY <3>2, <3>3
  <2>7. Counting' => notFound' = Cardinality(Removed') BY <2>1 DEF IInv, Counting, Removed
  <2> QED BY <2>1, <2>3, <2>4, <2>5, <2>6, <2>7, SMTT(30) DEF IInv
<1> QED BY <1>1, <1>2, <1>3, <1>4

LEMMA NextInv == IInv /\ [Next]_vars => IInv'
<1> SUFFICES ASSUME IInv, [Next]_vars PROVE IInv' OBVIOUS
<1>1. CASE EnterMe \/ AbortMe \/ (Broadcast /\ Leave(Me))
  <2>1. Start \/ Abort \/ Broadcast BY <1>1 DEF EnterMe, AbortMe
  <2>2. UNCHANGED <<undone, notFound, status, kept, signed>> /\ inFlight' \subseteq undone
    BY <2>1 DEF Start, Abort, Broadcast, End, peerVars, IInv
  <2>3. result' # "notFound" /\ Counting
    BY <2>1 DEF Start, Abort, Broadcast, End, Verdict, Counting
  <2> QED BY <2>2, <2>3, Quiet
<1>2. CASE TaskNext
  <2>1. UNCHANGED <<result, undone, notFound, status, kept, signed>> /\ inFlight' \subseteq undone
    BY <1>2 DEF TaskNext, AddDepender, PeerUpdate, Tick, Free, taskVars, peerVars, IInv
  <2> QED BY <2>1, Quiet DEF Counting
<1>3. CASE \E p \in Asked : \E a \in Answers(p) : Answer(p, a) BY <1>3, AnswerInv
<1>4. CASE PeerNext BY <1>4, PeerInv, SMTT(30)
<1>5. CASE UNCHANGED downloadVars
  <2>1. UNCHANGED <<result, undone, inFlight, notFound, status, kept, signed>>
    BY <1>5 DEF downloadVars, taskVars, peerVars
  <2> QED BY <2>1, Quiet DEF IInv, Counting
<1>6. \/ EnterMe \/ AbortMe \/ (Broadcast /\ Leave(Me)) \/ TaskNext \/ PeerNext \/ UNCHANGED downloadVars
      \/ \E p \in Asked : \E a \in Answers(p) : Answer(p, a)
  BY DEF Next, QueueMe, StepMe, StepOther, vars
<1> QED BY <1>1, <1>2, <1>3, <1>4, <1>5, <1>6

(* GivenUpIsUnproven: whatever the number of peers and of other tasks, and whichever
   peers are faulty: when Downloader::run returns None, 2F signatures under the point
   cannot be gathered, before or after.                                         *)
THEOREM GivenUpIsUnproven == Spec => []NotFoundIsUnproven
<1>1. Init => IInv BY InitInv
<1>2. IInv /\ [Next]_vars => IInv' BY NextInv
<1>3. IInv => NotFoundIsUnproven BY IInvImplies
<1> QED BY <1>1, <1>2, <1>3, PTL DEF Spec
=============================================================================
