------------------------- MODULE CoreEngine_proofs -------------------------
(***************************************************************************)
(* The panel shows a page of the list that is on flash, and takes no       *)
(* report for that of another page: for any apps, arrangements,            *)
(* notifications, durations and bounds.                                    *)
(***************************************************************************)
EXTENDS CoreEngine, SequenceTheorems, FiniteSetTheorems, WellFoundedInduction, TLAPS

-----------------------------------------------------------------------------
(* The first of several places *)

\* The relation of WFMin has to be hidden, or the provers expand it.
LEMMA LessIsWellFounded ==
  \E R : /\ \A x, y \in Nat : y < x => <<y, x>> \in R
         /\ \A T \in SUBSET Nat : T # {} => \E x \in T : \A y \in T : <<y, x>> \notin R
<1> DEFINE R == OpToRel(<, Nat)
<1>1. IsWellFoundedOn(R, Nat)
  BY NatLessThanWellFounded
<1>2. \A x, y \in Nat : y < x => <<y, x>> \in R
  BY DEF OpToRel
<1> HIDE DEF R
<1>3. \A T \in SUBSET Nat : T # {} => \E x \in T : \A y \in T : <<y, x>> \notin R
  BY <1>1, WFMin
<1> QED
  BY <1>2, <1>3

LEMMA LeastNatural ==
  ASSUME NEW T, T \subseteq Nat, T # {}
  PROVE  \E m \in T : \A k \in T : m <= k
<1>1. PICK R : /\ \A x, y \in Nat : y < x => <<y, x>> \in R
               /\ \A S \in SUBSET Nat : S # {} => \E x \in S : \A y \in S : <<y, x>> \notin R
  BY LessIsWellFounded
<1>2. PICK x \in T : \A y \in T : <<y, x>> \notin R
  BY <1>1
<1>3. \A y \in T : ~(y < x)
  BY <1>1, <1>2
<1> QED
  BY <1>2, <1>3

LEMMA IndexOfIsPlace ==
  ASSUME NEW apps, Len(apps) \in Nat, DOMAIN apps = 1..Len(apps), NEW id
  PROVE  /\ IndexOf(apps, id) \in 0..Len(apps)
         /\ IndexOf(apps, id) # 0 => apps[IndexOf(apps, id)] = id
         /\ id \in Members(apps) => IndexOf(apps, id) # 0
<1> DEFINE places == {i \in DOMAIN apps : apps[i] = id}
<1>1. CASE places = {}
  BY <1>1 DEF IndexOf, Members
<1>2. CASE places # {}
  <2> HIDE DEF places
  <2>1. PICK m \in places : \A k \in places : m <= k
    <3>1. places \subseteq Nat
      BY DEF places
    <3> QED
      BY <1>2, <3>1, LeastNatural
  <2> USE DEF places
  <2>2. \A j \in 1..(m - 1) : apps[j] # id
    BY <2>1
  <2>3. \E i \in DOMAIN apps : apps[i] = id /\ \A j \in 1..(i - 1) : apps[j] # id
    BY <2>1, <2>2
  <2> DEFINE p == CHOOSE i \in DOMAIN apps : apps[i] = id /\ \A j \in 1..(i - 1) : apps[j] # id
  <2>4. p \in DOMAIN apps /\ apps[p] = id
    BY <2>3
  <2>5. IndexOf(apps, id) = p
    BY <1>2 DEF IndexOf
  <2> HIDE DEF p
  <2> QED
    BY <2>4, <2>5
<1> QED
  BY <1>1, <1>2

-----------------------------------------------------------------------------
(* AppHost: what every method keeps *)

LEMMA SetAppsKeeps ==
  ASSUME NEW h, GoodHost(h), NEW ids, Len(ids) \in Nat, DOMAIN ids = 1..Len(ids)
  PROVE  /\ GoodHost(SetApps(h, ids))
         /\ SetApps(h, ids).apps = ids
         /\ CurrentId(h) \in Members(ids) => CurrentId(SetApps(h, ids)) = CurrentId(h)
<1> DEFINE found == IndexOf(ids, CurrentId(h))
           current == IF found # 0 THEN found
                      ELSE IF Len(ids) = 0 THEN 1
                      ELSE IF h.current > Len(ids) THEN Len(ids) ELSE h.current
           target == IF found # 0 THEN IndexOf(ids, IncomingId(h)) ELSE 0
           kept == target # 0 /\ target # current
<1>1. CASE ids = h.apps
  BY <1>1 DEF SetApps
<1>2. CASE ids # h.apps
  <2>1. /\ found \in 0..Len(ids)
        /\ found # 0 => ids[found] = CurrentId(h)
        /\ CurrentId(h) \in Members(ids) => found # 0
        /\ target \in 0..Len(ids)
    BY IndexOfIsPlace
  <2>2. SetApps(h, ids) = [h EXCEPT !.apps = ids, !.current = current,
                                    !.target = IF kept THEN target ELSE 0,
                                    !.phase = IF kept THEN "transition" ELSE "fixed"]
    BY <1>2 DEF SetApps
  <2>3. h \in [apps: {h.apps}, current: Nat \ {0}, target: Nat, direction: {-1, 1},
               phase: {"fixed", "transition"}, shown: Nat, started: BOOLEAN]
    BY DEF GoodHost
  <2>4. current \in Nat \ {0} /\ (Len(ids) # 0 => current <= Len(ids))
    BY <2>1, <2>3
  <2>5. found # 0 => current = found
    OBVIOUS
  <2> HIDE DEF found, current, target
  <2> DEFINE t == IF kept THEN target ELSE 0
             f == IF kept THEN "transition" ELSE "fixed"
  <2>6. t \in Nat /\ f \in {"fixed", "transition"} /\ (f = "fixed" <=> t = 0)
        /\ (t # 0 => t <= Len(ids) /\ t # current)
    BY <2>1
  <2>7. SetApps(h, ids) = [apps |-> ids, current |-> current, target |-> t,
                           direction |-> h.direction, phase |-> f, shown |-> h.shown,
                           started |-> h.started]
    BY <2>2, <2>3
  <2> HIDE DEF t, f, kept
  <2>8. GoodHost(SetApps(h, ids))
    BY <2>3, <2>4, <2>6, <2>7 DEF GoodHost
  <2>9. CurrentId(h) \in Members(ids) => CurrentId(SetApps(h, ids)) = CurrentId(h)
    BY <2>1, <2>5, <2>7 DEF CurrentId
  <2> QED
    BY <2>7, <2>8, <2>9
<1> QED
  BY <1>1, <1>2

LEMMA AroundIsPlace ==
  ASSUME NEW h, Len(h.apps) \in Nat, NEW from \in 1..Len(h.apps), NEW dir \in {-1, 1},
         NEW s \in 1..(Len(h.apps) - 1)
  PROVE  Around(h, from, dir * s) \in 1..Len(h.apps) \ {from}
<1> DEFINE n == Len(h.apps)
           i == from + dir * s
<1>1. Around(h, from, dir * s) = IF i > n THEN i - n ELSE IF i < 1 THEN i + n ELSE i
  BY DEF Around
<1>2. i = from + s \/ i = from - s
  <2>1. CASE dir = 1
    BY <2>1
  <2>2. CASE dir = -1
    BY <2>2
  <2> QED
    BY <2>1, <2>2
<1>3. n \in Nat /\ from \in 1..n /\ s \in 1..(n - 1)
  OBVIOUS
<1> HIDE DEF n, i
<1>4. Around(h, from, dir * s) \in 1..n /\ Around(h, from, dir * s) # from
  BY <1>1, <1>2, <1>3
<1> QED
  BY <1>4 DEF n

LEMMA PickIsAnother ==
  ASSUME NEW h, GoodHost(h), Len(h.apps) >= 2, NEW dir \in {-1, 1}, NEW no
  PROVE  Pick(h, dir, no) \in 0..Len(h.apps) /\ Pick(h, dir, no) # h.current
<1> DEFINE n == Len(h.apps)
           Wants(s) == h.apps[Around(h, h.current, dir * s)] \notin no
           steps == {s \in 1..(n - 1) : Wants(s)}
<1>1. n \in Nat /\ h.current \in 1..n
  BY DEF GoodHost
<1>2. CASE steps = {}
  <2>1. ~\E s \in 1..(n - 1) : Wants(s)
    BY <1>2
  <2>2. Pick(h, dir, no) = 0
    BY <2>1 DEF Pick
  <2> QED
    BY <1>1, <2>2
<1>3. CASE steps # {}
  <2> HIDE DEF steps
  <2>1. PICK m \in steps : \A k \in steps : m <= k
    <3>1. steps \subseteq Nat
      BY <1>1 DEF steps
    <3> QED
      BY <1>3, <3>1, LeastNatural
  <2> USE DEF steps
  <2>2. m \in 1..(n - 1) /\ Wants(m) /\ \A r \in 1..(m - 1) : ~Wants(r)
    <3>1. \A r \in 1..(m - 1) : r \in 1..(n - 1) /\ ~(m <= r)
      BY <1>1, <2>1
    <3> QED
      BY <2>1, <3>1
  <2> DEFINE c == CHOOSE s \in 1..(n - 1) : Wants(s) /\ \A r \in 1..(s - 1) : ~Wants(r)
  <2>3. c \in 1..(n - 1)
    BY <2>2
  <2>4. Pick(h, dir, no) = Around(h, h.current, dir * c)
    BY <1>3 DEF Pick
  <2> HIDE DEF c
  <2>5. Around(h, h.current, dir * c) \in 1..n \ {h.current}
    BY <1>1, <2>3, AroundIsPlace
  <2> QED
    BY <2>4, <2>5
<1> QED
  BY <1>2, <1>3

\* A host put together from parts that fit.
LEMMA HostOfParts ==
  ASSUME NEW h, GoodHost(h), NEW c, NEW t, NEW d \in {-1, 1}, NEW f,
         NEW s \in Nat, NEW b \in BOOLEAN,
         c \in Nat \ {0}, Len(h.apps) # 0 => c <= Len(h.apps),
         t \in 0..Len(h.apps), t # c, f = IF t = 0 THEN "fixed" ELSE "transition"
  PROVE  GoodHost([apps |-> h.apps, current |-> c, target |-> t, direction |-> d,
                   phase |-> f, shown |-> s, started |-> b])
  BY DEF GoodHost

LEMMA StartPhaseKeeps ==
  ASSUME NEW h, GoodHost(h)
  PROVE  GoodHost(StartPhase(h, h.phase)) /\ StartPhase(h, h.phase).apps = h.apps
  BY DEF GoodHost, StartPhase

LEMMA StartTransition ==
  ASSUME NEW h, GoodHost(h), NEW dir \in {-1, 1}, NEW t \in 1..Len(h.apps), t # h.current,
         NEW s, s = [h EXCEPT !.phase = "transition", !.shown = 0, !.started = TRUE,
                              !.direction = dir, !.target = t]
  PROVE  GoodHost(s) /\ s.apps = h.apps
<1>1. s = [apps |-> h.apps, current |-> h.current, target |-> t, direction |-> dir,
           phase |-> "transition", shown |-> 0, started |-> TRUE]
  <2>1. h \in [apps: {h.apps}, current: Nat \ {0}, target: Nat, direction: {-1, 1},
               phase: {"fixed", "transition"}, shown: Nat, started: BOOLEAN]
    BY DEF GoodHost
  <2> QED
    BY <2>1
<1>2. h.current \in Nat \ {0} /\ (Len(h.apps) # 0 => h.current <= Len(h.apps))
      /\ t # 0 /\ t \in 0..Len(h.apps)
  BY DEF GoodHost
<1>3. GoodHost([apps |-> h.apps, current |-> h.current, target |-> t, direction |-> dir,
                phase |-> "transition", shown |-> 0, started |-> TRUE])
  BY <1>2, HostOfParts
<1> QED
  BY <1>1, <1>3, Zenon

LEMMA SettleKeeps ==
  ASSUME NEW h, GoodHost(h)
  PROVE  GoodHost(Settle(h)) /\ Settle(h).apps = h.apps /\ Settle(h).phase = "fixed"
  BY DEF GoodHost, Settle, StartPhase

LEMMA BeginTransitionKeeps ==
  ASSUME NEW h, GoodHost(h), NEW dir \in {-1, 1}, NEW no
  PROVE  GoodHost(BeginTransition(h, dir, no)) /\ BeginTransition(h, dir, no).apps = h.apps
<1> DEFINE s == Settle(h)
           t == Pick(s, dir, no)
<1>1. CASE Len(h.apps) < 2
  BY <1>1 DEF BeginTransition
<1>2. CASE Len(h.apps) >= 2
  <2>1. GoodHost(s) /\ s.apps = h.apps /\ s.phase = "fixed"
    BY SettleKeeps
  <2>2. t \in 0..Len(h.apps) /\ t # s.current
    BY <1>2, <2>1, PickIsAnother
  <2>3. BeginTransition(h, dir, no) =
          IF t = 0 THEN StartPhase(s, s.phase)
          ELSE [StartPhase(s, "transition") EXCEPT !.direction = dir, !.target = t]
    <3>1. ~(Len(h.apps) < 2)
      BY <1>2 DEF GoodHost
    <3> QED
      BY <2>1, <3>1 DEF BeginTransition
  <2> HIDE DEF s, t
  <2>4. CASE t = 0
    BY <2>1, <2>3, <2>4, StartPhaseKeeps
  <2>5. CASE t # 0
    <3>1. t \in 1..Len(s.apps)
      BY <2>1, <2>2, <2>5
    <3>2. BeginTransition(h, dir, no) =
            [s EXCEPT !.phase = "transition", !.shown = 0, !.started = TRUE,
                      !.direction = dir, !.target = t]
      BY <2>3, <2>5 DEF StartPhase
    <3> DEFINE b == BeginTransition(h, dir, no)
    <3>3. b = [s EXCEPT !.phase = "transition", !.shown = 0, !.started = TRUE,
                        !.direction = dir, !.target = t]
      BY <3>2
    <3> HIDE DEF b
    <3>4. GoodHost(s) /\ t # s.current /\ dir \in {-1, 1}
      BY <2>1, <2>2
    <3>5. GoodHost(b) /\ b.apps = s.apps
      BY <3>1, <3>3, <3>4, StartTransition
    <3> QED
      BY <2>1, <3>5 DEF b
  <2> QED
    BY <2>4, <2>5
<1> QED
  BY <1>1, <1>2 DEF GoodHost

LEMMA TickHostKeeps ==
  ASSUME NEW h, GoodHost(h), NEW dwell, NEW transition, NEW auto, NEW no
  PROVE  /\ GoodHost(TickHost(h, dwell, transition, auto, no))
         /\ TickHost(h, dwell, transition, auto, no).apps = h.apps
<1> DEFINE c == IF h.started THEN h ELSE StartPhase(h, h.phase)
<1>1. GoodHost(c) /\ c.apps = h.apps
  BY StartPhaseKeeps
<1>2. c.direction \in {-1, 1}
  BY <1>1 DEF GoodHost
<1>3. TickHost(h, dwell, transition, auto, no) \in
        {h, c, BeginTransition(c, c.direction, no), Settle(c)}
  BY DEF TickHost
<1> HIDE DEF c
<1> QED
  BY <1>1, <1>2, <1>3, BeginTransitionKeeps, SettleKeeps

LEMMA SwitchToKeeps ==
  ASSUME NEW h, GoodHost(h), NEW id
  PROVE  GoodHost(SwitchTo(h, id)) /\ SwitchTo(h, id).apps = h.apps
<1> DEFINE i == IndexOf(h.apps, id)
<1>1. i \in 0..Len(h.apps)
  BY IndexOfIsPlace DEF GoodHost
<1>2. SwitchTo(h, id) =
        IF i = 0 THEN h ELSE [StartPhase(h, "fixed") EXCEPT !.current = i, !.target = 0]
  BY DEF SwitchTo
<1> HIDE DEF i
<1>3. CASE i # 0
  <2>1. SwitchTo(h, id) =
          [apps |-> h.apps, current |-> i, target |-> 0, direction |-> h.direction,
           phase |-> "fixed", shown |-> 0, started |-> TRUE]
    <3>1. SwitchTo(h, id) = [h EXCEPT !.phase = "fixed", !.shown = 0, !.started = TRUE,
                                      !.current = i, !.target = 0]
      BY <1>2, <1>3 DEF StartPhase
    <3>2. h \in [apps: {h.apps}, current: Nat \ {0}, target: Nat, direction: {-1, 1},
                 phase: {"fixed", "transition"}, shown: Nat, started: BOOLEAN]
      BY DEF GoodHost
    <3> QED
      BY <3>1, <3>2
  <2>2. h.direction \in {-1, 1} /\ Len(h.apps) \in Nat
    BY DEF GoodHost
  <2>3. GoodHost(SwitchTo(h, id))
    <3> DEFINE t == 0
    <3>1. /\ t \in 0..Len(h.apps) /\ t # i /\ i \in Nat \ {0} /\ i <= Len(h.apps)
          /\ "fixed" = IF t = 0 THEN "fixed" ELSE "transition"
      BY <1>1, <1>3, <2>2
    <3> HIDE DEF t
    <3> QED
      BY <2>1, <2>2, <3>1, HostOfParts DEF t
  <2> QED
    BY <2>1, <2>3
<1> QED
  BY <1>2, <1>3

LEMMA TransitionToKeeps ==
  ASSUME NEW h, GoodHost(h), NEW id
  PROVE  GoodHost(TransitionTo(h, id)) /\ TransitionTo(h, id).apps = h.apps
<1> DEFINE i == IndexOf(h.apps, id)
           s == Settle(h)
           t == [StartPhase(s, "transition") EXCEPT !.direction = 1, !.target = i]
<1>1. i \in 0..Len(h.apps)
  BY IndexOfIsPlace DEF GoodHost
<1>2. GoodHost(s) /\ s.apps = h.apps
  BY SettleKeeps
<1>3. TransitionTo(h, id) = h \/ TransitionTo(h, id) = s
      \/ (TransitionTo(h, id) = t /\ i # 0 /\ i # s.current)
  BY DEF TransitionTo
<1>4. i # 0 /\ i # s.current => GoodHost(t) /\ t.apps = h.apps
  <2> HIDE DEF i, s
  <2>1. t = [s EXCEPT !.phase = "transition", !.shown = 0, !.started = TRUE,
                      !.direction = 1, !.target = i]
    BY DEF StartPhase
  <2> HIDE DEF t
  <2>2. i # 0 => i \in 1..Len(s.apps)
    BY <1>1, <1>2
  <2>3. ASSUME i # 0, i # s.current PROVE GoodHost(t) /\ t.apps = s.apps
    <3>1. GoodHost(s) /\ i \in 1..Len(s.apps) /\ i # s.current /\ 1 \in {-1, 1}
      BY <1>2, <2>2, <2>3
    <3> QED
      BY <2>1, <3>1, StartTransition
  <2> QED
    BY <1>2, <2>3
<1> HIDE DEF i, s, t
<1> QED
  BY <1>2, <1>3, <1>4

LEMMA ElapseKeeps ==
  ASSUME NEW h, GoodHost(h), NEW limit
  PROVE  GoodHost(Elapse(h, limit)) /\ Elapse(h, limit).apps = h.apps
  BY DEF GoodHost, Elapse

-----------------------------------------------------------------------------
(* Lists are sequences *)

LEMMA FunctionIsSeq ==
  ASSUME NEW n \in Nat, NEW T, NEW f \in [1..n -> T]
  PROVE  f \in Seq(T) /\ Len(f) = n /\ DOMAIN f = 1..n
  OBVIOUS

LEMMA SeqOfMembers ==
  ASSUME NEW T, NEW s \in Seq(T)
  PROVE  s \in Seq(Members(s)) /\ Len(s) \in Nat /\ DOMAIN s = 1..Len(s)
<1>1. Len(s) \in Nat /\ DOMAIN s = 1..Len(s) /\ s \in [1..Len(s) -> T]
  BY LenProperties
<1>2. s \in [1..Len(s) -> Members(s)]
  BY <1>1 DEF Members
<1> QED
  BY <1>1, <1>2, FunctionIsSeq

LEMMA ConcatOfMembers ==
  ASSUME NEW s, s \in Seq(Members(s)), NEW t, t \in Seq(Members(t))
  PROVE  s \o t \in Seq(Members(s \o t))
<1> DEFINE T == Members(s) \cup Members(t)
<1>1. s \in Seq(T) /\ t \in Seq(T)
  BY SeqMonotonic
<1> HIDE DEF T
<1>2. s \o t \in Seq(T)
  BY <1>1, ConcatProperties
<1> QED
  BY <1>2, SeqOfMembers

LEMMA KeepIsSeq ==
  ASSUME NEW s, s \in Seq(Members(s)), NEW S
  PROVE  Keep(s, S) \in Seq(Members(Keep(s, S)))
<1> DEFINE kept == {i \in DOMAIN s : s[i] \in S}
           n == Cardinality(kept)
           f == [k \in 1..n |->
                   s[CHOOSE i \in kept : Cardinality({j \in kept : j <= i}) = k]]
<1>1. Len(s) \in Nat /\ DOMAIN s = 1..Len(s)
  BY SeqOfMembers
<1>2. kept \in SUBSET (1..Len(s)) /\ IsFiniteSet(1..Len(s))
  BY <1>1, FS_Interval
<1>3. n \in Nat
  <2> HIDE DEF kept
  <2> QED
    BY <1>2, FS_Subset, FS_CardinalityType
<1>4. Keep(s, S) = f
  BY DEF Keep
<1>5. f \in [1..n -> Members(f)]
  BY DEF Members
<1> HIDE DEF n, f
<1> QED
  BY <1>3, <1>4, <1>5, FunctionIsSeq

\* The k-th of the kept places exists: the least up to which there are k.
LEMMA PlaceExists ==
  ASSUME NEW n \in Nat, NEW kept \in SUBSET (1..n), NEW k \in 1..Cardinality(kept)
  PROVE  \E i \in kept : Cardinality({j \in kept : j <= i}) = k
<1> DEFINE upto(i) == {j \in kept : j <= i}
           Reached == {i \in Nat : Cardinality(upto(i)) >= k}
<1>0. \A j \in kept : j \in Nat /\ 1 <= j /\ j <= n
  OBVIOUS
<1>1. IsFiniteSet(kept)
  <2>1. kept \subseteq 1..n /\ IsFiniteSet(1..n)
    BY FS_Interval
  <2> QED
    BY <2>1, FS_Subset
<1>2. \A i \in Nat : IsFiniteSet(upto(i)) /\ Cardinality(upto(i)) \in Nat
  <2>1. \A i \in Nat : upto(i) \subseteq kept
    OBVIOUS
  <2> QED
    BY <1>1, <2>1, FS_Subset, FS_CardinalityType
<1>3. Cardinality(kept) \in Nat /\ k \in Nat /\ k >= 1
  BY <1>1, FS_CardinalityType
<1>4. n \in Reached
  <2>1. upto(n) = kept
    BY <1>0
  <2> QED
    BY <1>3, <2>1
<1>5. PICK i \in Reached : \A j \in Reached : i <= j
  <2> HIDE DEF Reached
  <2>1. Reached \subseteq Nat
    BY DEF Reached
  <2> QED
    BY <1>4, <2>1, LeastNatural
<1>6. i \in Nat /\ Cardinality(upto(i)) >= k
  OBVIOUS
<1>7. i # 0
  <2>1. upto(0) = {}
    <3>1. \A j \in kept : ~(j <= 0)
      BY <1>0
    <3> QED
      BY <3>1
  <2>2. Cardinality(upto(0)) = 0
    BY <2>1, FS_EmptySet
  <2> QED
    BY <1>3, <1>6, <2>2
<1>8. i - 1 \in Nat /\ ~(Cardinality(upto(i - 1)) >= k)
  <2>1. i - 1 \in Nat /\ ~(i <= i - 1)
    BY <1>6, <1>7
  <2> QED
    BY <1>5, <2>1
<1>9. i \in kept
  <2>1. CASE i \notin kept
    <3>1. upto(i) = upto(i - 1)
      <4>1. \A j \in kept : j <= i <=> j <= i - 1
        BY <1>0, <1>6, <2>1
      <4> QED
        BY <4>1
    <3> QED
      BY <1>6, <1>8, <3>1
  <2> QED
    BY <2>1
<1>10. Cardinality(upto(i)) = Cardinality(upto(i - 1)) + 1
  <2>1. upto(i) = upto(i - 1) \cup {i} /\ i \notin upto(i - 1)
    <3>1. \A j \in kept : j <= i <=> j <= i - 1 \/ j = i
      BY <1>0, <1>6
    <3>2. i \in kept /\ ~(i <= i - 1)
      BY <1>6, <1>9
    <3> QED
      BY <3>1, <3>2
  <2> HIDE DEF upto
  <2> QED
    BY <1>2, <1>8, <2>1, FS_AddElement
<1>11. Cardinality(upto(i)) = k
  <2> HIDE DEF upto
  <2> QED
    BY <1>2, <1>3, <1>6, <1>8, <1>10
<1> QED
  BY <1>9, <1>11

\* No two kept places come at the same k.
LEMMA PlacesDiffer ==
  ASSUME NEW n \in Nat, NEW kept \in SUBSET (1..n), NEW a \in kept, NEW b \in kept, a < b
  PROVE  Cardinality({j \in kept : j <= a}) # Cardinality({j \in kept : j <= b})
<1> DEFINE upto(i) == {j \in kept : j <= i}
<1>1. \A j \in kept : j \in Nat
  OBVIOUS
<1>2. IsFiniteSet(upto(a)) /\ IsFiniteSet(upto(b))
  <2>1. IsFiniteSet(kept)
    <3>1. kept \subseteq 1..n
      OBVIOUS
    <3>2. IsFiniteSet(1..n)
      BY FS_Interval
    <3> QED
      BY <3>1, <3>2, FS_Subset
  <2>2. upto(a) \subseteq kept /\ upto(b) \subseteq kept
    OBVIOUS
  <2> QED
    BY <2>1, <2>2, FS_Subset
<1>3. b \notin upto(a) /\ upto(a) \cup {b} \subseteq upto(b)
  <2>1. ~(b <= a) /\ b <= b /\ \A j \in kept : j <= a => j <= b
    BY <1>1
  <2> QED
    BY <2>1
<1> HIDE DEF upto
<1>4. IsFiniteSet(upto(a) \cup {b})
      /\ Cardinality(upto(a) \cup {b}) = Cardinality(upto(a)) + 1
  BY <1>2, <1>3, FS_AddElement
<1>5. Cardinality(upto(a) \cup {b}) <= Cardinality(upto(b))
  BY <1>2, <1>3, FS_Subset
<1>6. Cardinality(upto(a)) \in Nat /\ Cardinality(upto(b)) \in Nat
  BY <1>2, FS_CardinalityType
<1>7. Cardinality(upto(a)) # Cardinality(upto(b))
  BY <1>4, <1>5, <1>6
<1> QED
  BY <1>7 DEF upto

\* Keep() drops what is not in S and nothing else.
LEMMA KeepMembers ==
  ASSUME NEW s, s \in Seq(Members(s)), NEW S
  PROVE  Members(Keep(s, S)) = Members(s) \cap S
<1> DEFINE kept == {i \in DOMAIN s : s[i] \in S}
           c(i) == Cardinality({j \in kept : j <= i})
           At(k) == CHOOSE i \in kept : c(i) = k
<1>1. Len(s) \in Nat /\ DOMAIN s = 1..Len(s)
  BY SeqOfMembers
<1>2. kept \in SUBSET (1..Len(s))
  BY <1>1
<1>3. ASSUME NEW k \in 1..Cardinality(kept)
      PROVE  At(k) \in kept /\ c(At(k)) = k
  <2> HIDE DEF kept
  <2>1. \E i \in kept : c(i) = k
    BY <1>1, <1>2, PlaceExists
  <2> HIDE DEF c
  <2> QED
    BY <2>1
<1>4. ASSUME NEW i \in kept
      PROVE  c(i) \in 1..Cardinality(kept)
  <2>1. IsFiniteSet(kept)
    <3> HIDE DEF kept
    <3>1. kept \subseteq 1..Len(s) /\ IsFiniteSet(1..Len(s))
      BY <1>1, <1>2, FS_Interval
    <3> QED
      BY <3>1, FS_Subset
  <2>2. i \in {j \in kept : j <= i} /\ {j \in kept : j <= i} \subseteq kept
    BY <1>1, <1>2
  <2> DEFINE U == {j \in kept : j <= i}
  <2> HIDE DEF kept, U
  <2>3. IsFiniteSet(U) /\ Cardinality(U) <= Cardinality(kept)
    BY <2>1, <2>2, FS_Subset DEF U
  <2>4. Cardinality(U) # 0
    BY <2>2, <2>3, FS_EmptySet DEF U
  <2>5. Cardinality(U) \in Nat /\ Cardinality(kept) \in Nat
    BY <2>1, <2>3, FS_CardinalityType
  <2>6. Cardinality(U) \in 1..Cardinality(kept)
    BY <2>3, <2>4, <2>5
  <2> QED
    BY <2>6 DEF U
<1>5. ASSUME NEW i \in kept
      PROVE  At(c(i)) = i
  <2> DEFINE j == At(c(i))
  <2>1. j \in kept /\ c(j) = c(i)
    BY <1>3, <1>4
  <2>2. i \in Nat /\ j \in Nat
    BY <1>1, <1>2, <2>1
  <2> HIDE DEF kept, j
  <2>3. ~(i < j)
    BY <1>1, <1>2, <2>1, PlacesDiffer
  <2>4. ~(j < i)
    BY <1>1, <1>2, <2>1, PlacesDiffer
  <2>5. i = j
    BY <2>2, <2>3, <2>4
  <2> QED
    BY <2>5 DEF j
<1>6. Keep(s, S) = [k \in 1..Cardinality(kept) |-> s[At(k)]]
  BY DEF Keep
<1>7. Members(s) \cap S = {s[i] : i \in kept}
  BY DEF Members
<1> HIDE DEF kept, c, At
<1>8. \A x \in Members(Keep(s, S)) : x \in {s[i] : i \in kept}
  BY <1>3, <1>6 DEF Members
<1>9. ASSUME NEW i \in kept
      PROVE  s[i] \in Members(Keep(s, S))
  <2>1. Keep(s, S)[c(i)] = s[i] /\ c(i) \in DOMAIN Keep(s, S)
    BY <1>4, <1>5, <1>6
  <2> QED
    BY <2>1 DEF Members
<1> QED
  BY <1>7, <1>8, <1>9

LEMMA ConcatMembers ==
  ASSUME NEW s, s \in Seq(Members(s)), NEW t, t \in Seq(Members(t))
  PROVE  Members(s \o t) = Members(s) \cup Members(t)
<1>1. /\ Len(s) \in Nat /\ DOMAIN s = 1..Len(s)
      /\ Len(t) \in Nat /\ DOMAIN t = 1..Len(t)
  BY SeqOfMembers
<1>2. /\ DOMAIN (s \o t) = 1..(Len(s) + Len(t))
      /\ \A i \in 1..(Len(s) + Len(t)) :
           (s \o t)[i] = IF i <= Len(s) THEN s[i] ELSE t[i - Len(s)]
  <2> DEFINE T == Members(s) \cup Members(t)
  <2>1. s \in Seq(T) /\ t \in Seq(T)
    BY SeqMonotonic
  <2> HIDE DEF T
  <2>2. s \o t \in Seq(T) /\ Len(s \o t) = Len(s) + Len(t)
    BY <2>1, ConcatProperties
  <2>3. \A i \in 1..(Len(s) + Len(t)) :
          (s \o t)[i] = IF i <= Len(s) THEN s[i] ELSE t[i - Len(s)]
    BY <2>1, ConcatProperties
  <2> QED
    BY <2>2, <2>3, LenProperties
<1>3. \A x \in Members(s \o t) : x \in Members(s) \cup Members(t)
  BY <1>1, <1>2 DEF Members
<1>4. \A x \in Members(s) : x \in Members(s \o t)
  BY <1>1, <1>2 DEF Members
<1>5. ASSUME NEW j \in DOMAIN t
      PROVE  t[j] \in Members(s \o t)
  <2>1. Len(s) + j \in 1..(Len(s) + Len(t)) /\ (s \o t)[Len(s) + j] = t[j]
    BY <1>1, <1>2
  <2> QED
    BY <1>2, <2>1 DEF Members
<1> QED
  BY <1>3, <1>4, <1>5 DEF Members

\* What is used of an arrangement.
IsArrangement(a) == a.order \in Seq(Members(a.order))

LEMMA EmptyList == <<>> \in Seq(Members(<<>>))
<1>1. <<>> \in Seq({})
  OBVIOUS
<1> QED
  BY <1>1, SeqOfMembers

LEMMA AppendOfMembers ==
  ASSUME NEW s, s \in Seq(Members(s)), NEW x
  PROVE  Append(s, x) \in Seq(Members(Append(s, x)))
<1>1. s \in Seq(Members(s) \cup {x}) /\ x \in Members(s) \cup {x}
  BY SeqMonotonic
<1>2. Append(s, x) \in Seq(Members(s) \cup {x})
  BY <1>1
<1> QED
  BY <1>2, SeqOfMembers

LEMMA ConstantLists ==
  /\ Builtins \in Seq(Members(Builtins))
  /\ \A a \in Arrangements \cup {Default} : IsArrangement(a)
<1>1. \A s \in {Builtins} \cup {a.order : a \in Arrangements} : s \in Seq(Members(s))
  BY EngineAssumption DEF Members
<1>2. IsArrangement(Default)
  BY EmptyList DEF IsArrangement, Default
<1>3. \A a \in Arrangements : IsArrangement(a)
  BY <1>1 DEF IsArrangement
<1> QED
  BY <1>1, <1>2, <1>3

\* forgetArrangement() takes the name off both lists and adds none.
LEMMA Forgotten ==
  ASSUME NEW a, IsArrangement(a), NEW n
  PROVE  IsArrangement(Forget(a, n)) /\ Named(Forget(a, n)) \subseteq Named(a) \ {n}
<1>1. Members(Keep(a.order, Members(a.order) \ {n})) \subseteq Members(a.order) \ {n}
  BY KeepMembers DEF IsArrangement
<1> QED
  BY <1>1, KeepIsSeq DEF IsArrangement, Forget, Named

LEMMA LoopIsSeq ==
  ASSUME NEW apps, apps \in Seq(Members(apps)),
         NEW progs, progs \in Seq(Members(progs)), NEW a, IsArrangement(a)
  PROVE  /\ Len(Loop(apps, progs, a)) \in Nat
         /\ DOMAIN Loop(apps, progs, a) = 1..Len(Loop(apps, progs, a))
<1> DEFINE names == PushedNames(apps)
           left == Keep(Builtins, Members(Builtins) \ Members(names))
           own == Keep(progs, Members(progs) \ (Members(Builtins) \cup Members(names)))
           on == Members(Known(apps, progs)) \ a.disabled
           first == Keep(a.order, on)
           rest == Keep(Known(apps, progs), on \ Members(first))
<1>1. names \in Seq(Members(names))
  <2>1. Len(apps) \in Nat /\ DOMAIN apps = 1..Len(apps)
    BY SeqOfMembers
  <2>2. names \in [1..Len(apps) -> Members(names)]
    BY <2>1 DEF PushedNames, Members
  <2> HIDE DEF names
  <2> QED
    BY <2>1, <2>2, FunctionIsSeq
<1>2. left \in Seq(Members(left)) /\ own \in Seq(Members(own))
  BY KeepIsSeq, ConstantLists
<1>3. Known(apps, progs) \in Seq(Members(Known(apps, progs)))
  <2>1. Known(apps, progs) = (left \o names) \o own
    BY DEF Known
  <2> HIDE DEF left, names, own
  <2>2. left \o names \in Seq(Members(left \o names))
    BY <1>1, <1>2, ConcatOfMembers
  <2> QED
    BY <1>2, <2>1, <2>2, ConcatOfMembers
<1>4. first \in Seq(Members(first)) /\ rest \in Seq(Members(rest))
  BY <1>3, KeepIsSeq DEF IsArrangement
<1>5. Running(apps, progs, a) \in Seq(Members(Running(apps, progs, a)))
  <2>1. Running(apps, progs, a) = first \o rest
    BY DEF Running
  <2> HIDE DEF first, rest
  <2> QED
    BY <1>4, <2>1, ConcatOfMembers
<1>6. Loop(apps, progs, a) \in Seq(Members(Loop(apps, progs, a)))
  BY <1>5, KeepIsSeq DEF Loop
<1> QED
  BY <1>6, SeqOfMembers

\* rebuildAppList() leaves out no app that is switched on and draws, however
\* the order names it, and adds none.
LEMMA LoopMembers ==
  ASSUME NEW apps, apps \in Seq(Members(apps)),
         NEW progs, progs \in Seq(Members(progs)), NEW a, IsArrangement(a)
  PROVE  Members(Loop(apps, progs, a))
           = ((Members(Builtins) \cup Members(PushedNames(apps)) \cup Members(progs))
                \ a.disabled) \ Headless
<1> DEFINE names == PushedNames(apps)
           shown == Members(Builtins) \ Members(names)
           left == Keep(Builtins, shown)
           other == Members(progs) \ (Members(Builtins) \cup Members(names))
           own == Keep(progs, other)
           known == Known(apps, progs)
           on == Members(known) \ a.disabled
           first == Keep(a.order, on)
           rest == Keep(known, on \ Members(first))
           all == Running(apps, progs, a)
<1>1. names \in Seq(Members(names))
  <2>1. Len(apps) \in Nat /\ DOMAIN apps = 1..Len(apps)
    BY SeqOfMembers
  <2>2. names \in [1..Len(apps) -> Members(names)]
    BY <2>1 DEF PushedNames, Members
  <2> HIDE DEF names
  <2> QED
    BY <2>1, <2>2, FunctionIsSeq
<1>2. /\ left \in Seq(Members(left)) /\ Members(left) = Members(Builtins) \cap shown
      /\ own \in Seq(Members(own)) /\ Members(own) = Members(progs) \cap other
  BY KeepIsSeq, KeepMembers, ConstantLists
<1>3. known \in Seq(Members(known))
      /\ Members(known) = Members(left) \cup Members(names) \cup Members(own)
  <2>1. known = (left \o names) \o own
    BY DEF Known
  <2> HIDE DEF left, names, own, known
  <2>2. left \o names \in Seq(Members(left \o names))
        /\ Members(left \o names) = Members(left) \cup Members(names)
    BY <1>1, <1>2, ConcatOfMembers, ConcatMembers
  <2> QED
    BY <1>2, <2>1, <2>2, ConcatOfMembers, ConcatMembers
<1>4. first \in Seq(Members(first)) /\ Members(first) = Members(a.order) \cap on
  BY KeepIsSeq, KeepMembers DEF IsArrangement
<1>5. rest \in Seq(Members(rest))
      /\ Members(rest) = Members(known) \cap (on \ Members(first))
  <2> HIDE DEF known, first, on
  <2> QED
    BY <1>3, KeepIsSeq, KeepMembers
<1>6. all \in Seq(Members(all)) /\ Members(all) = Members(first) \cup Members(rest)
  <2>1. all = first \o rest
    BY DEF Running
  <2> HIDE DEF first, rest, all
  <2> QED
    BY <1>4, <1>5, <2>1, ConcatOfMembers, ConcatMembers
<1>7. Members(Loop(apps, progs, a)) = Members(all) \cap (Members(all) \ Headless)
  <2>1. Loop(apps, progs, a) = Keep(all, Members(all) \ Headless)
    BY DEF Loop
  <2> HIDE DEF all
  <2> QED
    BY <1>6, <2>1, KeepMembers
<1>8. Members(all) = on
  <2> HIDE DEF all, first, rest, known
  <2> QED
    BY <1>4, <1>5, <1>6
<1>9. Members(known) = Members(Builtins) \cup Members(names) \cup Members(progs)
  <2> HIDE DEF known, left, own, names
  <2> QED
    BY <1>2, <1>3
<1> HIDE DEF all, known
<1> QED
  BY <1>7, <1>8, <1>9

-----------------------------------------------------------------------------
(* NotificationManager: each method counts every change of the front *)

Manager == [queue: Seq(Notification), shown: Nat, generation: Nat]

Follows(m, next) ==
  /\ next \in Manager
  /\ \/ next.generation = m.generation + 1
     \/ /\ next.generation = m.generation
        /\ HasCurrent(m) => HasCurrent(next) /\ Current(next) = Current(m)

LEMMA FrontedFollows ==
  ASSUME NEW m \in Manager, NEW q \in Seq(Notification)
  PROVE  Follows(m, Fronted(m, q))
  BY DEF Manager, Follows, Fronted

LEMMA PushFollows ==
  ASSUME NEW m \in Manager, NEW n \in Notification
  PROVE  Follows(m, PushOn(m, n))
<1> DEFINE rest == IF HasCurrent(m) THEN Tail(m.queue) ELSE <<>>
<1>1. m.queue \in Seq(Notification)
  BY DEF Manager
<1>2. rest \in Seq(Notification) /\ <<n>> \in Seq(Notification)
  BY <1>1 DEF HasCurrent
<1>3. CASE ~n.stack
  <2>1. PushOn(m, n) = Fronted(m, <<n>> \o rest)
    BY <1>3 DEF PushOn
  <2>2. <<n>> \o rest \in Seq(Notification)
    <3> HIDE DEF rest
    <3> QED
      BY <1>2, ConcatProperties
  <2> QED
    BY <2>1, <2>2, FrontedFollows
<1>4. CASE n.stack /\ ~HasCurrent(m)
  BY <1>2, <1>4, FrontedFollows DEF PushOn
<1>5. CASE n.stack /\ HasCurrent(m)
  <2> DEFINE p == PushOn(m, n)
  <2>1. p = [m EXCEPT !.queue = Append(m.queue, n)]
    BY <1>5 DEF PushOn
  <2> HIDE DEF p
  <2>2. p = [queue |-> Append(m.queue, n), shown |-> m.shown, generation |-> m.generation]
    BY <2>1 DEF Manager
  <2>3. Append(m.queue, n) \in Seq(Notification) /\ Append(m.queue, n) # <<>>
        /\ Head(Append(m.queue, n)) = Head(m.queue)
    BY <1>1, <1>5 DEF HasCurrent
  <2>4. Follows(m, p)
    BY <2>2, <2>3 DEF Manager, Follows, HasCurrent, Current
  <2> QED
    BY <2>4 DEF p
<1> QED
  BY <1>3, <1>4, <1>5 DEF Notification

LEMMA DismissFollows ==
  ASSUME NEW m \in Manager
  PROVE  Follows(m, DismissFront(m))
<1>1. CASE HasCurrent(m)
  <2>1. Tail(m.queue) \in Seq(Notification)
    BY <1>1 DEF Manager, HasCurrent
  <2> QED
    BY <1>1, <2>1, FrontedFollows DEF DismissFront
<1>2. CASE ~HasCurrent(m)
  BY <1>2 DEF DismissFront, Follows
<1> QED
  BY <1>1, <1>2

LEMMA WithoutIsSeq ==
  ASSUME NEW q \in Seq(Notification), NEW k \in 1..Len(q)
  PROVE  /\ Without(q, k) \in Seq(Notification)
         /\ k # 1 => Without(q, k) # <<>> /\ Head(Without(q, k)) = Head(q)
<1>1. Len(q) \in Nat /\ q \in [1..Len(q) -> Notification] /\ Len(q) - 1 \in Nat
  BY LenProperties
<1>2. Without(q, k) \in [1..(Len(q) - 1) -> Notification]
  BY <1>1 DEF Without
<1>3. Without(q, k) \in Seq(Notification) /\ Len(Without(q, k)) = Len(q) - 1
  BY <1>1, <1>2, FunctionIsSeq
<1>4. ASSUME k # 1 PROVE Without(q, k)[1] = q[1] /\ Len(q) - 1 > 0
  BY <1>1, <1>4 DEF Without
<1> QED
  BY <1>3, <1>4

LEMMA DismissPlaceFollows ==
  ASSUME NEW m \in Manager, NEW k \in DOMAIN m.queue
  PROVE  Follows(m, DismissPlace(m, k))
<1>1. m.queue \in Seq(Notification) /\ k \in 1..Len(m.queue) /\ HasCurrent(m)
  BY LenProperties DEF Manager, HasCurrent
<1>2. CASE k = 1
  BY <1>1, <1>2, WithoutIsSeq, FrontedFollows DEF DismissPlace
<1>3. CASE k # 1
  <2> DEFINE p == DismissPlace(m, k)
             w == Without(m.queue, k)
  <2>1. p = [m EXCEPT !.queue = w]
    BY <1>3 DEF DismissPlace
  <2>2. w \in Seq(Notification) /\ w # <<>> /\ Head(w) = Head(m.queue)
    BY <1>1, <1>3, WithoutIsSeq
  <2> HIDE DEF p, w
  <2>3. p = [queue |-> w, shown |-> m.shown, generation |-> m.generation]
    BY <2>1 DEF Manager
  <2>4. Follows(m, p)
    BY <2>2, <2>3 DEF Manager, Follows, HasCurrent, Current
  <2> QED
    BY <2>4 DEF p
<1> QED
  BY <1>2, <1>3

\* The clock, and then update(): the front goes only when it is due.
LEMMA UpdateFollows ==
  ASSUME NEW m \in Manager, NEW limit \in Nat, NEW default \in Nat, NEW hold, NEW done,
         NEW next, next = Update(Wait(m, limit), default, hold, done)
  PROVE  /\ Follows(m, next)
         /\ next.queue # m.queue =>
              \/ done
              \/ m.shown + 1 >= default
              \/ Current(m).duration > 0 /\ m.shown + 1 >= Current(m).duration
<1> DEFINE w == Wait(m, limit)
           shown == IF m.shown < limit THEN m.shown + 1 ELSE m.shown
<1>1. w \in Manager /\ w.queue = m.queue /\ w.generation = m.generation
      /\ w.shown <= m.shown + 1
  <2>1. w = [m EXCEPT !.shown = shown]
    BY DEF Wait
  <2>2. m.shown \in Nat /\ shown \in Nat /\ shown <= m.shown + 1
    BY DEF Manager
  <2> HIDE DEF w, shown
  <2>3. w = [queue |-> m.queue, shown |-> shown, generation |-> m.generation]
    BY <2>1 DEF Manager
  <2> QED
    BY <2>2, <2>3 DEF Manager
<1>2. Current(w) = Current(m) /\ HasCurrent(w) = HasCurrent(m)
  BY <1>1 DEF Current, HasCurrent
<1>3. next = w \/ (next = DismissFront(w) /\ HasCurrent(w)
                   /\ w.shown >= IF Current(w).duration > 0 \/ done THEN Current(w).duration
                                 ELSE default)
  BY DEF Update
<1> HIDE DEF w
<1>4. Follows(m, next)
  <2>1. Follows(w, next)
    <3>1. Follows(w, w)
      BY <1>1 DEF Follows
    <3> QED
      BY <1>1, <1>3, <3>1, DismissFollows
  <2> QED
    BY <1>1, <1>2, <2>1 DEF Follows
<1>5. ASSUME next.queue # m.queue, ~done
      PROVE  \/ m.shown + 1 >= default
             \/ Current(m).duration > 0 /\ m.shown + 1 >= Current(m).duration
  <2>1. next # w
    BY <1>1, <1>5
  <2>2. HasCurrent(m) /\ w.shown >= IF Current(m).duration > 0 THEN Current(m).duration
                                    ELSE default
    BY <1>2, <1>3, <1>5, <2>1
  <2>3. Current(m).duration \in Nat /\ m.shown \in Nat /\ w.shown \in Nat
    <3>1. Current(m) \in Notification
      BY <2>2 DEF Manager, HasCurrent, Current
    <3> QED
      BY <1>1, <3>1 DEF Manager, Notification
  <2> QED
    BY <1>1, <2>2, <2>3
<1> QED
  BY <1>4, <1>5

-----------------------------------------------------------------------------
(* The two halves of the inductive invariant: what rotates, and what is      *)
(* reported                                                                  *)

ListsOK ==
  /\ GoodHost(host) /\ LoopIsSaved /\ GoneForGood
  /\ pushed \in Seq(Members(pushed))
  /\ installed \in Seq(Members(installed))
  /\ IsArrangement(arranged) /\ IsArrangement(saved)

ReportsOK ==
  /\ notifs \in Manager /\ serial \in Nat
  /\ page \in [kind: {"notification"}, of: 0..notifs.generation]
             \cup [kind: {"app"}, of: {page.of}] \cup {NoPage}
  /\ reported.done \in BOOLEAN /\ reported.generation \in 0..notifs.generation
  /\ DrawnIsFront /\ ReadIsFront

LEMMA Halves ==
  /\ IInv <=> ListsOK /\ ReportsOK /\ restarts \in Nat
  /\ IInv' <=> ListsOK' /\ ReportsOK' /\ restarts' \in Nat
  BY DEF IInv, TypeOK, ListsOK, ReportsOK, Manager, IsArrangement

\* The app that shows stays when the list changes around it.
ShowsKept ==
  (/\ restarts' = restarts
   /\ host'.apps # host.apps
   /\ CurrentId(host) \in Members(host'.apps))
    => CurrentId(host') = CurrentId(host)

\* rebuildAppList() after any of the lists has changed.
LEMMA Rebuilt ==
  ASSUME ListsOK,
         pushed' \in Seq(Members(pushed')), installed' \in Seq(Members(installed')),
         IsArrangement(arranged'), IsArrangement(saved'),
         unsaved' = {} => arranged' = saved', GoneForGood',
         host' = SetApps(host, Loop(pushed', installed', arranged'))
  PROVE  ListsOK' /\ ShowsKept
<1> DEFINE ids == Loop(pushed', installed', arranged')
<1>1. Len(ids) \in Nat /\ DOMAIN ids = 1..Len(ids)
  BY LoopIsSeq
<1>2. host' = SetApps(host, ids) /\ GoodHost(host)
  BY DEF ListsOK
<1> HIDE DEF ids
<1>3. GoodHost(host') /\ host'.apps = ids
      /\ (CurrentId(host) \in Members(ids) => CurrentId(host') = CurrentId(host))
  BY <1>1, <1>2, SetAppsKeeps
<1> QED
  BY <1>3 DEF ListsOK, LoopIsSaved, ShowsKept, ids

LEMMA Rotated ==
  ASSUME ListsOK, UNCHANGED <<pushed, installed, arrangement>>, GoodHost(host'),
         host'.apps = host.apps
  PROVE  ListsOK' /\ ShowsKept
  BY DEF ListsOK, LoopIsSaved, GoneForGood, ShowsKept, arrangement

LEMMA Unmoved ==
  ASSUME ListsOK, UNCHANGED <<host, pushed, installed, arrangement>>
  PROVE  ListsOK' /\ ShowsKept
  BY Rotated DEF ListsOK

\* The host after the constructor and the load of the arrangement.
LEMMA StartedIsGood ==
  ASSUME NEW a, IsArrangement(a)
  PROVE  GoodHost(Started(a)) /\ Started(a).apps = Loop(<<>>, <<>>, a)
<1> DEFINE first == Loop(<<>>, <<>>, Default)
           ids == Loop(<<>>, <<>>, a)
           made == SetApps(NewHost, first)
<1>1. IsArrangement(Default)
  BY ConstantLists
<1>2. /\ Len(first) \in Nat /\ DOMAIN first = 1..Len(first)
      /\ Len(ids) \in Nat /\ DOMAIN ids = 1..Len(ids)
  BY <1>1, EmptyList, LoopIsSeq
<1>3. GoodHost(NewHost)
  BY DEF GoodHost, NewHost
<1>4. Started(a) = SetApps(made, ids)
  BY DEF Started
<1>5. GoodHost(made)
  <2> HIDE DEF first
  <2> QED
    BY <1>2, <1>3, SetAppsKeeps
<1> HIDE DEF made, ids
<1>6. GoodHost(Started(a)) /\ Started(a).apps = ids
  BY <1>2, <1>4, <1>5, SetAppsKeeps
<1> QED
  BY <1>6 DEF ids

LEMMA Reported ==
  ASSUME ReportsOK, Follows(notifs, notifs'), serial' \in Nat,
         UNCHANGED <<page, reported, drawn, read>>
  PROVE  ReportsOK'
<1>1. notifs.generation \in Nat /\ notifs'.generation \in Nat
  BY DEF ReportsOK, Follows, Manager
<1>2. CASE notifs'.generation = notifs.generation + 1
  <2>1. reported.generation # notifs'.generation
        /\ page # [kind |-> "notification", of |-> notifs'.generation]
    BY <1>1, <1>2 DEF ReportsOK, NoPage
  <2>2. DrawnIsFront' /\ ReadIsFront'
    BY <2>1 DEF DrawnIsFront, ReadIsFront
  <2> QED
    BY <1>1, <1>2, <2>2 DEF ReportsOK, Follows
<1>3. CASE notifs'.generation = notifs.generation
          /\ (HasCurrent(notifs) => HasCurrent(notifs') /\ Current(notifs') = Current(notifs))
  <2>1. DrawnIsFront' /\ ReadIsFront'
    BY <1>3 DEF ReportsOK, DrawnIsFront, ReadIsFront
  <2> QED
    BY <1>3, <2>1 DEF ReportsOK, Follows
<1> QED
  BY <1>2, <1>3 DEF Follows

LEMMA Unreported ==
  ASSUME ReportsOK, UNCHANGED <<notifs, serial, page, reported, drawn, read>>
  PROVE  ReportsOK'
  BY DEF ReportsOK, DrawnIsFront, ReadIsFront

-----------------------------------------------------------------------------
(* The inductive invariant *)

LEMMA InitInv == Init => IInv
<1> SUFFICES ASSUME Init PROVE IInv
  OBVIOUS
<1>1. IsArrangement(Booted)
  BY EngineAssumption, ConstantLists
<1>2. GoodHost(host) /\ host.apps = Loop(<<>>, <<>>, Booted)
  BY <1>1, StartedIsGood DEF Init
<1>3. ListsOK
  BY <1>1, <1>2, EmptyList DEF Init, ListsOK, LoopIsSaved, GoneForGood
<1>4. ReportsOK
  BY DEF Init, ReportsOK, NewManager, Manager, Silence, NoPage, DrawnIsFront, ReadIsFront
<1>5. restarts \in Nat
  BY DEF Init
<1> QED
  BY <1>3, <1>4, <1>5, Halves

\* The removal of a script, saved or not: what it leaves of the arrangement.
LEMMA RemovalForgets ==
  ASSUME ListsOK, NEW n, NEW saves \in BOOLEAN, RemoveScript(n, saves)
  PROVE  /\ IsArrangement(arranged') /\ IsArrangement(saved')
         /\ unsaved' = {} => arranged' = saved'
         /\ GoneForGood'
<1>1. /\ arranged' = Forget(arranged, n)
      /\ saved' = IF saves /\ arranged' # arranged THEN arranged' ELSE saved
      /\ gone' = gone \cup {n}
      /\ unsaved' = IF saved' = arranged' THEN {} ELSE unsaved \cup {n}
  BY DEF RemoveScript
<1>2. IsArrangement(arranged) /\ IsArrangement(saved) /\ GoneForGood
  BY DEF ListsOK
<1>3. IsArrangement(arranged') /\ Named(arranged') \subseteq Named(arranged) \ {n}
  BY <1>1, <1>2, Forgotten
<1>4. IsArrangement(saved') /\ (unsaved' = {} => arranged' = saved')
  BY <1>1, <1>2, <1>3
<1>5. \A m \in gone' : m \notin Named(arranged')
  BY <1>1, <1>2, <1>3 DEF GoneForGood
<1>6. \A m \in gone' \ unsaved' : m \notin Named(saved')
  <2>1. CASE saved' = arranged'
    BY <1>5, <2>1
  <2>2. CASE saved' # arranged'
    BY <1>1, <1>2, <2>2 DEF GoneForGood
  <2> QED
    BY <2>1, <2>2
<1> QED
  BY <1>3, <1>4, <1>5, <1>6 DEF GoneForGood

LEMMA MovesKeep ==
  ASSUME IInv, Moves
  PROVE  ListsOK' /\ ShowsKept /\ ReportsOK'
<1>1. ListsOK /\ ReportsOK /\ GoodHost(host)
  BY Halves DEF ListsOK
<1>2. ReportsOK'
  BY <1>1, Unreported DEF Moves, PushApp, DeleteApp, Arrange, InstallScript, RemoveScript,
     UserMove, ScriptMove, ScriptPause, Decline, Screen, renderer, rotation
<1>a. /\ installed \in Seq(Members(installed)) /\ pushed \in Seq(Members(pushed))
      /\ IsArrangement(arranged) /\ IsArrangement(saved)
      /\ unsaved = {} => arranged = saved
  BY <1>1 DEF ListsOK, LoopIsSaved
<1>b. ASSUME UNCHANGED arrangement
      PROVE  /\ IsArrangement(arranged') /\ IsArrangement(saved')
             /\ unsaved' = {} => arranged' = saved'
             /\ GoneForGood'
  BY <1>1, <1>a, <1>b DEF arrangement, ListsOK, GoneForGood
<1>3. ASSUME NEW n \in Pushable, NEW r \in BOOLEAN, PushApp(n, r)
      PROVE  ListsOK' /\ ShowsKept
  <2> DEFINE p == [name |-> n, repeats |-> r]
             replaced == [i \in DOMAIN pushed |-> IF pushed[i].name = n THEN p ELSE pushed[i]]
  <2>1. pushed \in Seq(Members(pushed)) /\ Len(pushed) \in Nat
        /\ DOMAIN pushed = 1..Len(pushed)
    BY <1>1, SeqOfMembers DEF ListsOK
  <2>2. replaced \in Seq(Members(replaced))
    <3>1. replaced \in [1..Len(pushed) -> Members(replaced)]
      BY <2>1 DEF Members
    <3> HIDE DEF replaced
    <3> QED
      BY <2>1, <3>1, FunctionIsSeq
  <2>3. Append(pushed, p) \in Seq(Members(Append(pushed, p)))
    BY <2>1, AppendOfMembers
  <2>4. pushed' = replaced \/ pushed' = Append(pushed, p)
    BY <1>3 DEF PushApp
  <2> HIDE DEF replaced, p
  <2>5. pushed' \in Seq(Members(pushed'))
    BY <2>2, <2>3, <2>4
  <2>6. /\ installed' = installed /\ UNCHANGED arrangement
        /\ host' = SetApps(host, Loop(pushed', installed', arranged'))
    BY <1>3 DEF PushApp, Rebuild, scripts, arrangement
  <2> QED
    BY <1>1, <1>a, <1>b, <2>5, <2>6, Rebuilt
<1>4. ASSUME NEW n \in Pushable, DeleteApp(n)
      PROVE  ListsOK' /\ ShowsKept
  <2>1. pushed' \in Seq(Members(pushed'))
    BY <1>a, <1>4, KeepIsSeq DEF DeleteApp
  <2>2. /\ installed' = installed /\ UNCHANGED arrangement
        /\ host' = SetApps(host, Loop(pushed', installed', arranged'))
    BY <1>4 DEF DeleteApp, Rebuild, scripts, arrangement
  <2> QED
    BY <1>1, <1>a, <1>b, <2>1, <2>2, Rebuilt
<1>5. ASSUME NEW a \in Arrangements, NEW saves \in BOOLEAN, Arrange(a, saves)
      PROVE  ListsOK' /\ ShowsKept
  <2>1. CASE saves
    <3>1. /\ arranged' = a /\ saved' = a /\ gone' = gone \ Named(a) /\ unsaved' = {}
          /\ pushed' = pushed /\ installed' = installed
          /\ host' = SetApps(host, Loop(pushed', installed', arranged'))
      BY <1>5, <2>1 DEF Arrange, Rebuild, scripts
    <3>2. IsArrangement(a) /\ GoneForGood'
      BY <3>1, ConstantLists DEF GoneForGood
    <3> QED
      BY <1>1, <1>a, <3>1, <3>2, Rebuilt
  <2>2. CASE ~saves
    BY <1>1, <1>5, <2>2, Unmoved DEF Arrange, scripts, arrangement
  <2> QED
    BY <2>1, <2>2
<1>c. ASSUME NEW n, InstallScript(n)
      PROVE  ListsOK' /\ ShowsKept
  <2>1. /\ installed' = Append(installed, n) /\ pushed' = pushed /\ UNCHANGED arrangement
        /\ host' = SetApps(host, Loop(pushed', installed', arranged'))
    BY <1>c DEF InstallScript, Sync, Rebuild, arrangement
  <2>2. installed' \in Seq(Members(installed'))
    BY <1>a, <2>1, AppendOfMembers
  <2> QED
    BY <1>1, <1>a, <1>b, <2>1, <2>2, Rebuilt
<1>d. ASSUME NEW n, NEW saves \in BOOLEAN, RemoveScript(n, saves)
      PROVE  ListsOK' /\ ShowsKept
  <2>1. /\ installed' = Keep(installed, Members(installed) \ {n}) /\ pushed' = pushed
        /\ host' = SetApps(host, Loop(pushed', installed', arranged'))
    BY <1>d DEF RemoveScript, Rebuild
  <2>2. installed' \in Seq(Members(installed'))
    BY <1>a, <2>1, KeepIsSeq
  <2> QED
    BY <1>1, <1>a, <1>d, <2>1, <2>2, RemovalForgets, Rebuilt
<1>6. ASSUME NEW h, UserMove(h) \/ ScriptMove(h), GoodHost(h), h.apps = host.apps
      PROVE  ListsOK' /\ ShowsKept
  BY <1>1, <1>6, Rotated DEF UserMove, ScriptMove, lists, scripts
<1>7. ASSUME NEW dir \in {-1, 1},
             \/ UserMove(BeginTransition(host, dir, declines))
             \/ ScriptMove(BeginTransition(host, dir, declines))
      PROVE  ListsOK' /\ ShowsKept
  BY <1>1, <1>6, <1>7, BeginTransitionKeeps
<1>8. ASSUME NEW n, \/ UserMove(SwitchTo(host, n)) \/ UserMove(TransitionTo(host, n))
                    \/ ScriptMove(TransitionTo(host, n))
      PROVE  ListsOK' /\ ShowsKept
  BY <1>1, <1>6, <1>8, SwitchToKeeps, TransitionToKeeps
<1>9. ASSUME NEW x, ScriptPause(x) \/ Decline(x) \/ Screen(x)
      PROVE  ListsOK' /\ ShowsKept
  BY <1>1, <1>9, Unmoved DEF ScriptPause, Decline, Screen, rotation, lists, scripts
<1> QED
  BY <1>2, <1>3, <1>4, <1>5, <1>c, <1>d, <1>7, <1>8, <1>9 DEF Moves

LEMMA NotificationsKeep ==
  ASSUME IInv, \/ \E k \in Kinds : Notify(k)
               \/ Dismiss
               \/ \E k \in DOMAIN notifs.queue : DismissNamed(k)
  PROVE  ListsOK' /\ ShowsKept /\ ReportsOK'
<1>1. ListsOK /\ ReportsOK /\ notifs \in Manager /\ serial \in Nat
  BY Halves DEF ReportsOK
<1>2. ListsOK' /\ ShowsKept
  BY <1>1, Unmoved DEF Notify, Dismiss, DismissNamed, rotation, lists, scripts
<1>3. ASSUME NEW k \in Kinds, Notify(k)
      PROVE  ReportsOK'
  <2> DEFINE n == [id |-> serial + 1, stack |-> k.stack, hold |-> k.hold,
                   wakeup |-> k.wakeup, repeats |-> k.repeats, duration |-> k.duration]
  <2>1. k \in [stack: BOOLEAN, hold: BOOLEAN, wakeup: BOOLEAN, repeats: BOOLEAN,
               duration: Nat]
    BY EngineAssumption
  <2>2. n \in Notification /\ serial' \in Nat
    BY <1>1, <1>3, <2>1 DEF Notification, Notify
  <2>3. notifs' = PushOn(notifs, n) /\ UNCHANGED <<page, reported, drawn, read>>
    BY <1>3 DEF Notify, renderer
  <2> HIDE DEF n
  <2>4. Follows(notifs, notifs')
    BY <1>1, <2>2, <2>3, PushFollows
  <2> QED
    BY <1>1, <2>2, <2>3, <2>4, Reported
<1>4. ASSUME Dismiss
      PROVE  ReportsOK'
  BY <1>1, <1>4, DismissFollows, Reported DEF Dismiss, renderer
<1>5. ASSUME NEW k \in DOMAIN notifs.queue, DismissNamed(k)
      PROVE  ReportsOK'
  BY <1>1, <1>5, DismissPlaceFollows, Reported DEF DismissNamed, renderer
<1> QED
  BY <1>2, <1>3, <1>4, <1>5

\* In its own time, for its duration or because its own text has been read.
InItsTime ==
  step = "commands" /\ step' = "frame" /\ HasCurrent(notifs) /\ notifs'.queue # notifs.queue =>
    \/ read = Current(notifs).id
    \/ notifs.shown + 1 >= Dwell
    \/ Current(notifs).duration > 0 /\ notifs.shown + 1 >= Current(notifs).duration

LEMMA EngineTickKeeps ==
  ASSUME IInv, EngineTick
  PROVE  ListsOK' /\ ShowsKept /\ ReportsOK' /\ InItsTime
<1> DEFINE done == reported.done /\ reported.generation = notifs.generation
<1>1. ListsOK /\ ReportsOK /\ GoodHost(host) /\ notifs \in Manager /\ serial \in Nat
      /\ ReadIsFront
  BY Halves DEF ListsOK, ReportsOK
<1>2. GoodHost(host') /\ host'.apps = host.apps
  <2>1. GoodHost(Elapse(host, Limit)) /\ Elapse(host, Limit).apps = host.apps
    BY <1>1, ElapseKeeps
  <2> QED
    BY <2>1, TickHostKeeps DEF EngineTick
<1>3. ListsOK' /\ ShowsKept
  BY <1>1, <1>2, Rotated DEF EngineTick, lists, scripts
<1>4. /\ Follows(notifs, notifs')
      /\ notifs'.queue # notifs.queue =>
           \/ done
           \/ notifs.shown + 1 >= Dwell
           \/ Current(notifs).duration > 0 /\ notifs.shown + 1 >= Current(notifs).duration
  <2>1. notifs' = Update(Wait(notifs, Limit), Dwell, reported.notificationHold, done)
    BY DEF EngineTick
  <2>2. Limit \in Nat /\ Dwell \in Nat
    BY EngineAssumption
  <2> HIDE DEF done
  <2> QED
    BY <1>1, <2>1, <2>2, UpdateFollows
<1>5. ReportsOK'
  BY <1>1, <1>4, Reported DEF EngineTick, renderer
<1>6. InItsTime
  BY <1>1, <1>4 DEF InItsTime, ReadIsFront
<1> QED
  BY <1>3, <1>5, <1>6

LEMMA FrameKeeps ==
  ASSUME IInv, NEW c \in 0..ReadTime, Frame(c)
  PROVE  ListsOK' /\ ShowsKept /\ ReportsOK'
<1>1. ListsOK /\ ReportsOK /\ notifs \in Manager /\ serial \in Nat /\ ReadTime \in Nat
  BY Halves, EngineAssumption DEF ReportsOK
<1>2. ListsOK' /\ ShowsKept
  BY <1>1, Unmoved DEF Frame, rotation, lists, scripts
<1>3. notifs' = notifs /\ serial' = serial /\ page' = PageNow /\ reported' = Report(c)
  BY DEF Frame
<1>4. reported'.done \in BOOLEAN /\ reported'.generation = notifs.generation
      /\ (reported'.done => HasCurrent(notifs) /\ read' = Current(notifs).id)
  <2> DEFINE counts == IF HasCurrent(notifs) THEN Current(notifs).repeats
                       ELSE Repeats(CurrentId(host))
             done == HasCurrent(notifs) /\ counts /\ c >= ReadTime
  <2>1. Report(c).done = done /\ Report(c).generation = notifs.generation
    BY DEF Report
  <2>2. Report(c).done => read' = Current(notifs).id
    BY DEF Frame
  <2>3. done \in BOOLEAN /\ (done => HasCurrent(notifs))
    OBVIOUS
  <2> HIDE DEF done
  <2> QED
    BY <1>3, <2>1, <2>2, <2>3
<1>5. notifs.generation \in Nat
  BY <1>1 DEF Manager
<1>6. page' \in [kind: {"notification"}, of: 0..notifs.generation]
               \cup [kind: {"app"}, of: {page'.of}]
  BY <1>3, <1>5 DEF PageNow
<1>7. DrawnIsFront'
  BY <1>3 DEF DrawnIsFront, Frame, PageNow
<1>8. ReadIsFront'
  BY <1>3, <1>4 DEF ReadIsFront
<1> QED
  BY <1>1, <1>2, <1>3, <1>4, <1>5, <1>6, <1>7, <1>8 DEF ReportsOK

\* A start reads the arrangement that was saved, and knows no script yet.
LEMMA RestartKeeps ==
  ASSUME IInv, Restart
  PROVE  ListsOK' /\ ShowsKept /\ ReportsOK'
<1>1. ListsOK /\ serial \in Nat /\ restarts \in Nat /\ restarts' = restarts + 1
  BY Halves DEF ReportsOK, Restart
<1>2. /\ host' = Started(saved) /\ pushed' = <<>> /\ installed' = <<>>
      /\ arranged' = saved /\ saved' = saved
      /\ gone' = gone \ unsaved /\ unsaved' = {}
  BY DEF Restart
<1>3. IsArrangement(saved) /\ GoneForGood
  BY <1>1 DEF ListsOK
<1>4. GoodHost(host') /\ host'.apps = Loop(pushed', installed', arranged')
  BY <1>2, <1>3, StartedIsGood
<1>5. GoneForGood'
  BY <1>2, <1>3 DEF GoneForGood
<1>6. ListsOK'
  BY <1>2, <1>3, <1>4, <1>5, EmptyList DEF ListsOK, LoopIsSaved
<1>7. ShowsKept
  BY <1>1 DEF ShowsKept
<1>8. ReportsOK'
  BY <1>1 DEF Restart, ReportsOK, NewManager, Manager, Silence, NoPage, DrawnIsFront,
     ReadIsFront
<1> QED
  BY <1>6, <1>7, <1>8

LEMMA BootKeeps ==
  ASSUME IInv, Boot
  PROVE  ListsOK' /\ ShowsKept /\ ReportsOK'
<1>1. ListsOK /\ ReportsOK
  BY Halves
<1>2. PICK i \in DOMAIN Scripts : LoadScript(i)
  BY DEF Boot
<1>3. /\ installed' = Append(installed, Scripts[i]) /\ pushed' = pushed
      /\ UNCHANGED arrangement
      /\ host' = SetApps(host, Loop(pushed', installed', arranged'))
  BY <1>2 DEF LoadScript, Sync, Rebuild, arrangement
<1>4. installed' \in Seq(Members(installed')) /\ pushed' \in Seq(Members(pushed'))
  BY <1>1, <1>3, AppendOfMembers DEF ListsOK
<1>5. /\ IsArrangement(arranged') /\ IsArrangement(saved')
      /\ unsaved' = {} => arranged' = saved'
      /\ GoneForGood'
  BY <1>1, <1>3 DEF ListsOK, LoopIsSaved, GoneForGood, arrangement
<1>6. ListsOK' /\ ShowsKept
  BY <1>1, <1>3, <1>4, <1>5, Rebuilt
<1>7. ReportsOK'
  BY <1>1, <1>2, Unreported DEF LoadScript, renderer
<1> QED
  BY <1>6, <1>7

LEMMA StepKeeps ==
  IInv /\ [Next]_vars => IInv' /\ ShowsKept /\ InItsTime
<1> SUFFICES ASSUME IInv, [Next]_vars
             PROVE  ListsOK' /\ ShowsKept /\ ReportsOK' /\ InItsTime /\ restarts' \in Nat
  BY Halves
<1>0. restarts' \in Nat
  <2>1. restarts \in Nat
    BY Halves
  <2>2. restarts' = restarts \/ restarts' = restarts + 1
    BY DEF Next, vars, rotation, lists, Moves, PushApp, DeleteApp, Arrange, InstallScript,
       RemoveScript, UserMove, ScriptMove, ScriptPause, Decline, Screen, Notify, Dismiss,
       DismissNamed, Turn, EngineTick, Frame, NoFrame, Restart, Boot, LoadScript
  <2> QED
    BY <2>1, <2>2
<1>1. CASE Moves
  <2>1. notifs' = notifs
    BY <1>1 DEF Moves, PushApp, DeleteApp, Arrange, InstallScript, RemoveScript, UserMove,
       ScriptMove, ScriptPause, Decline, Screen
  <2> QED
    BY <1>0, <1>1, <2>1, MovesKeep DEF InItsTime
<1>2. CASE \/ \E k \in Kinds : Notify(k)
           \/ Dismiss
           \/ \E k \in DOMAIN notifs.queue : DismissNamed(k)
  <2>1. step' = step
    BY <1>2 DEF Notify, Dismiss, DismissNamed
  <2> QED
    BY <1>0, <1>2, <2>1, NotificationsKeep DEF InItsTime
<1>3. CASE EngineTick
  BY <1>0, <1>3, EngineTickKeeps
<1>4. CASE \E c \in 0..ReadTime : Frame(c)
  <2>1. notifs' = notifs
    BY <1>4 DEF Frame
  <2> QED
    BY <1>0, <1>4, <2>1, FrameKeeps DEF InItsTime
<1>5. CASE NoFrame \/ UNCHANGED vars
  <2>1. ListsOK /\ ReportsOK
    BY Halves
  <2>2. UNCHANGED <<host, pushed, installed, arrangement>>
        /\ UNCHANGED <<notifs, serial, page, reported, drawn, read>>
    BY <1>5 DEF NoFrame, vars, rotation, lists, scripts, renderer
  <2> QED
    BY <1>0, <2>1, <2>2, Unmoved, Unreported DEF InItsTime
<1>6. CASE Restart
  <2>1. step' # "frame"
    BY <1>6 DEF Restart, StepOf
  <2> QED
    BY <1>0, <1>6, <2>1, RestartKeeps DEF InItsTime
<1>7. CASE Boot
  <2>1. notifs' = notifs
    BY <1>7 DEF Boot, LoadScript
  <2> QED
    BY <1>0, <1>7, <2>1, BootKeeps DEF InItsTime
<1> QED
  BY <1>0, <1>1, <1>2, <1>3, <1>4, <1>5, <1>6, <1>7 DEF Next, Turn

\* The inductive invariant holds: the page the renderer looks up by index is in
\* the list, whatever list changes, moves and transitions come together
\* (AppHost.cpp: setApps, beginTransition, switchTo, transitionTo).
THEOREM Invariance == Spec => []IInv
  BY InitInv, StepKeeps, PTL DEF Spec

\* What the renderer took for the front is the front: no change of the front goes
\* uncounted (NotificationManager.cpp; RenderPipeline.cpp: renderFrame).
THEOREM DrawnCorrect == Spec => []DrawnIsFront
<1>1. IInv => DrawnIsFront
  BY DEF IInv
<1> QED
  BY <1>1, Invariance, PTL

\* The panel rotates the list that is on flash, a failed save included
\* (CoreEngine.cpp: applyAppOrder).
THEOREM RotationCorrect == Spec => []LoopIsSaved
<1>1. IInv => LoopIsSaved
  BY DEF IInv
<1> QED
  BY <1>1, Invariance, PTL

\* A removed script leaves no place behind, whatever is saved, restarted and
\* installed again (CoreEngine.cpp: removeScriptApp, forgetArrangement).
THEOREM RemovalCorrect == Spec => []GoneForGood
<1>1. IInv => GoneForGood
  BY DEF IInv
<1> QED
  BY <1>1, Invariance, PTL

\* Every app there is rotates, unless it is switched off or never draws, and
\* nothing else does (CoreEngine.cpp: knownApps, rebuildAppList).
THEOREM RotationComplete ==
  Spec => [](Members(host.apps)
               = ((Members(Builtins) \cup Members(PushedNames(pushed)) \cup Members(installed))
                    \ arranged.disabled) \ Headless)
<1>1. IInv => Members(host.apps)
                = ((Members(Builtins) \cup Members(PushedNames(pushed))
                      \cup Members(installed)) \ arranged.disabled) \ Headless
  BY Halves, LoopMembers DEF ListsOK, LoopIsSaved
<1> QED
  BY <1>1, Invariance, PTL

\* No notification is cut short by the report of another (CoreEngine.cpp: tick).
THEOREM NoneCutShort == Spec => NotCutShort
<1>1. IInv /\ [Next]_vars =>
        [step = "commands" /\ step' = "frame" /\ HasCurrent(notifs)
           /\ notifs'.queue # notifs.queue =>
             \/ read = Current(notifs).id
             \/ notifs.shown + 1 >= Dwell
             \/ Current(notifs).duration > 0
                /\ notifs.shown + 1 >= Current(notifs).duration]_vars
  BY StepKeeps DEF InItsTime
<1> QED
  BY <1>1, Invariance, PTL DEF Spec, NotCutShort

\* No list change replaces the app that shows (AppHost.cpp: setApps).
THEOREM ShowingKept == Spec => KeepsShowing
<1>1. IInv /\ [Next]_vars =>
        [(/\ restarts' = restarts
          /\ host'.apps # host.apps
          /\ CurrentId(host) \in Members(host'.apps))
           => CurrentId(host') = CurrentId(host)]_vars
  BY StepKeeps DEF ShowsKept
<1> QED
  BY <1>1, Invariance, PTL DEF Spec, KeepsShowing
=============================================================================
