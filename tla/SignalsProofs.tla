---------------------------- MODULE SignalsProofs ----------------------------
(***************************************************************************)
(* The safety properties of Signals for any handlers, signals, priorities, *)
(* depth of emissions and number of acts in a callback, if no signal is    *)
(* misused (Events = {}).                                                  *)
(*                                                                         *)
(* The argument has two halves.  The lists are sorted, and "before" orders *)
(* each of them; that is a fact about three tables, kept by taking nodes   *)
(* out and by putting one in.  An emission fits the lists: what it has     *)
(* called lies behind l_next, what it must call lies ahead, and its level  *)
(* is not above l_next's.  Both are stated of any three tables H, B and P  *)
(* (handlers, before and hdata), so that the lemmas speak of no state.     *)
(***************************************************************************)
EXTENDS Signals, SequenceTheorems, FiniteSetTheorems, TLAPS

\* Each list is ordered by B, and its priorities ascend.
Lists(H, B, P) ==
    /\ H \in [Signal -> SUBSET Link]
    /\ B \subseteq Link \X Link
    /\ P \in [Link -> HandlerData \cup {Blank}]
    /\ \A s, t \in Signal : s # t => H[s] \cap H[t] = {}
    /\ \A l \in Link : (\E s \in Signal : l \in H[s]) <=> P[l] # Blank
    /\ \A l, m \in Link : <<l, m>> \in B => l # m /\ \E s \in Signal : l \in H[s] /\ m \in H[s]
    /\ \A s \in Signal : \A l, m \in H[s] : l # m => <<l, m>> \in B \/ <<m, l>> \in B
    /\ \A l, m, n \in Link : <<l, m>> \in B /\ <<m, n>> \in B => <<l, n>> \in B
    /\ \A l, m \in Link : <<l, m>> \in B => P[l].priority <= P[m].priority

\* The nodes that an emission of s has not reached when it goes on with "next".
Rest(H, B, s, next) == {m \in H[s] : m = next \/ <<next, m>> \in B}

\* Emission e fits the lists.
Fits(e, H, B, P) ==
    /\ e.l_next \in H[e.signal] \cup {NULL}
    /\ e.l_next # NULL => e.level <= P[e.l_next].priority
    /\ e.called \subseteq H[e.signal] /\ e.due \subseteq H[e.signal]
    /\ e.called \cap Rest(H, B, e.signal, e.l_next) = {}
    /\ e.due \ e.called \subseteq Rest(H, B, e.signal, e.l_next)

IInv ==
    /\ TypeOK
    /\ ~freedUse
    /\ IsFiniteSet(registered) /\ signal_count = Cardinality(registered)
    /\ \A s \in Signal : handlers[s] # {} => s \in registered
    /\ Lists(handlers, before, hdata)
    /\ \A i \in 1..Depth : Fits(emissions[i], handlers, before, hdata)

-----------------------------------------------------------------------------
(* Taking nodes out of the lists.                                          *)

TakenOut(H, D)   == [s \in Signal |-> H[s] \ D]
Unordered(B, D)  == {p \in B : p[1] \notin D /\ p[2] \notin D}
Blanked(P, D)    == [l \in Link |-> IF l \in D THEN Blank ELSE P[l]]

\* A pair is left if neither of its nodes was taken out.
LEMMA PairsLeft ==
    ASSUME NEW B, NEW D, B \subseteq Link \X Link, NEW l, NEW m
    PROVE  <<l, m>> \in Unordered(B, D) <=> <<l, m>> \in B /\ l \notin D /\ m \notin D
  BY DEF Unordered

\* The lists stay ordered when nodes are taken out.
LEMMA ListsWithout ==
    ASSUME NEW H, NEW B, NEW P, Lists(H, B, P), NEW D
    PROVE  Lists(TakenOut(H, D), Unordered(B, D), Blanked(P, D))
  <1> DEFINE I == TakenOut(H, D)
             C == Unordered(B, D)
             Q == Blanked(P, D)
  <1>1. I \in [Signal -> SUBSET Link] /\ \A s \in Signal : I[s] = H[s] \ D
    BY DEF TakenOut, Lists
  <1>2. C \subseteq Link \X Link
    BY DEF Unordered, Lists
  <1>3. Q \in [Link -> HandlerData \cup {Blank}]
        /\ \A l \in Link : Q[l] = IF l \in D THEN Blank ELSE P[l]
    BY DEF Blanked, Lists
  <1>4. \A l, m : <<l, m>> \in C <=> <<l, m>> \in B /\ l \notin D /\ m \notin D
    BY PairsLeft DEF Lists
  <1> HIDE DEF I, C, Q
  <1>5. \A s, t \in Signal : s # t => I[s] \cap I[t] = {}
    BY <1>1 DEF Lists
  <1>6. \A l \in Link : (\E s \in Signal : l \in I[s]) <=> Q[l] # Blank
    BY <1>1, <1>3 DEF Lists
  <1>7. \A l, m \in Link : <<l, m>> \in C => l # m /\ \E s \in Signal : l \in I[s] /\ m \in I[s]
    BY <1>1, <1>4 DEF Lists
  <1>8. \A s \in Signal : \A l, m \in I[s] : l # m => <<l, m>> \in C \/ <<m, l>> \in C
    BY <1>1, <1>4 DEF Lists
  <1>9. \A l, m, n \in Link : <<l, m>> \in C /\ <<m, n>> \in C => <<l, n>> \in C
    BY <1>4 DEF Lists
  <1>10. \A l, m \in Link : <<l, m>> \in C => Q[l].priority <= Q[m].priority
    BY <1>3, <1>4 DEF Lists
  <1> QED BY <1>1, <1>2, <1>3, <1>5, <1>6, <1>7, <1>8, <1>9, <1>10 DEF Lists, I, C, Q

\* An emission still fits if the node it goes on with is not among those taken out.
LEMMA FitsWithout ==
    ASSUME NEW H, NEW B, NEW P, Lists(H, B, P), NEW D,
           NEW e \in Emission, Fits(e, H, B, P), e.l_next \notin D,
           NEW f \in Emission, f.signal = e.signal, f.l_next = e.l_next, f.level = e.level,
           f.called = e.called \ D, f.due = e.due \ D
    PROVE  Fits(f, TakenOut(H, D), Unordered(B, D), Blanked(P, D))
  <1> DEFINE I == TakenOut(H, D)
             C == Unordered(B, D)
             Q == Blanked(P, D)
             s == e.signal
  <1>1. s \in Signal /\ H[s] \subseteq Link /\ I[s] = H[s] \ D
    BY DEF TakenOut, Lists, Emission
  <1>2. \A l \in Link : Q[l] = IF l \in D THEN Blank ELSE P[l]
    BY DEF Blanked, Lists
  <1>3. \A l, m : <<l, m>> \in C <=> <<l, m>> \in B /\ l \notin D /\ m \notin D
    BY PairsLeft DEF Lists
  <1> HIDE DEF I, C, Q, s
  <1>4. Rest(I, C, s, e.l_next) = Rest(H, B, s, e.l_next) \ D
    BY <1>1, <1>3 DEF Rest
  <1>5. e.l_next # NULL => Q[e.l_next] = P[e.l_next]
    BY <1>1, <1>2 DEF Fits, s
  <1> QED BY <1>1, <1>4, <1>5 DEF Fits, I, C, Q, s

-----------------------------------------------------------------------------
(* Putting a node in.                                                      *)

PutIn(H, s, l)     == [H EXCEPT ![s] = @ \cup {l}]
Ordered(H, B, P, s, l, p) ==
    B \cup ({m \in H[s] : P[m].priority < p} \X {l})
      \cup ({l} \X {m \in H[s] : P[m].priority >= p})
Filled(P, l, d)    == [P EXCEPT ![l] = d]

\* The pairs after a node was put in.
LEMMA PairsThen ==
    ASSUME NEW H, NEW B, NEW P, NEW s, NEW l, NEW p, NEW a, NEW b
    PROVE  <<a, b>> \in Ordered(H, B, P, s, l, p) <=>
             \/ <<a, b>> \in B
             \/ a \in H[s] /\ P[a].priority < p /\ b = l
             \/ a = l /\ b \in H[s] /\ P[b].priority >= p
  BY DEF Ordered

\* The lists stay ordered, and sorted, when a node is put in.
LEMMA ListsWith ==
    ASSUME NEW H, NEW B, NEW P, Lists(H, B, P), NEW s \in Signal,
           NEW l \in Link, \A t \in Signal : l \notin H[t],
           NEW d \in HandlerData, d # Blank
    PROVE  Lists(PutIn(H, s, l), Ordered(H, B, P, s, l, d.priority), Filled(P, l, d))
  <1> DEFINE p == d.priority
             I == PutIn(H, s, l)
             C == Ordered(H, B, P, s, l, p)
             Q == Filled(P, l, d)
  <1>0. p \in Int /\ H[s] \subseteq Link /\ \A m \in Link : P[m] # Blank => P[m].priority \in Int
    BY PriorityAssumption DEF HandlerData, Lists
  <1>1. I \in [Signal -> SUBSET Link]
        /\ \A t \in Signal : I[t] = IF t = s THEN H[s] \cup {l} ELSE H[t]
    BY DEF PutIn, Lists
  <1>2. C \subseteq Link \X Link
    BY <1>0 DEF Ordered, Lists
  <1>3. Q \in [Link -> HandlerData \cup {Blank}]
        /\ Q[l] = d /\ \A m \in Link : m # l => Q[m] = P[m]
    BY DEF Filled, Lists
  <1>4. \A a, b : <<a, b>> \in C <=>
             \/ <<a, b>> \in B
             \/ a \in H[s] /\ P[a].priority < p /\ b = l
             \/ a = l /\ b \in H[s] /\ P[b].priority >= p
    <2> TAKE a, b
    <2> HIDE DEF p
    <2> QED BY DEF Ordered
  <1>5. \A a, b \in Link : <<a, b>> \in B => a # l /\ b # l
    BY DEF Lists
  <1>6. \A m \in H[s] : m # l /\ P[m].priority \in Int
    BY <1>0 DEF Lists
  <1> HIDE DEF I, C, Q, p
  <1>7. \A t, u \in Signal : t # u => I[t] \cap I[u] = {}
    BY <1>1 DEF Lists
  <1>8. \A m \in Link : (\E t \in Signal : m \in I[t]) <=> Q[m] # Blank
    <2> TAKE m \in Link
    <2>1. CASE m = l
      BY <1>1, <1>3, <2>1
    <2>2. CASE m # l
      BY <1>1, <1>3, <2>2 DEF Lists
    <2> QED BY <2>1, <2>2
  <1>9. \A a, b \in Link : <<a, b>> \in C => a # b /\ \E t \in Signal : a \in I[t] /\ b \in I[t]
    BY <1>1, <1>4, <1>6 DEF Lists
  <1>10. \A t \in Signal : \A a, b \in I[t] : a # b => <<a, b>> \in C \/ <<b, a>> \in C
    <2> TAKE t \in Signal
    <2> TAKE a, b \in I[t]
    <2> HAVE a # b
    <2>1. CASE a # l /\ b # l
      BY <1>1, <1>4, <2>1 DEF Lists
    <2>2. CASE a = l \/ b = l
      <3>1. t = s
        BY <1>1, <2>2
      <3>2. (a = l /\ b \in H[s]) \/ (b = l /\ a \in H[s])
        BY <1>1, <2>2, <3>1
      <3> QED BY <1>0, <1>4, <1>6, <3>2 DEF p
    <2> QED BY <2>1, <2>2
  <1>11. \A a, b, c \in Link : <<a, b>> \in C /\ <<b, c>> \in C => <<a, c>> \in C
    <2> SUFFICES ASSUME NEW a \in Link, NEW b \in Link, NEW c \in Link,
                        <<a, b>> \in C, <<b, c>> \in C
                 PROVE  <<a, c>> \in C
      OBVIOUS
    <2>1. CASE <<a, b>> \in B /\ <<b, c>> \in B
      BY <1>4, <2>1 DEF Lists
    <2>2. CASE <<a, b>> \in B /\ c = l /\ b \in H[s] /\ P[b].priority < p
      <3>1. a \in H[s] /\ P[a].priority <= P[b].priority
        BY <2>2 DEF Lists
      <3>2. P[a].priority < p
        BY <1>0, <1>6, <2>2, <3>1 DEF p
      <3> QED BY <1>4, <2>2, <3>1, <3>2
    <2>3. CASE a = l /\ b \in H[s] /\ P[b].priority >= p /\ <<b, c>> \in B
      <3>1. c \in H[s] /\ P[b].priority <= P[c].priority
        BY <2>3 DEF Lists
      <3>2. P[c].priority >= p
        BY <1>0, <1>6, <2>3, <3>1 DEF p
      <3> QED BY <1>4, <2>3, <3>1, <3>2
    <2>4. CASE a \in H[s] /\ P[a].priority < p /\ b = l /\ c \in H[s] /\ P[c].priority >= p
      <3>1. a # c /\ ~(P[c].priority <= P[a].priority)
        BY <1>0, <1>6, <2>4 DEF p
      <3>2. <<a, c>> \in B
        BY <2>4, <3>1 DEF Lists
      <3> QED BY <1>4, <3>2
    <2>5. CASE a = l /\ b = l
      BY <1>4, <1>5, <1>6, <2>5
    <2>6. \/ <<a, b>> \in B
          \/ a \in H[s] /\ P[a].priority < p /\ b = l
          \/ a = l /\ b \in H[s] /\ P[b].priority >= p
      BY <1>4
    <2>7. \/ <<b, c>> \in B
          \/ b \in H[s] /\ P[b].priority < p /\ c = l
          \/ b = l /\ c \in H[s] /\ P[c].priority >= p
      BY <1>4
    <2>8. b \in H[s] => ~(P[b].priority < p /\ P[b].priority >= p)
      BY <1>0, <1>6 DEF p
    <2> QED BY <1>5, <1>6, <2>1, <2>2, <2>3, <2>4, <2>5, <2>6, <2>7, <2>8
  <1>12. \A a, b \in Link : <<a, b>> \in C => Q[a].priority <= Q[b].priority
    <2> SUFFICES ASSUME NEW a \in Link, NEW b \in Link, <<a, b>> \in C
                 PROVE  Q[a].priority <= Q[b].priority
      OBVIOUS
    <2>1. CASE <<a, b>> \in B
      BY <1>3, <1>5, <2>1 DEF Lists
    <2>2. CASE a \in H[s] /\ P[a].priority < p /\ b = l
      BY <1>0, <1>3, <1>6, <2>2 DEF p
    <2>3. CASE a = l /\ b \in H[s] /\ P[b].priority >= p
      BY <1>0, <1>3, <1>6, <2>3 DEF p
    <2> QED BY <1>4, <2>1, <2>2, <2>3
  <1> QED BY <1>1, <1>2, <1>3, <1>7, <1>8, <1>9, <1>10, <1>11, <1>12 DEF Lists, I, C, Q, p

\* An emission still fits, whatever list the node is put into: it was not called,
\* and need not be.
LEMMA FitsWith ==
    ASSUME NEW H, NEW B, NEW P, Lists(H, B, P), NEW s \in Signal,
           NEW l \in Link, \A t \in Signal : l \notin H[t], NEW d \in HandlerData,
           NEW e \in Emission, Fits(e, H, B, P),
           NEW f \in Emission, f.signal = e.signal, f.l_next = e.l_next, f.level = e.level,
           f.called = e.called, f.due = e.due
    PROVE  Fits(f, PutIn(H, s, l), Ordered(H, B, P, s, l, d.priority), Filled(P, l, d))
  <1> DEFINE p == d.priority
             I == PutIn(H, s, l)
             C == Ordered(H, B, P, s, l, p)
             Q == Filled(P, l, d)
             r == e.signal
  <1>1. r \in Signal /\ \A t \in Signal : I[t] = IF t = s THEN H[s] \cup {l} ELSE H[t]
    BY DEF PutIn, Lists, Emission
  <1>2. \A m \in Link : m # l => Q[m] = P[m]
    BY DEF Filled, Lists
  <1>3. \A a, b : <<a, b>> \in C <=>
             \/ <<a, b>> \in B
             \/ a \in H[s] /\ P[a].priority < p /\ b = l
             \/ a = l /\ b \in H[s] /\ P[b].priority >= p
    <2> TAKE a, b
    <2> HIDE DEF p
    <2> QED BY DEF Ordered
  <1>4. H[r] \subseteq Link /\ l \notin H[r] /\ l # NULL /\ l \notin e.called /\ e.l_next # l
    BY <1>1, NullAssumption DEF Lists, Fits
  <1> HIDE DEF I, C, Q, p
  <1>5. \A m \in H[r] : m \in Rest(I, C, r, e.l_next) <=> m \in Rest(H, B, r, e.l_next)
    BY <1>1, <1>3, <1>4 DEF Rest
  <1>6. e.l_next # NULL => Q[e.l_next] = P[e.l_next]
    BY <1>1, <1>2, <1>4 DEF Fits
  <1> QED BY <1>1, <1>4, <1>5, <1>6 DEF Fits, Rest, I, C, Q, p, r

-----------------------------------------------------------------------------
(* The stack of emissions.                                                 *)

\* f is e after the nodes in D were freed and some acts.
Same(e, f, D) ==
    /\ f \in Emission
    /\ f.signal = e.signal /\ f.l_next = e.l_next /\ f.level = e.level
    /\ f.called = e.called \ D /\ f.due = e.due \ D

\* One act more changes what the innermost callback may still do, and nothing else.
LEMMA Act ==
    ASSUME TypeOK, MayAct
    PROVE  /\ Acted \in Seq(Emission) /\ Len(Acted) = Depth
           /\ \A i \in 1..Depth : Same(emissions[i], Acted[i], {})
  <1>1. emissions \in Seq(Emission) /\ Depth \in Nat /\ \A i \in 1..Depth : emissions[i] \in Emission
    BY LenProperties, ElementOfSeq DEF TypeOK, Depth
  <1>2. \A e \in Emission : Same(e, e, {})
    BY DEF Same
  <1>3. CASE Depth = 0
    <2>1. Acted = emissions /\ Len(emissions) = 0
      BY <1>3 DEF Acted, Depth
    <2> QED BY <1>1, <1>2, <2>1 DEF Depth
  <1>4. CASE Depth # 0
    <2> DEFINE e == emissions[Depth]
               f == [e EXCEPT !.acts = @ - 1]
    <2>1. e \in Emission /\ e.acts > 0 /\ Depth \in 1..Depth
      BY <1>1, <1>4 DEF MayAct
    <2>2. e.acts - 1 \in 0..MaxActs
      BY <2>1, BoundAssumption DEF Emission
    <2>3. Same(e, f, {})
      BY <2>1, <2>2 DEF Same, Emission
    <2>4. Acted = [emissions EXCEPT ![Depth] = f]
      BY <1>4 DEF Acted
    <2>5. f \in Emission
      BY <2>3 DEF Same
    <2> HIDE DEF f
    <2>6. /\ Acted \in Seq(Emission) /\ Len(Acted) = Depth
          /\ \A j \in 1..Depth : Acted[j] = IF j = Depth THEN f ELSE emissions[j]
      BY <1>1, <2>1, <2>4, <2>5, ExceptSeq DEF Depth
    <2> QED BY <1>1, <1>2, <2>3, <2>6
  <1> QED BY <1>3, <1>4

\* Freed nodes are forgotten in every emission.
LEMMA Forget ==
    ASSUME NEW es \in Seq(Emission), NEW D
    PROVE  /\ Forgotten(es, D) \in Seq(Emission) /\ Len(Forgotten(es, D)) = Len(es)
           /\ \A i \in 1..Len(es) : Same(es[i], Forgotten(es, D)[i], D)
  <1> DEFINE F == Forgotten(es, D)
             g(e) == [e EXCEPT !.due = @ \ D, !.called = @ \ D]
  <1>1. DOMAIN es = 1..Len(es) /\ Len(es) \in Nat /\ \A i \in 1..Len(es) : es[i] \in Emission
    BY LenProperties, ElementOfSeq
  <1>2. \A e \in Emission : g(e) \in Emission /\ Same(e, g(e), D)
    BY DEF Emission, Same
  <1>3. F = [i \in 1..Len(es) |-> g(es[i])]
    BY <1>1, Zenon DEF Forgotten
  <1> HIDE DEF F, g
  <1>4. F \in [1..Len(es) -> Emission]
    BY <1>1, <1>2, <1>3
  <1>5. F \in Seq(Emission)
    BY <1>1, <1>4, SeqDef
  <1>6. Len(F) = Len(es)
    BY <1>1, <1>4, <1>5, LenProperties
  <1>7. \A i \in 1..Len(es) : Same(es[i], F[i], D)
    BY <1>1, <1>2, <1>3
  <1> QED BY <1>5, <1>6, <1>7 DEF F

\* What is known of the emissions under way.
LEMMA EmissionFacts ==
    ASSUME IInv
    PROVE  /\ Depth \in Nat /\ Depth <= MaxDepth
           /\ \A i \in 1..Depth : emissions[i] \in Emission /\ emissions[i].level \in Int
  <1>1. Depth \in Nat /\ \A i \in 1..Depth : emissions[i] \in Emission
    BY LenProperties, ElementOfSeq DEF IInv, TypeOK, Depth
  <1>2. \A e \in Emission : e.level \in Int
    BY PriorityAssumption DEF Emission
  <1> QED BY <1>1, <1>2 DEF IInv, TypeOK, Depth

\* The levels of the emissions that go on do not sink.
Ascends == \A i \in (1..Depth) \cap (1..Depth') : emissions[i].level <= emissions'[i].level

\* What freeing nodes leaves, if no emission goes on with one of them.
LEMMA FreeStep ==
    ASSUME IInv, Events = {}, MayAct, NEW D, Free(D)
    PROVE  /\ handlers' = TakenOut(handlers, D)
           /\ Lists(handlers', before', hdata')
           /\ emissions' \in Seq(Emission) /\ Len(emissions') = Depth
           /\ \A i \in 1..Depth : Fits(emissions'[i], handlers', before', hdata')
           /\ Ascends
  <1>1. /\ handlers' = TakenOut(handlers, D) /\ before' = Unordered(before, D)
        /\ hdata' = Blanked(hdata, D)
    BY DEF Free, Freed, TakenOut, Unordered, Blanked
  <1>2. Lists(handlers', before', hdata')
    BY <1>1, ListsWithout DEF IInv
  <1>3. /\ Acted \in Seq(Emission) /\ Len(Acted) = Depth
        /\ \A i \in 1..Depth : Same(emissions[i], Acted[i], {})
    BY Act DEF IInv
  <1>4. /\ emissions' \in Seq(Emission) /\ Len(emissions') = Depth
        /\ \A i \in 1..Depth : Same(Acted[i], emissions'[i], D)
    BY <1>3, Forget DEF Free
  <1>5. \A i \in 1..Depth : Same(emissions[i], emissions'[i], D)
    BY <1>3, <1>4 DEF Same
  <1>6. ASSUME NEW i \in 1..Depth
        PROVE  /\ Fits(emissions'[i], handlers', before', hdata')
               /\ emissions[i].level <= emissions'[i].level
    <2>1. emissions[i] \in Emission /\ emissions[i].level \in Int
      BY EmissionFacts
    <2>2. Fits(emissions[i], handlers, before, hdata) /\ Lists(handlers, before, hdata)
      BY DEF IInv
    <2>3. emissions[i].l_next \notin D
      BY DEF Free
    <2>4. emissions'[i] \in Emission
          /\ emissions'[i].signal = emissions[i].signal /\ emissions'[i].l_next = emissions[i].l_next
          /\ emissions'[i].level = emissions[i].level
          /\ emissions'[i].called = emissions[i].called \ D
          /\ emissions'[i].due = emissions[i].due \ D
      BY <1>5 DEF Same
    <2>5. Fits(emissions'[i], TakenOut(handlers, D), Unordered(before, D), Blanked(hdata, D))
      BY <2>1, <2>2, <2>3, <2>4, FitsWithout
    <2> QED BY <1>1, <2>1, <2>4, <2>5
  <1>7. Ascends
    BY <1>6 DEF Ascends
  <1> QED BY <1>1, <1>2, <1>4, <1>6, <1>7

\* The invariant after a step, from its parts.
LEMMA Whole ==
    ASSUME registered' \subseteq Signal, freedUse' = FALSE, IsFiniteSet(registered'),
           signal_count' = Cardinality(registered'),
           \A s \in Signal : handlers'[s] # {} => s \in registered',
           Lists(handlers', before', hdata'),
           emissions' \in Seq(Emission), Len(emissions') <= MaxDepth,
           \A i \in 1..Len(emissions') : Fits(emissions'[i], handlers', before', hdata')
    PROVE  IInv'
  <1>1. signal_count' \in Nat
    BY FS_CardinalityType
  <1> QED BY <1>1 DEF IInv, TypeOK, Lists, Depth

\* A step that frees nodes keeps the invariant if it counts right.
LEMMA Freeing ==
    ASSUME IInv, Events = {}, MayAct, NEW D, Free(D), freedUse' = FALSE,
           registered' \subseteq Signal, IsFiniteSet(registered'),
           signal_count' = Cardinality(registered'),
           \A s \in Signal : handlers[s] \ D # {} => s \in registered'
    PROVE  IInv' /\ Ascends
  <1>1. /\ handlers' = TakenOut(handlers, D)
        /\ Lists(handlers', before', hdata')
        /\ emissions' \in Seq(Emission) /\ Len(emissions') = Depth
        /\ \A i \in 1..Depth : Fits(emissions'[i], handlers', before', hdata')
        /\ Ascends
    BY FreeStep
  <1>2. Len(emissions') <= MaxDepth
    BY <1>1 DEF IInv, TypeOK, Depth
  <1>3. \A s \in Signal : handlers'[s] # {} => s \in registered'
    BY <1>1 DEF TakenOut
  <1> QED BY <1>1, <1>2, <1>3, Whole

-----------------------------------------------------------------------------
(* The actions.                                                            *)

\* A name that is not registered is new, and counted once.
LEMMA Register ==
    ASSUME IInv, Events = {}, NEW s \in Signal, register(s)
    PROVE  IInv' /\ Ascends
  <1>1. s \notin registered /\ freedUse' = FALSE /\ MayAct /\ Free(handlers[s])
        /\ registered' = registered \cup {s} /\ signal_count' = signal_count + 1
    BY DEF register, IInv, Emitting
  <1>2. IsFiniteSet(registered') /\ signal_count' = Cardinality(registered')
    BY <1>1, FS_AddElement DEF IInv
  <1>3. registered' \subseteq Signal /\ \A t \in Signal : handlers[t] # {} => t \in registered'
    BY <1>1 DEF IInv, TypeOK
  <1> QED BY <1>1, <1>2, <1>3, Freeing

\* Without a signal there is no instance either.
LEMMA Unregister ==
    ASSUME IInv, Events = {}, NEW s \in Signal, unregister(s)
    PROVE  IInv' /\ Ascends
  <1> DEFINE D == IF registered' = {} THEN Connected ELSE handlers[s]
  <1>1. /\ s \in registered /\ ~Emitting(s) /\ freedUse' = FALSE /\ MayAct /\ Free(D)
        /\ registered' = Uncounted(s)[1] /\ signal_count' = Uncounted(s)[2]
    BY DEF unregister, IInv
  <1>2. /\ IsFiniteSet(registered \ {s})
        /\ Cardinality(registered \ {s}) = signal_count - 1
        /\ registered \subseteq Signal /\ signal_count \in Nat
    BY <1>1, FS_RemoveElement DEF IInv, TypeOK
  <1>3. registered' = registered \ {s} /\ signal_count' = signal_count - 1
    <2>1. CASE signal_count = 1
      <3>1. registered \ {s} = {}
        BY <1>2, <2>1, FS_EmptySet
      <3> QED BY <1>1, <2>1, <3>1 DEF Uncounted
    <2>2. CASE signal_count # 1
      BY <1>1, <2>2 DEF Uncounted
    <2> QED BY <2>1, <2>2
  <1>4. registered' \subseteq Signal /\ IsFiniteSet(registered')
        /\ signal_count' = Cardinality(registered')
    BY <1>2, <1>3
  <1>5. \A t \in Signal : handlers[t] \ D # {} => t \in registered'
    BY <1>3 DEF IInv, Connected
  <1> HIDE DEF D
  <1> QED BY <1>1, <1>4, <1>5, Freeing

\* With the instance all its handlers go; no emission is under way then.
LEMMA UnregisterByInstance ==
    ASSUME IInv, Events = {}, unregister_by_instance
    PROVE  IInv' /\ Ascends
  <1>1. freedUse' = FALSE /\ MayAct /\ Free(Connected) /\ registered' = {} /\ signal_count' = 0
    BY DEF unregister_by_instance, IInv
  <1>2. registered' \subseteq Signal /\ IsFiniteSet(registered')
        /\ signal_count' = Cardinality(registered')
    BY <1>1, FS_EmptySet
  <1>3. \A t \in Signal : handlers[t] \ Connected # {} => t \in registered'
    BY DEF Connected
  <1> QED BY <1>1, <1>2, <1>3, Freeing

\* Handlers may be connected while an emission calls others.
LEMMA Connect ==
    ASSUME IInv, NEW s \in Signal, NEW l \in Link, NEW h \in Handle, NEW cb \in Callback,
           NEW p \in Priority, connect(s, l, h, cb, p)
    PROVE  IInv' /\ Ascends
  <1> DEFINE d == [handle |-> h, cb |-> cb, priority |-> p]
  <1>1. d \in HandlerData /\ d # Blank /\ d.priority = p
    BY NullAssumption DEF HandlerData, Blank
  <1>2. \A t \in Signal : l \notin handlers[t]
    BY DEF connect, Connected
  <1>3. Lists(handlers, before, hdata)
    BY DEF IInv
  <1>4. /\ handlers' = PutIn(handlers, s, l) /\ hdata' = Filled(hdata, l, d)
        /\ before' = Ordered(handlers, before, hdata, s, l, d.priority)
        /\ emissions' = Acted /\ MayAct /\ s \in registered
        /\ registered' = registered /\ signal_count' = signal_count /\ freedUse' = freedUse
    BY <1>1 DEF connect, PutIn, Filled, Ordered, Inserted
  <1> HIDE DEF d
  <1>5. Lists(handlers', before', hdata')
    BY <1>1, <1>2, <1>3, <1>4, ListsWith
  <1>6. /\ emissions' \in Seq(Emission) /\ Len(emissions') = Depth
        /\ \A i \in 1..Depth : Same(emissions[i], emissions'[i], {})
    BY <1>4, Act DEF IInv
  <1>7. ASSUME NEW i \in 1..Depth
        PROVE  /\ Fits(emissions'[i], handlers', before', hdata')
               /\ emissions[i].level <= emissions'[i].level
    <2>1. emissions[i] \in Emission /\ emissions[i].level \in Int
      BY EmissionFacts
    <2>2. Fits(emissions[i], handlers, before, hdata)
      BY DEF IInv
    <2>3. emissions'[i] \in Emission
          /\ emissions'[i].signal = emissions[i].signal /\ emissions'[i].l_next = emissions[i].l_next
          /\ emissions'[i].level = emissions[i].level
          /\ emissions'[i].called = emissions[i].called
          /\ emissions'[i].due = emissions[i].due
      BY <1>6 DEF Same
    <2>4. Fits(emissions'[i], PutIn(handlers, s, l),
               Ordered(handlers, before, hdata, s, l, d.priority), Filled(hdata, l, d))
      BY <1>1, <1>2, <1>3, <2>1, <2>2, <2>3, FitsWith
    <2> QED BY <1>4, <2>1, <2>3, <2>4
  <1>8. \A t \in Signal : handlers'[t] # {} => t \in registered'
    BY <1>3, <1>4 DEF PutIn, Lists, IInv
  <1>9. /\ registered' \subseteq Signal /\ freedUse' = FALSE /\ IsFiniteSet(registered')
        /\ signal_count' = Cardinality(registered') /\ Len(emissions') <= MaxDepth
    BY <1>4, <1>6 DEF IInv, TypeOK, Depth
  <1>10. IInv'
    BY <1>5, <1>6, <1>7, <1>8, <1>9, Whole
  <1> QED BY <1>7, <1>10 DEF Ascends

\* One handler is disconnected.
LEMMA Disconnect ==
    ASSUME IInv, Events = {}, NEW s \in Signal, NEW h \in Handle, NEW cb \in Callback,
           disconnect(s, h, cb)
    PROVE  IInv' /\ Ascends
  <1>1. PICK l : Free({l})
    BY DEF disconnect
  <1> QED BY <1>1, Freeing DEF disconnect, IInv, TypeOK

\* All handlers of a plugin are disconnected.
LEMMA DisconnectByHandle ==
    ASSUME IInv, Events = {}, NEW h \in Handle, disconnect_by_handle(h)
    PROVE  IInv' /\ Ascends
  BY Freeing DEF disconnect_by_handle, IInv, TypeOK

-----------------------------------------------------------------------------
(* Emissions.                                                              *)

\* The node that a call goes to is the first of those that are left, and what
\* is left after it is what it is followed by.
LEMMA Follow ==
    ASSUME Lists(handlers, before, hdata), NEW s \in Signal, NEW l \in handlers[s],
           NEW next \in Following(s, l)
    PROVE  /\ next \in handlers[s] \cup {NULL}
           /\ Rest(handlers, before, s, next) = {m \in handlers[s] : <<l, m>> \in before}
           /\ next # NULL => hdata[l].priority <= hdata[next].priority
  <1> DEFINE S == {m \in handlers[s] : <<l, m>> \in before}
  <1>1. handlers[s] \subseteq Link /\ l \in Link /\ NULL \notin Link
    BY NullAssumption DEF Lists
  <1>2. next \in First(S)
    BY DEF Following
  <1>3. CASE S = {}
    <2>1. next = NULL
      BY <1>2, <1>3 DEF First
    <2>2. Rest(handlers, before, s, next) = {}
      BY <1>1, <2>1 DEF Rest, Lists
    <2> QED BY <1>3, <2>1, <2>2
  <1>4. CASE S # {}
    <2>1. next \in S /\ \A m \in S \ {next} : <<next, m>> \in before
      BY <1>2, <1>4 DEF First
    <2>2. Rest(handlers, before, s, next) \subseteq S
      BY <1>1, <2>1 DEF Rest, Lists
    <2>3. S \subseteq Rest(handlers, before, s, next)
      BY <2>1 DEF Rest
    <2>4. hdata[l].priority <= hdata[next].priority
      BY <1>1, <2>1 DEF Lists
    <2> QED BY <2>1, <2>2, <2>3, <2>4
  <1> QED BY <1>3, <1>4

\* An emission that calls l fits, if what it called lies behind l and what it
\* must call does not.
LEMMA CallingFits ==
    ASSUME Lists(handlers, before, hdata), NEW e \in Emission, NEW l \in handlers[e.signal],
           NEW next \in Following(e.signal, l),
           e.called \subseteq handlers[e.signal], e.due \subseteq handlers[e.signal],
           \A m \in e.called : <<l, m>> \notin before,
           \A m \in e.due \ e.called : m = l \/ <<l, m>> \in before
    PROVE  /\ Calling(e, l, next) \in Emission
           /\ Fits(Calling(e, l, next), handlers, before, hdata)
           /\ Calling(e, l, next).level = hdata[l].priority
  <1> DEFINE s == e.signal
             f == Calling(e, l, next)
  <1>1. s \in Signal /\ handlers[s] \subseteq Link /\ l \in Link /\ <<l, l>> \notin before
    BY DEF Emission, Lists
  <1>2. /\ next \in handlers[s] \cup {NULL}
        /\ Rest(handlers, before, s, next) = {m \in handlers[s] : <<l, m>> \in before}
        /\ next # NULL => hdata[l].priority <= hdata[next].priority
    BY <1>1, Follow
  <1>3. hdata[l].priority \in Priority
    <2>1. hdata[l] # Blank
      BY <1>1 DEF Lists
    <2> QED BY <1>1, <2>1 DEF Lists, HandlerData
  <1>4. /\ f \in Emission /\ f.signal = s /\ f.l_next = next /\ f.level = hdata[l].priority
        /\ f.called = e.called \cup {l} /\ f.due = e.due
    <2>1. MaxActs \in 0..MaxActs /\ next \in Link \cup {NULL} /\ e.called \cup {l} \in SUBSET Link
      BY <1>1, <1>2, BoundAssumption DEF Emission
    <2> QED BY <1>1, <1>3, <2>1 DEF Calling, Emission
  <1> HIDE DEF f, s
  <1>5. Fits(f, handlers, before, hdata)
    BY <1>1, <1>2, <1>4 DEF Fits, s
  <1> QED BY <1>4, <1>5 DEF f, s

\* An emission begins with the first handler; all are still to be called.
LEMMA Emit ==
    ASSUME IInv, NEW s \in Signal, NEW until \in {"all", "answer"}, emit(s, until)
    PROVE  IInv' /\ Ascends
  <1>0. PICK l \in First(handlers[s]) \ {NULL} : \E next \in Following(s, l) :
          emissions' = Append(Acted,
             Calling([signal |-> s, until |-> until, l |-> l, l_next |-> next, acts |-> MaxActs,
                      level |-> hdata[l].priority, due |-> handlers[s], called |-> {}], l, next))
    BY DEF emit
  <1>1. PICK next \in Following(s, l) :
          emissions' = Append(Acted,
             Calling([signal |-> s, until |-> until, l |-> l, l_next |-> next, acts |-> MaxActs,
                      level |-> hdata[l].priority, due |-> handlers[s], called |-> {}], l, next))
    BY <1>0
  <1> DEFINE e == [signal |-> s, until |-> until, l |-> l, l_next |-> next, acts |-> MaxActs,
                   level |-> hdata[l].priority, due |-> handlers[s], called |-> {}]
             f == Calling(e, l, next)
  <1>2. /\ MayAct /\ Depth < MaxDepth /\ UNCHANGED <<registered, signal_count, freedUse>>
        /\ handlers' = handlers /\ before' = before /\ hdata' = hdata
    BY DEF emit
  <1>3. Lists(handlers, before, hdata) /\ NULL \notin Link /\ handlers[s] \subseteq Link
    BY NullAssumption DEF IInv, Lists
  <1>4. l \in handlers[s] /\ \A m \in handlers[s] \ {l} : <<l, m>> \in before
    BY DEF First
  <1>5. next \in handlers[s] \cup {NULL}
    BY <1>3, <1>4, Follow
  <1>6. hdata[l].priority \in Priority
    <2>1. hdata[l] # Blank
      BY <1>3, <1>4 DEF Lists
    <2> QED BY <1>3, <1>4, <2>1 DEF Lists, HandlerData
  <1>7. e \in Emission /\ e.signal = s /\ e.called = {} /\ e.due = handlers[s]
    BY <1>3, <1>4, <1>5, <1>6, BoundAssumption DEF Emission
  <1> HIDE DEF e
  <1>8. f \in Emission /\ Fits(f, handlers, before, hdata)
    BY <1>3, <1>4, <1>7, CallingFits
  <1> HIDE DEF f
  <1>9. /\ Acted \in Seq(Emission) /\ Len(Acted) = Depth /\ Depth \in Nat
        /\ \A i \in 1..Depth : Same(emissions[i], Acted[i], {})
    BY <1>2, Act, LenProperties DEF IInv, TypeOK, Depth
  <1>10. emissions' = Append(Acted, f)
    BY <1>1 DEF e, f
  <1>11. /\ emissions' \in Seq(Emission) /\ Len(emissions') = Depth + 1
         /\ \A i \in 1..Depth : emissions'[i] = Acted[i]
         /\ emissions'[Depth + 1] = f
    BY <1>8, <1>9, <1>10
  <1>12. ASSUME NEW i \in 1..Depth
         PROVE  /\ Fits(emissions'[i], handlers', before', hdata')
                /\ emissions[i].level <= emissions'[i].level
    <2>1. emissions[i] \in Emission /\ emissions[i].level \in Int
      BY EmissionFacts
    <2>2. Fits(emissions[i], handlers, before, hdata)
      BY DEF IInv
    <2>3. Same(emissions[i], emissions'[i], {})
      BY <1>9, <1>11
    <2>4. Fits(emissions'[i], handlers, before, hdata)
      BY <2>2, <2>3 DEF Same, Fits
    <2> QED BY <1>2, <2>1, <2>3, <2>4 DEF Same
  <1>13. \A i \in 1..Len(emissions') : Fits(emissions'[i], handlers', before', hdata')
    <2> TAKE i \in 1..Len(emissions')
    <2>1. i \in 1..Depth \/ i = Depth + 1
      BY <1>9, <1>11
    <2> QED BY <1>2, <1>8, <1>11, <1>12, <2>1
  <1>14. /\ registered' \subseteq Signal /\ freedUse' = FALSE /\ IsFiniteSet(registered')
         /\ signal_count' = Cardinality(registered') /\ Len(emissions') <= MaxDepth
    BY <1>2, <1>9, <1>11, BoundAssumption DEF IInv, TypeOK
  <1>15. \A t \in Signal : handlers'[t] # {} => t \in registered'
    BY <1>2 DEF IInv
  <1>16. IInv'
    BY <1>2, <1>3, <1>11, <1>13, <1>14, <1>15, Whole
  <1> QED BY <1>12, <1>16 DEF Ascends

\* A callback returns: the emission goes on with l_next, which is still there,
\* or ends.
LEMMA Return ==
    ASSUME IInv, return
    PROVE  IInv' /\ Ascends
  <1> DEFINE e == emissions[Depth]
  <1>1. /\ Depth \in Nat /\ Depth > 0 /\ Depth <= MaxDepth
        /\ \A i \in 1..Depth : emissions[i] \in Emission /\ emissions[i].level \in Int
    BY EmissionFacts DEF return
  <1>2. /\ UNCHANGED <<registered, signal_count>> /\ handlers' = handlers
        /\ before' = before /\ hdata' = hdata
    BY DEF return
  <1>3. Lists(handlers, before, hdata) /\ \A i \in 1..Depth : Fits(emissions[i], handlers, before, hdata)
    BY DEF IInv
  <1>4. e \in Emission /\ Fits(e, handlers, before, hdata) /\ e.level \in Int
    BY <1>1, <1>3
  <1>5. /\ Outer \in Seq(Emission) /\ Len(Outer) = Depth - 1
        /\ \A i \in 1..(Depth - 1) : Outer[i] = emissions[i]
    <2>1. \A i \in 1..(Depth - 1) : emissions[i] \in Emission
      BY <1>1
    <2> QED BY <1>1, <2>1, SubSeqProperties DEF Outer
  <1>6. CASE emissions' = Outer /\ freedUse' = FALSE
    <2>1. \A i \in 1..(Depth - 1) :
             /\ Fits(emissions'[i], handlers', before', hdata')
             /\ emissions'[i] = emissions[i] /\ emissions[i].level \in Int
      BY <1>1, <1>2, <1>3, <1>5, <1>6
    <2>2. /\ registered' \subseteq Signal /\ IsFiniteSet(registered')
          /\ signal_count' = Cardinality(registered')
          /\ \A s \in Signal : handlers'[s] # {} => s \in registered'
          /\ Lists(handlers', before', hdata')
      BY <1>2, <1>3 DEF IInv, TypeOK
    <2>2a. emissions' \in Seq(Emission) /\ Len(emissions') <= MaxDepth
           /\ Len(emissions') = Depth - 1
      BY <1>1, <1>5, <1>6, BoundAssumption
    <2>2b. IInv'
      BY <1>6, <2>1, <2>2, <2>2a, Whole
    <2>3. Ascends
      BY <1>1, <1>5, <1>6, <2>1 DEF Ascends, Depth
    <2> QED BY <2>2b, <2>3
  <1>7. ASSUME e.l_next \in handlers[e.signal], freedUse' = FALSE,
               NEW after \in Following(e.signal, e.l_next),
               emissions' = Append(Outer, Calling(e, e.l_next, after))
        PROVE  IInv' /\ Ascends
    <2> DEFINE f == Calling(e, e.l_next, after)
    <2>1. e.l_next # NULL
      BY <1>3, <1>4, <1>7, NullAssumption DEF Lists, Emission
    <2>2. f \in Emission /\ Fits(f, handlers, before, hdata) /\ f.level = hdata[e.l_next].priority
          /\ e.level <= f.level
      <3>1. \A m \in e.called : <<e.l_next, m>> \notin before
        BY <1>4 DEF Fits, Rest
      <3>2. \A m \in e.due \ e.called : m = e.l_next \/ <<e.l_next, m>> \in before
        BY <1>4 DEF Fits, Rest
      <3>3. e.called \subseteq handlers[e.signal] /\ e.due \subseteq handlers[e.signal]
        BY <1>4 DEF Fits
      <3> HIDE DEF e
      <3>4. f \in Emission /\ Fits(f, handlers, before, hdata) /\ f.level = hdata[e.l_next].priority
        BY <1>3, <1>4, <1>7, <3>1, <3>2, <3>3, CallingFits
      <3> QED BY <1>4, <2>1, <3>4 DEF Fits
    <2> HIDE DEF f
    <2>3. /\ emissions' \in Seq(Emission) /\ Len(emissions') = Depth
          /\ \A i \in 1..(Depth - 1) : emissions'[i] = emissions[i]
          /\ emissions'[Depth] = f
      BY <1>1, <1>5, <1>7, <2>2 DEF f
    <2>4. \A i \in 1..Depth :
             /\ Fits(emissions'[i], handlers', before', hdata')
             /\ emissions[i].level <= emissions'[i].level
      <3> TAKE i \in 1..Depth
      <3>1. CASE i = Depth
        BY <1>2, <2>2, <2>3, <3>1
      <3>2. CASE i # Depth
        <4>1. i \in 1..(Depth - 1) /\ emissions[i].level \in Int
          BY <1>1, <3>2
        <4> QED BY <1>2, <1>3, <2>3, <4>1
      <3> QED BY <3>1, <3>2
    <2>5. IInv'
      BY <1>1, <1>2, <1>3, <1>7, <2>3, <2>4, Whole DEF IInv, TypeOK
    <2> QED BY <2>4, <2>5 DEF Ascends
  <1>8. e.l_next \in handlers[e.signal] \cup {NULL}
    BY <1>4 DEF Fits
  <1>9. \/ emissions' = Outer /\ freedUse' = freedUse
        \/ /\ e.l_next \in handlers[e.signal] /\ freedUse' = freedUse
           /\ \E after \in Following(e.signal, e.l_next) :
                 emissions' = Append(Outer, Calling(e, e.l_next, after))
    BY <1>8 DEF return, Saved
  <1>10. freedUse = FALSE
    BY DEF IInv, TypeOK
  <1> HIDE DEF e
  <1> QED BY <1>6, <1>7, <1>9, <1>10

-----------------------------------------------------------------------------
(* The theorems.                                                           *)

\* Nothing is registered at first.
LEMMA Initially ==
    ASSUME Init
    PROVE  IInv
  <1>1. Lists(handlers, before, hdata)
    BY DEF Init, Lists
  <1>2. IsFiniteSet(registered) /\ Cardinality(registered) = 0
    BY FS_EmptySet DEF Init
  <1>3. emissions \in Seq(Emission) /\ Depth = 0
    BY DEF Init, Depth
  <1>4. TypeOK
    <2>1. emissions \in Seq(Emission) /\ Len(emissions) <= MaxDepth
      BY <1>3, BoundAssumption DEF Depth
    <2> QED BY <1>1, <2>1 DEF Init, TypeOK, Lists
  <1> QED BY <1>1, <1>2, <1>3, <1>4 DEF Init, IInv

\* Every step keeps the lists sorted and the emissions fitting.
LEMMA Step ==
    ASSUME IInv, Events = {}, Next
    PROVE  IInv' /\ Ascends
  <1>1. CASE \E s \in Signal : register(s) \/ unregister(s)
    BY <1>1, Register, Unregister
  <1>2. CASE unregister_by_instance
    BY <1>2, UnregisterByInstance
  <1>3. CASE \E s \in Signal, l \in Link, h \in Handle, cb \in Callback, p \in Priority :
                connect(s, l, h, cb, p)
    BY <1>3, Connect
  <1>4. CASE \E s \in Signal, h \in Handle, cb \in Callback : disconnect(s, h, cb)
    BY <1>4, Disconnect
  <1>5. CASE \E h \in Handle : disconnect_by_handle(h)
    BY <1>5, DisconnectByHandle
  <1>6. CASE \E s \in Signal, until \in {"all", "answer"} : emit(s, until)
    BY <1>6, Emit
  <1>7. CASE return
    BY <1>7, Return
  <1> QED BY <1>1, <1>2, <1>3, <1>4, <1>5, <1>6, <1>7 DEF Next

\* Nothing changes.
LEMMA Stutter ==
    ASSUME IInv, UNCHANGED vars
    PROVE  IInv' /\ Ascends
  <1>1. IInv'
    BY DEF vars, IInv, TypeOK, Depth
  <1>2. \A i \in 1..Depth : emissions[i].level \in Int
    BY EmissionFacts
  <1>3. Ascends
    BY <1>2 DEF vars, Ascends
  <1> QED BY <1>1, <1>3

\* The lists are sorted and every emission fits them, at all times.
THEOREM InductiveInvariant ==
    ASSUME Events = {}
    PROVE  Spec => []IInv
  <1>1. Init => IInv
    BY Initially
  <1>2. IInv /\ [Next]_vars => IInv'
    BY Step, Stutter
  <1> QED BY <1>1, <1>2, PTL DEF Spec

\* Types, and the bound on the depth of emissions.
THEOREM TypeCorrect ==
    ASSUME Events = {}
    PROVE  Spec => []TypeOK
  <1>1. IInv => TypeOK
    BY DEF IInv
  <1> QED BY <1>1, InductiveInvariant, PTL

\* A handler that is connected all through an emission is called in it, and no
\* handler is called twice.
THEOREM EachIsCalledOnce ==
    ASSUME Events = {}
    PROVE  Spec => []CalledOnce
  <1>1. IInv => CalledOnce
    BY DEF IInv, CalledOnce, Fits, Ahead, Rest
  <1> QED BY <1>1, InductiveInvariant, PTL

\* Handlers are called in ascending order of priority.
THEOREM PriorityOrder ==
    ASSUME Events = {}
    PROVE  Spec => InPriorityOrder
  <1>1. IInv /\ [Next]_vars => [Ascends]_vars
    BY Step
  <1>2. Ascends <=> \A i \in (1..Depth) \cap (1..Depth') : emissions[i].level <= emissions'[i].level
    BY DEF Ascends
  <1> QED BY <1>1, <1>2, InductiveInvariant, PTL DEF Spec, InPriorityOrder

\* The instance, its signals and their handlers are there for each other.
THEOREM TablesStayTogether ==
    ASSUME Events = {}
    PROVE  Spec => []TablesAgree
  <1>1. IInv => TablesAgree
    <2> SUFFICES ASSUME IInv PROVE TablesAgree
      OBVIOUS
    <2>1. Lists(handlers, before, hdata)
      BY DEF IInv
    <2>2. \A p \in before : \E s \in Signal : {p[1], p[2]} \subseteq handlers[s]
      <3> TAKE p \in before
      <3>1. p = <<p[1], p[2]>> /\ p[1] \in Link /\ p[2] \in Link
        BY <2>1 DEF Lists
      <3>2. <<p[1], p[2]>> \in before
        BY <3>1
      <3> QED BY <2>1, <3>1, <3>2 DEF Lists
    <2>3. \A l \in Link : l \in Connected <=> hdata[l] # Blank
      BY <2>1 DEF Lists, Connected
    <2> QED BY <2>1, <2>2, <2>3 DEF IInv, TablesAgree, Lists
  <1> QED BY <1>1, InductiveInvariant, PTL

=============================================================================
