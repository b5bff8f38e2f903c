--------------------------- MODULE DnsQueryProofs ---------------------------
(***************************************************************************)
(* Proofs about DnsQuery, for any number of queries, children and any size *)
(* of the pool.                                                            *)
(***************************************************************************)
EXTENDS DnsQuery, SequenceTheorems, FiniteSetTheorems, TLAPS

-----------------------------------------------------------------------------
(* Sequences without repetition.                                           *)

LEMMA ElementsOfSeq ==
    ASSUME NEW S, NEW s \in Seq(S)
    PROVE  Elements(s) \subseteq S
  BY DEF Elements

LEMMA EmptyElements == Elements(<<>>) = {} /\ Distinct(<<>>)
  BY DEF Elements, Distinct

LEMMA PrependElements ==
    ASSUME NEW S, NEW s \in Seq(S), NEW x \in S
    PROVE  /\ <<x>> \o s \in Seq(S)
           /\ Elements(<<x>> \o s) = {x} \cup Elements(s)
           /\ Distinct(s) /\ x \notin Elements(s) => Distinct(<<x>> \o s)
<1> DEFINE t == <<x>> \o s
<1>1. t \in Seq(S) /\ Len(t) = Len(s) + 1
  OBVIOUS
<1>2. \A i \in 1..Len(t) : t[i] = IF i = 1 THEN x ELSE s[i - 1]
  OBVIOUS
<1>3. Elements(t) = {x} \cup Elements(s)
  <2>1. \A i \in DOMAIN t : t[i] \in {x} \cup Elements(s)
    BY <1>1, <1>2 DEF Elements
  <2>2. x \in Elements(t)
    BY <1>1, <1>2, 1 \in DOMAIN t, t[1] = x DEF Elements
  <2>3. \A i \in DOMAIN s : s[i] \in Elements(t)
    <3> SUFFICES ASSUME NEW i \in DOMAIN s PROVE s[i] \in Elements(t)
      OBVIOUS
    <3>1. i + 1 \in DOMAIN t /\ t[i + 1] = s[i]
      BY <1>1, <1>2
    <3> QED BY <3>1 DEF Elements
  <2> QED BY <2>1, <2>2, <2>3 DEF Elements
<1>4. Distinct(s) /\ x \notin Elements(s) => Distinct(t)
  BY <1>1, <1>2 DEF Distinct, Elements
<1> QED BY <1>1, <1>3, <1>4

LEMMA AppendElements ==
    ASSUME NEW S, NEW s \in Seq(S), NEW x \in S
    PROVE  /\ Append(s, x) \in Seq(S)
           /\ Elements(Append(s, x)) = Elements(s) \cup {x}
           /\ Distinct(s) /\ x \notin Elements(s) => Distinct(Append(s, x))
<1> DEFINE t == Append(s, x)
<1>1. t \in Seq(S) /\ Len(t) = Len(s) + 1 /\ DOMAIN t = 1..(Len(s) + 1)
  OBVIOUS
<1>2. \A i \in 1..Len(t) : t[i] = IF i = Len(t) THEN x ELSE s[i]
  OBVIOUS
<1>3. Elements(t) = Elements(s) \cup {x}
  <2>1. \A i \in DOMAIN t : t[i] \in {x} \cup Elements(s)
    BY <1>1, <1>2 DEF Elements
  <2>2. x \in Elements(t)
    BY <1>1, <1>2, Len(t) \in DOMAIN t, t[Len(t)] = x DEF Elements
  <2>3. \A i \in DOMAIN s : s[i] \in Elements(t)
    <3> SUFFICES ASSUME NEW i \in DOMAIN s PROVE s[i] \in Elements(t)
      OBVIOUS
    <3>1. i \in DOMAIN t /\ t[i] = s[i]
      BY <1>1, <1>2
    <3> QED BY <3>1 DEF Elements
  <2> QED BY <2>1, <2>2, <2>3 DEF Elements
<1>4. Distinct(s) /\ x \notin Elements(s) => Distinct(t)
  BY <1>1, <1>2 DEF Distinct, Elements
<1> QED BY <1>1, <1>3, <1>4

LEMMA HeadTailElements ==
    ASSUME NEW S, NEW s \in Seq(S), s # <<>>
    PROVE  /\ Head(s) \in S /\ Tail(s) \in Seq(S)
           /\ Elements(s) = {Head(s)} \cup Elements(Tail(s))
           /\ Distinct(s) => Distinct(Tail(s)) /\ Head(s) \notin Elements(Tail(s))
<1> DEFINE t == Tail(s)
<1>1. /\ Head(s) = s[1] /\ Head(s) \in S
      /\ t \in Seq(S) /\ Len(t) = Len(s) - 1 /\ Len(s) \in Nat \ {0}
      /\ \A i \in 1..Len(t) : t[i] = s[i + 1]
  OBVIOUS
<1>2. Elements(s) = {Head(s)} \cup Elements(t)
  <2>1. \A i \in DOMAIN s : s[i] \in {Head(s)} \cup Elements(t)
    <3> SUFFICES ASSUME NEW i \in DOMAIN s, i # 1 PROVE s[i] \in Elements(t)
      BY <1>1
    <3>1. i - 1 \in DOMAIN t /\ t[i - 1] = s[i]
      BY <1>1
    <3> QED BY <3>1 DEF Elements
  <2>2. Head(s) \in Elements(s)
    BY <1>1, 1 \in DOMAIN s DEF Elements
  <2>3. \A i \in DOMAIN t : t[i] \in Elements(s)
    <3> SUFFICES ASSUME NEW i \in DOMAIN t PROVE t[i] \in Elements(s)
      OBVIOUS
    <3>1. i + 1 \in DOMAIN s /\ t[i] = s[i + 1]
      BY <1>1
    <3> QED BY <3>1 DEF Elements
  <2> QED BY <2>1, <2>2, <2>3 DEF Elements
<1>3. ASSUME Distinct(s)
      PROVE  Distinct(t) /\ Head(s) \notin Elements(t)
  <2>1. Distinct(t)
    BY <1>1, <1>3 DEF Distinct
  <2>2. \A i \in DOMAIN t : t[i] # Head(s)
    <3> SUFFICES ASSUME NEW i \in DOMAIN t, t[i] = Head(s) PROVE FALSE
      OBVIOUS
    <3>1. i + 1 \in DOMAIN s /\ 1 \in DOMAIN s /\ s[i + 1] = s[1] /\ i + 1 # 1
      BY <1>1
    <3> QED BY <3>1, <1>3 DEF Distinct
  <2> QED BY <2>1, <2>2 DEF Elements
<1> QED BY <1>1, <1>2, <1>3

\* s without its k-th element: what is behind it moves up.
Removed(s, k) == SubSeq(s, 1, k - 1) \o SubSeq(s, k + 1, Len(s))

LEMMA RemovedAt ==
    ASSUME NEW S, NEW s \in Seq(S), NEW k \in 1..Len(s)
    PROVE  /\ Removed(s, k) \in Seq(S) /\ Len(Removed(s, k)) = Len(s) - 1
           /\ \A i \in 1..(Len(s) - 1) :
                 Removed(s, k)[i] = IF i < k THEN s[i] ELSE s[i + 1]
<1> DEFINE n == Len(s)
           t == Removed(s, k)
           u == SubSeq(s, 1, k - 1)
           v == SubSeq(s, k + 1, n)
<1>1. n \in Nat /\ k \in 1..n
  OBVIOUS
<1>2. /\ u \in Seq(S) /\ Len(u) = k - 1
      /\ \A i \in 1..(k - 1) : u[i] = s[i]
  BY <1>1, SubSeqProperties
<1>3. /\ v \in Seq(S) /\ Len(v) = n - k
      /\ \A i \in 1..(n - k) : v[i] = s[k + i]
  BY <1>1, SubSeqProperties
<1>4. t = u \o v
  BY DEF Removed
<1> HIDE DEF t, u, v
<1>5. /\ u \o v \in Seq(S)
      /\ Len(u \o v) = Len(u) + Len(v)
      /\ \A i \in 1..(Len(u) + Len(v)) :
             (u \o v)[i] = IF i <= Len(u) THEN u[i] ELSE v[i - Len(u)]
  BY <1>2, <1>3, ConcatProperties
<1>6. t \in Seq(S) /\ Len(t) = n - 1
  BY <1>1, <1>2, <1>3, <1>4, <1>5
<1>7. \A i \in 1..(n - 1) : i >= k => v[i - (k - 1)] = s[i + 1]
  <2> SUFFICES ASSUME NEW i \in 1..(n - 1), i >= k
               PROVE  v[i - (k - 1)] = s[i + 1]
    OBVIOUS
  <2>1. i - (k - 1) \in 1..(n - k) /\ k + (i - (k - 1)) = i + 1
    BY <1>1
  <2> QED BY <2>1, <1>3
<1>8. ASSUME NEW i \in 1..(n - 1)
      PROVE  t[i] = IF i < k THEN s[i] ELSE s[i + 1]
  <2>1. t[i] = IF i <= Len(u) THEN u[i] ELSE v[i - Len(u)]
    <3>1. i \in 1..(Len(u) + Len(v))
      BY <1>1, <1>2, <1>3
    <3> QED BY <1>4, <1>5, <3>1
  <2>2. CASE i < k
    BY <1>1, <1>2, <2>1, <2>2
  <2>3. CASE i >= k
    BY <1>1, <1>2, <1>7, <2>1, <2>3
  <2> QED BY <1>1, <2>2, <2>3
<1> QED BY <1>6, <1>8 DEF t

LEMMA RemovedHead ==
    ASSUME NEW S, NEW s \in Seq(S), s # <<>>
    PROVE  Removed(s, 1) = Tail(s)
<1>1. /\ Len(s) \in Nat \ {0}
      /\ Tail(s) \in Seq(S) /\ Len(Tail(s)) = Len(s) - 1
      /\ \A i \in 1..(Len(s) - 1) : Tail(s)[i] = s[i + 1]
  OBVIOUS
<1>2. 1 \in 1..Len(s)
  BY <1>1
<1>3. /\ Removed(s, 1) \in Seq(S) /\ Len(Removed(s, 1)) = Len(s) - 1
      /\ \A i \in 1..(Len(s) - 1) :
            Removed(s, 1)[i] = IF i < 1 THEN s[i] ELSE s[i + 1]
  BY <1>2, RemovedAt
<1>4. \A i \in 1..(Len(s) - 1) : Removed(s, 1)[i] = s[i + 1]
  BY <1>1, <1>3
<1> QED BY <1>1, <1>3, <1>4, SeqEqual

\* g_slist_remove takes out one link, if there is one.
LEMMA WithoutAt ==
    ASSUME NEW S, NEW s \in Seq(S), NEW x
    PROVE  \/ Without(s, x) = s /\ x \notin Elements(s)
           \/ \E k \in 1..Len(s) : s[k] = x /\ Without(s, x) = Removed(s, k)
<1>1. CASE ~ \E i \in 1..Len(s) : s[i] = x
  BY <1>1 DEF Without, Elements
<1>2. CASE \E i \in 1..Len(s) : s[i] = x
  <2> DEFINE k == CHOOSE i \in 1..Len(s) : s[i] = x
  <2>1. k \in 1..Len(s) /\ s[k] = x
    BY <1>2
  <2>2. Without(s, x) = Removed(s, k)
    BY <1>2 DEF Without, Removed
  <2> HIDE DEF k
  <2> QED BY <2>1, <2>2
<1> QED BY <1>1, <1>2

LEMMA WithoutElements ==
    ASSUME NEW S, NEW s \in Seq(S), NEW x
    PROVE  /\ Without(s, x) \in Seq(S)
           /\ Distinct(s) => /\ Elements(Without(s, x)) = Elements(s) \ {x}
                             /\ Distinct(Without(s, x))
<1>1. CASE Without(s, x) = s /\ x \notin Elements(s)
  BY <1>1
<1>2. ASSUME NEW k \in 1..Len(s), s[k] = x, Without(s, x) = Removed(s, k)
      PROVE  /\ Without(s, x) \in Seq(S)
             /\ Distinct(s) => /\ Elements(Without(s, x)) = Elements(s) \ {x}
                               /\ Distinct(Without(s, x))
  <2> DEFINE t == Without(s, x)
             n == Len(s)
  <2>1. k \in 1..n /\ s[k] = x /\ n \in Nat
    BY <1>2
  <2>3. /\ t \in Seq(S) /\ Len(t) = n - 1
        /\ \A i \in 1..(n - 1) : t[i] = IF i < k THEN s[i] ELSE s[i + 1]
    BY <1>2, RemovedAt
  <2> HIDE DEF t
  <2>4. ASSUME Distinct(s)
        PROVE  Elements(t) = Elements(s) \ {x}
    <3>1. \A i \in DOMAIN t : t[i] \in Elements(s) \ {x}
      <4> SUFFICES ASSUME NEW i \in DOMAIN t PROVE t[i] \in Elements(s) \ {x}
        OBVIOUS
      <4> DEFINE j == IF i < k THEN i ELSE i + 1
      <4>1. j \in DOMAIN s /\ j # k /\ t[i] = s[j]
        BY <2>1, <2>3
      <4>2. s[j] # x
        BY <4>1, <2>1, <2>4 DEF Distinct
      <4> QED BY <4>1, <4>2 DEF Elements
    <3>2. \A i \in DOMAIN s : s[i] # x => s[i] \in Elements(t)
      <4> SUFFICES ASSUME NEW i \in DOMAIN s, s[i] # x PROVE s[i] \in Elements(t)
        OBVIOUS
      <4> DEFINE j == IF i < k THEN i ELSE i - 1
      <4>1. j \in DOMAIN t /\ t[j] = s[i]
        BY <2>1, <2>3
      <4> QED BY <4>1 DEF Elements
    <3> QED BY <3>1, <3>2 DEF Elements
  <2>5. ASSUME Distinct(s)
        PROVE  Distinct(t)
    <3> SUFFICES ASSUME NEW i \in DOMAIN t, NEW j \in DOMAIN t, t[i] = t[j]
                 PROVE  i = j
      BY DEF Distinct
    <3> DEFINE at(m) == IF m < k THEN m ELSE m + 1
    <3>1. \A m \in DOMAIN t : at(m) \in DOMAIN s /\ t[m] = s[at(m)]
      BY <2>1, <2>3
    <3>2. at(i) = at(j)
      BY <3>1, <2>5 DEF Distinct
    <3> QED BY <3>2, <2>1, <2>3
  <2> QED BY <2>3, <2>4, <2>5 DEF t
<1> QED BY <1>1, <1>2, WithoutAt

-----------------------------------------------------------------------------
(* The invariant.                                                          *)

LEMMA InitInv == Init => IInv
<1> SUFFICES ASSUME Init PROVE IInv
  OBVIOUS
<1>1. TypeOK
  <2>1. <<>> \in Seq(Query) /\ <<>> \in Seq(Child)
    OBVIOUS
  <2>2. queued_requests \in Seq(Query) /\ free_dns_children \in Seq(Child)
    BY <2>1 DEF Init
  <2>3. /\ resolver \in [Query -> Child \cup {NULL}]
        /\ inpa \in [Child -> Query \cup {NULL}]
        /\ proc \in [Child -> ProcState]
        /\ request \in [Child -> Query \cup {NULL}]
        /\ answer \in [Child -> Answer \cup {NULL}]
    BY DEF Init, ProcState
  <2>4. fresh \in BOOLEAN
    BY Zenon DEF Init
  <2> QED BY <2>2, <2>3, <2>4 DEF Init, TypeOK, MainState
<1>2. MainShape /\ PipeShape
  BY DEF Init, MainShape, PipeShape
<1>3. ResolverOwnership
  BY EmptyElements, NullAssumption DEF Init, ResolverOwnership, Children, InHand
<1>4. NoQueryLostOrDangling
  BY EmptyElements DEF Init, NoQueryLostOrDangling
<1> QED BY <1>1, <1>2, <1>3, <1>4 DEF IInv

\* purple_dnsquery_destroy, wherever it is called: a resolver the query had
\* is killed and its struct freed, and nothing refers to the query any more.
LEMMA DestroyPreserves ==
    ASSUME IInv, NEW q \in allocated, destroy(q),
           main \in {"loop", "take"}, cur \in {NULL, q},
           main' \in {"loop", "next"}, cur' = NULL,
           UNCHANGED <<free_dns_children, tgt, fresh>>
    PROVE  IInv'
<1> USE DEF destroy, release, releaseLeaving
<1>0. q \in Query /\ q # NULL
  BY NullAssumption DEF IInv, TypeOK
<1>1. TypeOK'
  <2>1. queued_requests' \in Seq(Query)
    BY WithoutElements DEF IInv, TypeOK
  <2>2. /\ number_of_dns_children' \in Int
        /\ inpa' \in [Child -> Query \cup {NULL}]
        /\ proc' \in [Child -> ProcState]
        /\ request' \in [Child -> Query \cup {NULL}]
        /\ answer' \in [Child -> Answer \cup {NULL}]
    <3>1. CASE resolver[q] = NULL
      BY <3>1 DEF IInv, TypeOK, childVars
    <3>2. CASE resolver[q] # NULL
      BY <3>2 DEF IInv, TypeOK, resolver_destroy, ProcState
    <3> QED BY <3>1, <3>2
  <2>3. resolver' \in [Query -> Child \cup {NULL}]
    BY <1>0 DEF IInv, TypeOK
  <2> QED BY <2>1, <2>2, <2>3 DEF IInv, TypeOK, MainState
<1>2. MainShape'
  BY DEF IInv, MainShape
<1>3. PipeShape'
  BY <1>0 DEF IInv, TypeOK, PipeShape, resolver_destroy, childVars
<1>4. ResolverOwnership'
  <2>1. CASE resolver[q] = NULL
    <3>1. resolver' = resolver /\ inpa' = inpa /\ proc' = proc
      BY <1>0, <2>1 DEF IInv, TypeOK, childVars
    <3>2. \A x \in Child : ~InHand(x) /\ ~InHand(x)'
      BY DEF InHand
    <3> QED BY <3>1, <3>2, ElementsOfSeq DEF IInv, TypeOK, ResolverOwnership, Children
  <2>2. CASE resolver[q] # NULL
    <3> DEFINE c == resolver[q]
    <3>1. c \in Child /\ inpa[c] = q
      BY <1>0, <2>2 DEF IInv, TypeOK, ResolverOwnership
    <3>2. \A x \in Child : inpa'[x] = IF x = c THEN NULL ELSE inpa[x]
      BY <2>2, <3>1 DEF IInv, TypeOK, resolver_destroy
    <3>3. \A x \in Query : resolver'[x] = IF x = q THEN NULL ELSE resolver[x]
      BY <1>0 DEF IInv, TypeOK
    <3>4. Children' = Children \ {c}
      BY <2>2, <3>1 DEF IInv, TypeOK, resolver_destroy, Children
    <3>5. ~InHand(c) /\ c \notin Elements(free_dns_children)
      BY <3>1, <1>0 DEF IInv, ResolverOwnership
    <3>6. \A x \in Child : ~InHand(x) /\ ~InHand(x)'
      BY DEF InHand
    <3>7. \A x \in Child, y \in Query : inpa'[x] = y <=> resolver'[y] = x
      BY <3>1, <3>2, <3>3, <1>0, NullAssumption DEF IInv, TypeOK, ResolverOwnership
    <3>8. \A x \in Child : x \in Children' <=>
              x \in Elements(free_dns_children) \/ inpa'[x] # NULL
      BY <3>1, <3>2, <3>4, <3>5, <3>6 DEF IInv, ResolverOwnership
    <3>9. Elements(free_dns_children) \subseteq Child
      BY ElementsOfSeq DEF IInv, TypeOK
    <3> QED BY <3>1, <3>2, <3>5, <3>6, <3>7, <3>8, <3>9 DEF IInv, ResolverOwnership
  <2> QED BY <2>1, <2>2
<1>5. NoQueryLostOrDangling'
  <2>1. Distinct(queued_requests') /\ Elements(queued_requests') = Elements(queued_requests) \ {q}
    BY WithoutElements DEF IInv, TypeOK, NoQueryLostOrDangling
  <2>2. {x \in Query : resolver'[x] # NULL} = {x \in Query : resolver[x] # NULL} \ {q}
    BY <1>0 DEF IInv, TypeOK
  <2> QED BY <1>0, <2>1, <2>2 DEF IInv, NoQueryLostOrDangling
<1> QED BY <1>1, <1>2, <1>3, <1>4, <1>5 DEF IInv

\* purple_dnsquery_resolved, wherever it is called: a resolver the query had
\* is back on the free list, unwatched and with both pipes empty.
LEMMA ResolvedPreserves ==
    ASSUME IInv, NEW q \in allocated, resolved(q),
           main = "loop", main' \in {"loop", "next"},
           UNCHANGED <<cur, tgt, fresh, proc, request>>,
           \/ resolver[q] = NULL /\ UNCHANGED <<inpa, answer>>
           \/ /\ resolver[q] # NULL
              /\ inpa' = [inpa EXCEPT ![resolver[q]] = NULL]
              /\ answer' = [answer EXCEPT ![resolver[q]] = NULL]
              /\ request[resolver[q]] = NULL
    PROVE  IInv'
<1> USE DEF resolved, freeResolverOf, release, releaseLeaving
<1>0. q \in Query /\ q # NULL
  BY NullAssumption DEF IInv, TypeOK
<1>1. CASE resolver[q] = NULL
  <2>1. resolver' = resolver
    BY <1>0, <1>1 DEF IInv, TypeOK
  <2>2. queued_requests' \in Seq(Query)
    BY WithoutElements DEF IInv, TypeOK
  <2>3. TypeOK'
    BY <1>0, <1>1, <2>1, <2>2 DEF IInv, TypeOK, MainState
  <2>4. MainShape' /\ PipeShape'
    BY <1>1 DEF IInv, MainShape, PipeShape
  <2>5. ResolverOwnership'
    <3>1. \A x \in Child : ~InHand(x) /\ ~InHand(x)'
      BY DEF InHand
    <3> QED BY <1>1, <2>1, <3>1, ElementsOfSeq DEF IInv, TypeOK, ResolverOwnership, Children
  <2>6. NoQueryLostOrDangling'
    <3>1. Distinct(queued_requests') /\ Elements(queued_requests') = Elements(queued_requests) \ {q}
      BY WithoutElements DEF IInv, TypeOK, NoQueryLostOrDangling
    <3> QED BY <1>0, <1>1, <2>1, <3>1 DEF IInv, NoQueryLostOrDangling, MainShape
  <2> QED BY <2>3, <2>4, <2>5, <2>6 DEF IInv
<1>2. CASE resolver[q] # NULL
  <2> DEFINE c == resolver[q]
  <2>1. c \in Child /\ inpa[c] = q
    BY <1>0, <1>2 DEF IInv, TypeOK, ResolverOwnership
  <2>2. \A x \in Child : inpa'[x] = IF x = c THEN NULL ELSE inpa[x]
    BY <1>2, <2>1 DEF IInv, TypeOK
  <2>3. \A x \in Query : resolver'[x] = IF x = q THEN NULL ELSE resolver[x]
    BY <1>0 DEF IInv, TypeOK
  <2>4. c \notin Elements(free_dns_children) /\ c \in Children
    BY <2>1, <1>0 DEF IInv, ResolverOwnership
  <2>5. /\ free_dns_children' \in Seq(Child)
        /\ Elements(free_dns_children') = {c} \cup Elements(free_dns_children)
        /\ Distinct(free_dns_children')
    BY <1>2, <2>1, <2>4, PrependElements DEF IInv, TypeOK, ResolverOwnership
  <2>6. queued_requests' \in Seq(Query)
    BY WithoutElements DEF IInv, TypeOK
  <2>7. TypeOK'
    <3>1. /\ inpa' \in [Child -> Query \cup {NULL}]
          /\ answer' \in [Child -> Answer \cup {NULL}]
          /\ resolver' \in [Query -> Child \cup {NULL}]
      BY <1>0, <1>2, <2>1 DEF IInv, TypeOK
    <3> QED BY <3>1, <2>5, <2>6 DEF IInv, TypeOK, MainState
  <2>8. MainShape'
    BY DEF IInv, MainShape
  <2>9. PipeShape'
    BY <1>2, <2>1, <2>2 DEF IInv, TypeOK, PipeShape
  <2>10. ResolverOwnership'
    <3>1. \A x \in Child : ~InHand(x) /\ ~InHand(x)'
      BY DEF InHand
    <3>2. Children' = Children
      BY DEF Children
    <3>3. Elements(free_dns_children) \subseteq Child
      BY ElementsOfSeq DEF IInv, TypeOK
    <3>4. \A x \in Child, y \in Query : inpa'[x] = y <=> resolver'[y] = x
      BY <2>1, <2>2, <2>3, <1>0, NullAssumption DEF IInv, TypeOK, ResolverOwnership
    <3> QED BY <2>1, <2>2, <2>4, <2>5, <3>1, <3>2, <3>3, <3>4 DEF IInv, ResolverOwnership
  <2>11. NoQueryLostOrDangling'
    <3>1. Distinct(queued_requests') /\ Elements(queued_requests') = Elements(queued_requests) \ {q}
      BY WithoutElements DEF IInv, TypeOK, NoQueryLostOrDangling
    <3>2. {x \in Query : resolver'[x] # NULL} = {x \in Query : resolver[x] # NULL} \ {q}
      BY <2>3
    <3> QED BY <1>0, <3>1, <3>2 DEF IInv, NoQueryLostOrDangling, MainShape
  <2> QED BY <2>7, <2>8, <2>9, <2>10, <2>11 DEF IInv
<1> QED BY <1>1, <1>2

\* send_dns_request_to_child fails: the child in hand is destroyed, and the
\* query stays in hand (the loop goes on) or fails with a new child.
LEMMA SendFailsPreserves ==
    ASSUME IInv, main \in {"waitpid", "write"}, SendFails
    PROVE  IInv'
<1> USE DEF SendFails, resolver_destroy, release, releaseLeaving, queryVars
<1>0. tgt \in Child /\ cur \in Query /\ cur # NULL /\ fresh \in BOOLEAN
  BY DEF IInv, TypeOK, MainShape
<1>1. InHand(tgt) /\ tgt \notin Elements(free_dns_children) /\ inpa[tgt] = NULL
  BY <1>0 DEF IInv, ResolverOwnership, InHand
<1>2. \A x \in Child : inpa'[x] = inpa[x]
  BY <1>1 DEF IInv, TypeOK
<1>3. queued_requests' \in Seq(Query)
  BY <1>0, WithoutElements DEF IInv, TypeOK
<1>4. TypeOK'
  <2>1. /\ number_of_dns_children' \in Int
        /\ inpa' \in [Child -> Query \cup {NULL}]
        /\ proc' \in [Child -> ProcState]
        /\ request' \in [Child -> Query \cup {NULL}]
        /\ answer' \in [Child -> Answer \cup {NULL}]
    BY <1>0 DEF IInv, TypeOK, ProcState
  <2>2. /\ allocated' \subseteq Query /\ timeout' \subseteq Query /\ uiOwned' \subseteq Query
        /\ main' \in MainState /\ cur' \in Query \cup {NULL} /\ fresh' \in BOOLEAN
    BY <1>0 DEF IInv, TypeOK, MainState
  <2> QED BY <1>3, <2>1, <2>2 DEF IInv, TypeOK
<1>5. MainShape'
  BY <1>0 DEF IInv, MainShape
<1>6. PipeShape'
  BY <1>1 DEF IInv, TypeOK, PipeShape
<1>7. ResolverOwnership'
  <2>1. Children' = Children \ {tgt}
    BY <1>0 DEF IInv, TypeOK, Children
  <2>2. \A x \in Child : (InHand(x) <=> x = tgt) /\ ~InHand(x)'
    BY DEF InHand
  <2>3. Elements(free_dns_children) \subseteq Child
    BY ElementsOfSeq DEF IInv, TypeOK
  <2> QED BY <1>0, <1>1, <1>2, <2>1, <2>2, <2>3 DEF IInv, ResolverOwnership
<1>8. NoQueryLostOrDangling'
  <2>1. Distinct(queued_requests) => Elements(Without(queued_requests, cur)) =
            Elements(queued_requests) \ {cur} /\ Distinct(Without(queued_requests, cur))
    BY WithoutElements DEF IInv, TypeOK
  <2>2. CASE fresh
    BY <1>0, <2>1, <2>2 DEF IInv, NoQueryLostOrDangling
  <2>3. CASE ~fresh
    BY <1>0, <2>3 DEF IInv, NoQueryLostOrDangling
  <2> QED BY <2>2, <2>3, <1>0
<1> QED BY <1>4, <1>5, <1>6, <1>7, <1>8 DEF IInv

\* The steps of the callers and of the main loop.
LEMMA CallersPreserve ==
    ASSUME IInv, NEW q \in Query,
           a_account(q) \/ Cancel(q) \/ initiate_resolving(q) \/ UiReports(q)
    PROVE  IInv'
<1>1. CASE a_account(q)
  <2>1. TypeOK' /\ MainShape' /\ PipeShape'
    BY <1>1 DEF a_account, poolVars, childVars, mainVars, IInv, TypeOK, MainShape, PipeShape
  <2>2. ResolverOwnership'
    BY <1>1 DEF a_account, poolVars, childVars, mainVars, IInv, ResolverOwnership, Children, InHand
  <2>3. NoQueryLostOrDangling'
    BY <1>1 DEF a_account, poolVars, childVars, mainVars, IInv, NoQueryLostOrDangling
  <2> QED BY <2>1, <2>2, <2>3 DEF IInv
<1>2. CASE Cancel(q)
  BY <1>2, DestroyPreserves DEF Cancel, mainVars, IInv, MainShape
<1>3. CASE initiate_resolving(q)
  <2>1. q \in timeout => q \in allocated /\ resolver[q] = NULL
    BY DEF IInv, NoQueryLostOrDangling
  <2>2. CASE ResolveIp(q)
    BY <2>1, <2>2, ResolvedPreserves DEF ResolveIp, childVars, mainVars
  <2>3. CASE AbortForTor(q)
    BY <2>1, <2>3, DestroyPreserves DEF AbortForTor, failed, mainVars, IInv, MainShape
  <2>4. CASE HandToUi(q)
    <3>1. TypeOK' /\ MainShape' /\ PipeShape'
      BY <2>4 DEF HandToUi, poolVars, childVars, mainVars, IInv, TypeOK, MainShape, PipeShape
    <3>2. ResolverOwnership'
      BY <2>4 DEF HandToUi, poolVars, childVars, mainVars, IInv, ResolverOwnership, Children, InHand
    <3>3. NoQueryLostOrDangling'
      BY <2>4 DEF HandToUi, poolVars, childVars, mainVars, IInv, NoQueryLostOrDangling
    <3> QED BY <3>1, <3>2, <3>3 DEF IInv
  <2>5. CASE resolve_host(q)
    <3>1. /\ queued_requests' \in Seq(Query)
          /\ Elements(queued_requests') = Elements(queued_requests) \cup {q}
          /\ Distinct(queued_requests')
      <4>1. q \notin Elements(queued_requests) /\ Distinct(queued_requests)
        BY <2>5 DEF resolve_host, IInv, NoQueryLostOrDangling
      <4> QED BY <4>1, <2>5, AppendElements DEF resolve_host, IInv, TypeOK
    <3>2. TypeOK' /\ MainShape' /\ PipeShape'
      BY <2>5, <3>1
      DEF resolve_host, childVars, IInv, TypeOK, MainState, MainShape, PipeShape
    <3>3. ResolverOwnership'
      <4>1. \A c \in Child : ~InHand(c) /\ ~InHand(c)'
        BY <2>5 DEF resolve_host, InHand
      <4> QED BY <2>5, <4>1, ElementsOfSeq
              DEF resolve_host, childVars, IInv, TypeOK, ResolverOwnership, Children
    <3>4. NoQueryLostOrDangling'
      BY <2>5, <3>1 DEF resolve_host, IInv, NoQueryLostOrDangling
    <3> QED BY <3>2, <3>3, <3>4 DEF IInv
  <2> QED BY <1>3, <2>2, <2>3, <2>4, <2>5 DEF initiate_resolving
<1>4. CASE UiReports(q)
  <2>1. q \in allocated /\ resolver[q] = NULL
    BY <1>4 DEF UiReports, IInv, NoQueryLostOrDangling
  <2>2. CASE resolved(q) /\ UNCHANGED <<inpa, childVars>>
    BY <1>4, <2>1, <2>2, ResolvedPreserves DEF UiReports, childVars, mainVars
  <2>3. CASE failed(q)
    BY <1>4, <2>1, <2>3, DestroyPreserves DEF UiReports, failed, mainVars, IInv, MainShape
  <2> QED BY <1>4, <2>2, <2>3 DEF UiReports
<1> QED BY <1>1, <1>2, <1>3, <1>4

\* The steps of handle_next_queued_request.
LEMMA HandlerPreserves ==
    ASSUME IInv, handle_next_queued_request
    PROVE  IInv'
<1>0. /\ Elements(free_dns_children) \subseteq Child
      /\ Elements(queued_requests) \subseteq Query
  BY ElementsOfSeq DEF IInv, TypeOK
<1>1. CASE PopRequest
  <2> USE <1>1 DEF PopRequest, queryVars, childVars
  <2>1. CASE queued_requests = <<>>
    <3>1. TypeOK' /\ MainShape' /\ PipeShape'
      BY <2>1 DEF IInv, TypeOK, MainShape, MainState, PipeShape
    <3>2. ResolverOwnership'
      BY <2>1 DEF IInv, ResolverOwnership, Children, InHand
    <3>3. NoQueryLostOrDangling'
      BY <2>1 DEF IInv, NoQueryLostOrDangling
    <3> QED BY <3>1, <3>2, <3>3 DEF IInv
  <2>2. CASE queued_requests # <<>>
    <3>1. /\ cur' \in Query /\ cur' # NULL /\ cur = NULL
          /\ queued_requests' \in Seq(Query)
          /\ Elements(queued_requests) = {cur'} \cup Elements(queued_requests')
          /\ Distinct(queued_requests') /\ cur' \notin Elements(queued_requests')
      <4>1. cur = NULL
        BY DEF IInv, MainShape
      <4>2. queued_requests \in Seq(Query) /\ Distinct(queued_requests)
        BY DEF IInv, TypeOK, NoQueryLostOrDangling
      <4>3. cur' = Head(queued_requests) /\ queued_requests' = Tail(queued_requests)
        BY <2>2
      <4>4. cur' \in Query
        BY <2>2, <4>2, <4>3, HeadTailElements
      <4> QED BY <2>2, <4>1, <4>2, <4>3, <4>4, HeadTailElements, NullAssumption
    <3>2. TypeOK' /\ MainShape' /\ PipeShape'
      BY <2>2, <3>1 DEF IInv, TypeOK, MainShape, MainState, PipeShape
    <3>3. ResolverOwnership'
      BY <2>2, <1>0 DEF IInv, ResolverOwnership, Children, InHand
    <3>4. NoQueryLostOrDangling'
      BY <2>2, <3>1 DEF IInv, NoQueryLostOrDangling
    <3> QED BY <3>2, <3>3, <3>4 DEF IInv
  <2> QED BY <2>1, <2>2
<1>2. CASE TakeFreeChild
  <2> USE <1>2 DEF TakeFreeChild, queryVars, childVars
  <2>1. /\ tgt' \in Child
        /\ free_dns_children' \in Seq(Child)
        /\ Elements(free_dns_children) = {tgt'} \cup Elements(free_dns_children')
        /\ Distinct(free_dns_children') /\ tgt' \notin Elements(free_dns_children')
    BY HeadTailElements DEF IInv, TypeOK, ResolverOwnership
  <2>2. fresh' \in BOOLEAN
    BY Zenon
  <2>3. TypeOK' /\ MainShape' /\ PipeShape'
    BY <2>1, <2>2 DEF IInv, TypeOK, MainShape, MainState, PipeShape
  <2>4. ResolverOwnership'
    BY <2>1, <1>0 DEF IInv, ResolverOwnership, Children, InHand
  <2>5. NoQueryLostOrDangling'
    BY DEF IInv, NoQueryLostOrDangling
  <2> QED BY <2>3, <2>4, <2>5 DEF IInv
<1>3. CASE PutBack
  <2> USE <1>3 DEF PutBack, requeueAs, queryVars, childVars
  <2>1. /\ cur \in Query /\ cur # NULL
        /\ queued_requests' \in Seq(Query)
        /\ Elements(queued_requests') = {cur} \cup Elements(queued_requests)
        /\ Distinct(queued_requests')
    <3>1. cur \in Query /\ cur # NULL
      BY DEF IInv, TypeOK, MainShape
    <3>2. cur \notin Elements(queued_requests) /\ Distinct(queued_requests)
      BY <3>1 DEF IInv, NoQueryLostOrDangling
    <3> QED BY <3>1, <3>2, PrependElements DEF IInv, TypeOK
  <2>2. TypeOK' /\ MainShape' /\ PipeShape'
    BY <2>1 DEF IInv, TypeOK, MainShape, MainState, PipeShape
  <2>3. ResolverOwnership'
    BY <1>0 DEF IInv, ResolverOwnership, Children, InHand
  <2>4. NoQueryLostOrDangling'
    BY <2>1 DEF IInv, NoQueryLostOrDangling
  <2> QED BY <2>2, <2>3, <2>4 DEF IInv
<1>4. CASE PipeFailure
  <2>1. cur \in allocated /\ cur # NULL
    BY <1>4 DEF PipeFailure, IInv, MainShape, NoQueryLostOrDangling
  <2> QED BY <1>4, <2>1, DestroyPreserves DEF PipeFailure, failed
<1>5. CASE ForkFailure
  <2> USE <1>5 DEF ForkFailure, forkFails, release, releaseLeaving, childVars
  <2>1. cur \in Query /\ cur # NULL
    BY DEF IInv, TypeOK, MainShape
  <2>2. /\ queued_requests' \in Seq(Query)
        /\ Elements(queued_requests') = Elements(queued_requests) \ {cur}
        /\ Distinct(queued_requests')
    BY WithoutElements DEF IInv, TypeOK, NoQueryLostOrDangling
  <2>3. TypeOK' /\ MainShape' /\ PipeShape'
    BY <2>1, <2>2 DEF IInv, TypeOK, MainShape, MainState, PipeShape
  <2>4. ResolverOwnership'
    BY <1>0 DEF IInv, ResolverOwnership, Children, InHand
  <2>5. NoQueryLostOrDangling'
    BY <2>1, <2>2 DEF IInv, NoQueryLostOrDangling
  <2> QED BY <2>3, <2>4, <2>5 DEF IInv
<1>6. ASSUME NEW c \in Child, resolver_new(c)
      PROVE  IInv'
  <2> USE <1>6 DEF resolver_new, forkChild, queryVars
  <2>1. /\ proc' \in [Child -> ProcState]
        /\ \A x \in Child : proc'[x] = IF x = c THEN "forked" ELSE proc[x]
        /\ Children' = Children \cup {c} /\ c \notin Children
    BY DEF IInv, TypeOK, ProcState, Children
  <2>2. fresh' \in BOOLEAN
    BY Zenon
  <2>3. TypeOK' /\ MainShape' /\ PipeShape'
    BY <2>1, <2>2 DEF IInv, TypeOK, MainShape, MainState, PipeShape
  <2>4. ResolverOwnership'
    BY <2>1, <1>0 DEF IInv, ResolverOwnership, InHand
  <2>5. NoQueryLostOrDangling'
    BY DEF IInv, NoQueryLostOrDangling
  <2> QED BY <2>3, <2>4, <2>5 DEF IInv
<1>7. CASE WaitPid
  <2>1. CASE proc[tgt] = "gone"
    BY <1>7, <2>1, SendFailsPreserves DEF WaitPid
  <2>2. CASE proc[tgt] # "gone"
    <3> USE <1>7, <2>2 DEF WaitPid, queryVars, poolVars, childVars
    <3>1. TypeOK' /\ MainShape' /\ PipeShape'
      BY DEF IInv, TypeOK, MainShape, MainState, PipeShape
    <3>2. ResolverOwnership'
      BY DEF IInv, ResolverOwnership, Children, InHand
    <3>3. NoQueryLostOrDangling'
      BY DEF IInv, NoQueryLostOrDangling
    <3> QED BY <3>1, <3>2, <3>3 DEF IInv
  <2> QED BY <2>1, <2>2
<1>8. CASE Write
  <2>1. CASE proc[tgt] = "gone"
    BY <1>8, <2>1, SendFailsPreserves DEF Write
  <2>2. CASE proc[tgt] # "gone"
    <3> USE <1>8, <2>2 DEF Write, queryVars
    <3>1. tgt \in Child /\ cur \in Query /\ cur # NULL /\ tgt # NULL
      BY NullAssumption DEF IInv, TypeOK, MainShape
    <3>2. /\ InHand(tgt) /\ tgt \notin Elements(free_dns_children)
          /\ inpa[tgt] = NULL /\ tgt \in Children
      BY <3>1 DEF IInv, ResolverOwnership, InHand
    <3>3. resolver[cur] = NULL
      BY <3>1 DEF IInv, NoQueryLostOrDangling
    <3>4. answer[tgt] = NULL
      BY <3>1, <3>2, NullAssumption DEF IInv, PipeShape, TypeOK, Answer
    <3>5. TypeOK'
      <4>1. request' \in [Child -> Query \cup {NULL}]
        BY <3>1 DEF IInv, TypeOK
      <4>2. inpa' \in [Child -> Query \cup {NULL}]
        BY <3>1 DEF IInv, TypeOK
      <4>3. resolver' \in [Query -> Child \cup {NULL}]
        BY <3>1 DEF IInv, TypeOK
      <4> QED BY <4>1, <4>2, <4>3 DEF IInv, TypeOK, MainState
    <3>6. MainShape' /\ PipeShape'
      BY <3>1, <3>2, <3>4 DEF IInv, TypeOK, MainShape, PipeShape
    <3>7. ResolverOwnership'
      <4>1. \A x \in Child : (InHand(x) <=> x = tgt) /\ ~InHand(x)'
        BY DEF InHand
      <4>2. \A x \in Child : inpa'[x] = IF x = tgt THEN cur ELSE inpa[x]
        BY <3>1 DEF IInv, TypeOK
      <4>3. \A x \in Query : resolver'[x] = IF x = cur THEN tgt ELSE resolver[x]
        BY <3>1 DEF IInv, TypeOK
      <4>4. Children' = Children
        BY DEF Children
      <4> QED BY <3>1, <3>2, <3>3, <4>1, <4>2, <4>3, <4>4, <1>0, NullAssumption
              DEF IInv, TypeOK, ResolverOwnership
    <3>8. NoQueryLostOrDangling'
      <4>1. {x \in Query : resolver'[x] # NULL} = {x \in Query : resolver[x] # NULL} \cup {cur}
        BY <3>1 DEF IInv, TypeOK
      <4> QED BY <3>1, <4>1 DEF IInv, NoQueryLostOrDangling
    <3> QED BY <3>5, <3>6, <3>7, <3>8 DEF IInv
  <2> QED BY <2>1, <2>2
<1> QED BY <1>1, <1>2, <1>3, <1>4, <1>5, <1>6, <1>7, <1>8 DEF handle_next_queued_request

\* host_resolved and uninit.
LEMMA LoopPreserves ==
    ASSUME IInv, uninit \/ \E c \in Child : host_resolved(c)
    PROVE  IInv'
<1>0. Elements(free_dns_children) \subseteq Child
  BY ElementsOfSeq DEF IInv, TypeOK
<1>1. ASSUME NEW c \in Child, host_resolved(c)
      PROVE  IInv'
  <2> USE <1>1 DEF host_resolved, readAnswer
  <2> DEFINE q == inpa[c]
  <2>1. q \in Query /\ resolver[q] = c /\ c # NULL
    BY NullAssumption DEF IInv, TypeOK, ResolverOwnership
  <2>2. q \in allocated
    BY <2>1 DEF IInv, NoQueryLostOrDangling
  <2>3. CASE answer[c] # NULL /\ answer[c].kind # "error"
    <3>1. request[c] = NULL
      BY <2>3 DEF IInv, PipeShape
    <3> QED BY <2>1, <2>2, <2>3, <3>1, ResolvedPreserves
  <2>4. CASE ~(answer[c] # NULL /\ answer[c].kind # "error")
    BY <2>2, <2>4, DestroyPreserves DEF failed, IInv, MainShape
  <2> QED BY <2>3, <2>4
<1>2. CASE uninit
  <2> USE <1>2 DEF uninit, queryVars
  <2> DEFINE F == Elements(free_dns_children)
  <2>1. /\ proc' = [c \in Child |-> IF c \in F THEN "none" ELSE proc[c]]
        /\ inpa' = [c \in Child |-> IF c \in F THEN NULL ELSE inpa[c]]
        /\ request' = [c \in Child |-> IF c \in F THEN NULL ELSE request[c]]
        /\ answer' = [c \in Child |-> IF c \in F THEN NULL ELSE answer[c]]
    BY DEF Elements
  <2>2. inpa' = inpa
    BY <2>1 DEF IInv, TypeOK, ResolverOwnership
  <2>3. free_dns_children' \in Seq(Child) /\ number_of_dns_children' \in Int
    BY DEF IInv, TypeOK
  <2>4. TypeOK'
    <3>1. /\ proc' \in [Child -> ProcState]
          /\ request' \in [Child -> Query \cup {NULL}]
          /\ answer' \in [Child -> Answer \cup {NULL}]
      BY <2>1 DEF IInv, TypeOK, ProcState
    <3> QED BY <2>2, <2>3, <3>1 DEF IInv, TypeOK, MainState
  <2>5. MainShape' /\ PipeShape'
    BY <2>1, <2>2 DEF IInv, TypeOK, MainShape, PipeShape
  <2>6. ResolverOwnership'
    <3>1. \A c \in Child : ~InHand(c) /\ ~InHand(c)'
      BY DEF InHand
    <3>2. Children' = Children \ F
      BY <2>1 DEF Children
    <3> QED BY <2>2, <3>1, <3>2, <1>0, EmptyElements DEF IInv, ResolverOwnership
  <2>7. NoQueryLostOrDangling'
    BY DEF IInv, NoQueryLostOrDangling
  <2> QED BY <2>4, <2>5, <2>6, <2>7 DEF IInv
<1> QED BY <1>1, <1>2

\* The steps of a child, and steps that change nothing.
LEMMA ChildPreserves ==
    ASSUME IInv, NEW c \in Child, resolver_run(c)
    PROVE  IInv'
<1> USE DEF ChildReads, ChildAnswers, ChildReportsError, ChildTimesOut, ChildSeesEof,
            ChildCrashes, queryVars, poolVars, mainVars
<1>1. request[c] # NULL => request[c] \in Query
  BY DEF IInv, TypeOK
<1>2. proc[c] = "resolving" => request[c] # NULL
  BY DEF IInv, PipeShape
<1>3. /\ UNCHANGED <<queryVars, poolVars, mainVars>>
      /\ proc' \in [Child -> ProcState]
      /\ proc[c] # "none" /\ proc'[c] # "none"
      /\ \A x \in Child : x # c => proc'[x] = proc[x]
  BY DEF resolver_run, IInv, TypeOK, ProcState
<1>4. /\ request' \in [Child -> Query \cup {NULL}]
      /\ answer' \in [Child -> Answer \cup {NULL}]
  <2>1. request' = request \/ request' = [request EXCEPT ![c] = NULL]
    BY DEF resolver_run
  <2>2. CASE ChildReads(c) \/ ChildTimesOut(c) \/ ChildSeesEof(c)
    BY <2>1, <2>2 DEF IInv, TypeOK
  <2>3. CASE ChildAnswers(c)
    BY <2>1, <2>3, <1>1, <1>2 DEF IInv, TypeOK, Answer
  <2>4. CASE ChildReportsError(c)
    BY <2>1, <2>4, <1>1, <1>2 DEF IInv, TypeOK, Answer
  <2>5. CASE ChildCrashes(c)
    BY <2>1, <2>5, <1>1, <1>2 DEF IInv, TypeOK, Answer
  <2> QED BY <2>2, <2>3, <2>4, <2>5 DEF resolver_run
<1>5. TypeOK' /\ MainShape'
  BY <1>3, <1>4 DEF IInv, TypeOK, MainShape
<1>6. PipeShape'
  <2>1. CASE ChildReads(c) \/ ChildTimesOut(c) \/ ChildSeesEof(c)
    BY <2>1 DEF IInv, TypeOK, PipeShape
  <2>2. CASE ChildAnswers(c)
    BY <2>2, <1>2 DEF IInv, TypeOK, PipeShape
  <2>3. CASE ChildReportsError(c)
    BY <2>3, <1>2 DEF IInv, TypeOK, PipeShape
  <2>4. CASE ChildCrashes(c)
    BY <2>4, <1>2 DEF IInv, TypeOK, PipeShape
  <2> QED BY <2>1, <2>2, <2>3, <2>4 DEF resolver_run
<1>7. ResolverOwnership'
  <2>1. Children' = Children
    BY <1>3 DEF Children
  <2> QED BY <1>3, <2>1 DEF IInv, ResolverOwnership, InHand
<1>8. NoQueryLostOrDangling'
  BY <1>3 DEF IInv, NoQueryLostOrDangling
<1> QED BY <1>5, <1>6, <1>7, <1>8 DEF IInv

\* IInv is an invariant of DnsQuery: it holds at first and every step keeps it.
THEOREM InductiveInvariant == Spec => []IInv
<1>1. IInv /\ [Next]_vars => IInv'
  <2> SUFFICES ASSUME IInv, [Next]_vars PROVE IInv'
    OBVIOUS
  <2>1. CASE Next
    BY <2>1, CallersPreserve, HandlerPreserves, LoopPreserves, ChildPreserves DEF Next
  <2>2. CASE UNCHANGED vars
    <3> USE <2>2 DEF vars, queryVars, poolVars, childVars, mainVars
    <3>1. TypeOK' /\ MainShape' /\ PipeShape'
      BY DEF IInv, TypeOK, MainShape, PipeShape
    <3>2. ResolverOwnership'
      BY DEF IInv, ResolverOwnership, Children, InHand
    <3>3. NoQueryLostOrDangling'
      BY DEF IInv, NoQueryLostOrDangling
    <3> QED BY <3>1, <3>2, <3>3 DEF IInv
  <2> QED BY <2>1, <2>2
<1> QED BY <1>1, InitInv, PTL DEF Spec

\* The types of the variables are kept.
THEOREM TypeCorrect == Spec => []TypeOK
<1>1. IInv => TypeOK
  BY DEF IInv
<1> QED BY <1>1, InductiveInvariant, PTL

\* Every resolver struct has exactly one owner: none leaks, none is used by
\* two queries or after it was freed.
THEOREM ResolversOwned == Spec => []ResolverOwnership
<1>1. IInv => ResolverOwnership
  BY DEF IInv
<1> QED BY <1>1, InductiveInvariant, PTL

\* Every query has exactly one thing that will move it on, and a destroyed
\* query is referred to by nothing.
THEOREM QueriesTracked == Spec => []NoQueryLostOrDangling
<1>1. IInv => NoQueryLostOrDangling
  BY DEF IInv
<1> QED BY <1>1, InductiveInvariant, PTL

\* A query is answered with its own answer.
THEOREM AnswersMatch == Spec => []AnswerIsForItsQuery
<1>1. IInv => AnswerIsForItsQuery
  <2> SUFFICES ASSUME IInv, NEW c \in Child
               PROVE  /\ inpa[c] # NULL /\ answer[c] # NULL => answer[c].of = inpa[c]
                      /\ c \in Elements(free_dns_children) =>
                             request[c] = NULL /\ answer[c] = NULL
    BY DEF AnswerIsForItsQuery
  <2>1. answer[c] # NULL => inpa[c] # NULL
    BY NullAssumption DEF IInv, TypeOK, PipeShape, Answer
  <2> QED BY <2>1 DEF IInv, PipeShape, ResolverOwnership
<1> QED BY <1>1, InductiveInvariant, PTL

-----------------------------------------------------------------------------
(* The size of the pool.                                                   *)

PoolInv == IsFiniteSet(Children) /\ PoolLimit

LEMMA ElementsCardinality ==
    ASSUME NEW S, NEW s \in Seq(S), Distinct(s)
    PROVE  IsFiniteSet(Elements(s)) /\ Cardinality(Elements(s)) = Len(s)
<1>1. Len(s) \in Nat /\ s \in [1..Len(s) -> Elements(s)] /\ DOMAIN s = 1..Len(s)
  BY LenProperties DEF Elements
<1>2. s \in Bijection(1..Len(s), Elements(s))
  <2>1. \A i, j \in 1..Len(s) : s[i] = s[j] => i = j
    BY <1>1 DEF Distinct
  <2>2. \A t \in Elements(s) : \E i \in 1..Len(s) : s[i] = t
    BY <1>1 DEF Elements
  <2> QED BY <1>1, <2>1, <2>2 DEF Bijection, Injection, IsInjective, Surjection
<1>3. ExistsBijection(1..Len(s), Elements(s))
  BY <1>2 DEF ExistsBijection
<1>4. IsFiniteSet(1..Len(s)) /\ Cardinality(1..Len(s)) = Len(s)
  BY <1>1, FS_Interval
<1> QED BY <1>3, <1>4, FS_Bijection

\* A resolver that exists is destroyed: one child less, and one less counted.
LEMMA ResolverDestroyPool ==
    ASSUME IInv, PoolInv, NEW c \in Children, resolver_destroy(c)
    PROVE  PoolInv'
<1>1. Children' = Children \ {c}
  BY DEF Children, resolver_destroy, IInv, TypeOK
<1>2. /\ IsFiniteSet(Children')
      /\ Cardinality(Children') = Cardinality(Children) - 1
      /\ Cardinality(Children) \in Nat
  BY <1>1, FS_RemoveElement, FS_CardinalityType DEF PoolInv
<1> QED BY <1>2, LimitAssumption DEF PoolInv, PoolLimit, resolver_destroy

LEMMA DestroyPool ==
    ASSUME IInv, PoolInv, NEW q \in Query, destroy(q)
    PROVE  PoolInv'
<1>1. CASE resolver[q] = NULL
  BY <1>1 DEF destroy, childVars, PoolInv, PoolLimit, Children
<1>2. CASE resolver[q] # NULL
  <2>1. inpa[resolver[q]] = q /\ q # NULL /\ resolver[q] \in Child
    BY <1>2, NullAssumption DEF IInv, TypeOK, ResolverOwnership
  <2>2. resolver[q] \in Children
    BY <2>1 DEF IInv, ResolverOwnership
  <2> QED BY <1>2, <2>2, ResolverDestroyPool DEF destroy
<1> QED BY <1>1, <1>2

\* Every step keeps the count right and the pool within its limit, if fork()
\* does not fail.
LEMMA PoolStep ==
    ASSUME ~ForkFails, IInv, PoolInv, [Next]_vars
    PROVE  PoolInv'
<1>0. ASSUME Children' = Children, UNCHANGED number_of_dns_children
      PROVE  PoolInv'
  BY <1>0 DEF PoolInv, PoolLimit
<1>1. ASSUME NEW q \in Query,
             a_account(q) \/ Cancel(q) \/ initiate_resolving(q) \/ UiReports(q)
      PROVE  PoolInv'
  <2>1. CASE a_account(q) \/ HandToUi(q) \/ resolve_host(q) \/ ResolveIp(q)
    BY <1>0, <2>1
    DEF a_account, HandToUi, resolve_host, ResolveIp, resolved, freeResolverOf,
        poolVars, childVars, Children
  <2>2. CASE Cancel(q) \/ AbortForTor(q)
    BY <2>2, DestroyPool DEF Cancel, AbortForTor, failed
  <2>3. CASE UiReports(q)
    <3>1. CASE resolved(q) /\ UNCHANGED <<inpa, childVars>>
      BY <1>0, <3>1 DEF resolved, freeResolverOf, childVars, Children
    <3>2. CASE failed(q)
      BY <3>2, DestroyPool DEF failed
    <3> QED BY <2>3, <3>1, <3>2 DEF UiReports
  <2> QED BY <1>1, <2>1, <2>2, <2>3 DEF initiate_resolving
<1>2. CASE handle_next_queued_request
  <2>1. CASE PopRequest \/ TakeFreeChild \/ PutBack
    BY <1>0, <2>1 DEF PopRequest, TakeFreeChild, PutBack, requeueAs, childVars, Children
  <2>2. CASE PipeFailure
    <3>1. cur \in Query
      BY <2>2 DEF PipeFailure, IInv, TypeOK, MainShape
    <3> QED BY <2>2, <3>1, DestroyPool DEF PipeFailure, failed
  <2>3. CASE ForkFailure
    BY <2>3 DEF ForkFailure, forkFails
  <2>4. ASSUME NEW c \in Child, resolver_new(c)
        PROVE  PoolInv'
    <3>1. Children' = Children \cup {c} /\ c \notin Children
      BY <2>4 DEF resolver_new, forkChild, Children, IInv, TypeOK
    <3>2. /\ IsFiniteSet(Children')
          /\ Cardinality(Children') = Cardinality(Children) + 1
          /\ Cardinality(Children) \in Nat
      BY <3>1, FS_AddElement, FS_CardinalityType DEF PoolInv
    <3> QED BY <2>4, <3>2, LimitAssumption
            DEF resolver_new, forkChild, PoolInv, PoolLimit
  <2>5. ASSUME SendFails, main \in {"waitpid", "write"}
        PROVE  PoolInv'
    <3>1. tgt \in Children
      BY <2>5 DEF IInv, MainShape, ResolverOwnership, InHand
    <3> QED BY <2>5, <3>1, ResolverDestroyPool DEF SendFails
  <2>6. CASE WaitPid
    BY <1>0, <2>5, <2>6 DEF WaitPid, poolVars, childVars, Children
  <2>7. CASE Write
    BY <1>0, <2>5, <2>7 DEF Write, Children
  <2> QED BY <1>2, <2>1, <2>2, <2>3, <2>4, <2>6, <2>7 DEF handle_next_queued_request
<1>3. ASSUME NEW c \in Child, host_resolved(c)
      PROVE  PoolInv'
  <2>1. inpa[c] \in Query
    BY <1>3 DEF host_resolved, readAnswer, IInv, TypeOK
  <2>2. CASE failed(inpa[c])
    BY <2>1, <2>2, DestroyPool DEF failed
  <2>3. CASE ~failed(inpa[c])
    BY <1>0, <1>3, <2>3 DEF host_resolved, readAnswer, resolved, freeResolverOf, Children
  <2> QED BY <2>2, <2>3
<1>4. ASSUME NEW c \in Child, resolver_run(c)
      PROVE  PoolInv'
  <2>1. /\ UNCHANGED number_of_dns_children
        /\ proc[c] # "none" /\ proc'[c] # "none"
        /\ \A x \in Child : x # c => proc'[x] = proc[x]
    BY <1>4 DEF resolver_run, ChildReads, ChildAnswers, ChildReportsError, ChildTimesOut,
                ChildSeesEof, ChildCrashes, poolVars, IInv, TypeOK
  <2>2. Children' = Children
    BY <2>1 DEF Children
  <2> QED BY <1>0, <2>1, <2>2
<1>5. CASE uninit
  <2> DEFINE F == Elements(free_dns_children)
  <2>1. F \subseteq Children
    BY ElementsOfSeq DEF IInv, TypeOK, ResolverOwnership
  <2>2. Children' = Children \ F
    BY <1>5 DEF uninit, Elements, Children
  <2>3. Cardinality(F) = Len(free_dns_children)
    BY ElementsCardinality DEF IInv, TypeOK, ResolverOwnership
  <2>4. Children \cap F = F
    BY <2>1
  <2>5. /\ IsFiniteSet(Children')
        /\ Cardinality(Children') = Cardinality(Children) - Len(free_dns_children)
        /\ Cardinality(Children') \in Nat /\ Cardinality(Children) \in Nat
    <3>1. IsFiniteSet(Children)
      BY DEF PoolInv
    <3>2. /\ IsFiniteSet(Children \ F)
          /\ Cardinality(Children \ F) = Cardinality(Children) - Cardinality(F)
      BY <3>1, <2>4, FS_Difference
    <3> QED BY <2>2, <2>3, <3>1, <3>2, FS_CardinalityType
  <2>6. Len(free_dns_children) \in Nat
    BY DEF IInv, TypeOK
  <2> QED BY <1>5, <2>5, <2>6, LimitAssumption DEF uninit, PoolInv, PoolLimit
<1>6. CASE UNCHANGED vars
  BY <1>0, <1>6 DEF vars, poolVars, childVars, Children
<1> QED BY <1>1, <1>2, <1>3, <1>4, <1>5, <1>6 DEF Next

LEMMA InitPool == Init => PoolInv
<1> SUFFICES ASSUME Init PROVE PoolInv
  OBVIOUS
<1>1. Children = {}
  BY DEF Init, Children
<1> QED BY <1>1, FS_EmptySet, LimitAssumption DEF Init, PoolInv, PoolLimit

\* The pool never outgrows MAX_DNS_CHILDREN, and the counter the code tests is
\* the number of children, provided that fork() does not fail (ForkFailure then
\* lowers the counter for a child that was never counted).
THEOREM PoolBounded ==
    ASSUME ~ForkFails
    PROVE  Spec => []PoolLimit
<1>1. Init => PoolInv
  BY InitPool
<1>2. IInv /\ PoolInv /\ [Next]_vars => PoolInv'
  BY PoolStep
<1>3. PoolInv => PoolLimit
  BY DEF PoolInv
<1> QED BY <1>1, <1>2, <1>3, InductiveInvariant, PTL DEF Spec

-----------------------------------------------------------------------------
(* No idle pool.                                                           *)

\* How many more requests the pool could take now.
Slack == MAX_DNS_CHILDREN - number_of_dns_children + Len(free_dns_children)

\* What handle_next_queued_request keeps true at each of its points: at most
\* one request can be served more than there are waiting.  A child that was
\* just forked is still there when its request is written.
QueueServed ==
    /\ main = "loop" /\ queued_requests # <<>> => Slack = 0
    /\ main = "next" /\ Len(queued_requests) > 1 => Slack <= 1
    /\ main = "take" /\ queued_requests # <<>> => Slack <= 1
    /\ main \in {"waitpid", "write"} /\ queued_requests # <<>> => Slack = 0
    /\ main \in {"waitpid", "write"} /\ fresh => proc[tgt] = "forked"

\* The program without cancellations and failures, as the property assumes.
AllGoesWell == ~Cancels /\ ~PipeFails /\ ~ForkFails /\ ~Crashes

\* The slack is a number, and it is 0 only if the pool is full and busy.
LEMMA SlackBounds ==
    ASSUME IInv, PoolInv
    PROVE  /\ Slack \in Nat /\ Len(free_dns_children) \in Nat
           /\ number_of_dns_children \in Int /\ MAX_DNS_CHILDREN \in Int
           /\ Slack = 0 => /\ free_dns_children = <<>>
                           /\ number_of_dns_children = MAX_DNS_CHILDREN
<1>1. /\ free_dns_children \in Seq(Child) /\ Len(free_dns_children) \in Nat
      /\ number_of_dns_children \in Int
  BY DEF IInv, TypeOK
<1>2. number_of_dns_children <= MAX_DNS_CHILDREN /\ MAX_DNS_CHILDREN \in Int
  BY LimitAssumption DEF PoolInv, PoolLimit
<1>3. Slack \in Nat /\ (Slack = 0 => Len(free_dns_children) = 0
                        /\ number_of_dns_children = MAX_DNS_CHILDREN)
  BY <1>1, <1>2 DEF Slack
<1> QED BY <1>1, <1>2, <1>3

\* The queue does not grow when a query is released.
LEMMA ReleasedQueue ==
    ASSUME IInv, NEW q, queued_requests' = Without(queued_requests, q)
    PROVE  queued_requests' # <<>> => queued_requests # <<>>
  BY DEF Without

\* A handler that ends in the main loop and frees no child leaves the slack.
LEMMA LoopQueue ==
    ASSUME QueueServed, main = "loop", main' = "loop",
           queued_requests' # <<>> => queued_requests # <<>>,
           UNCHANGED <<number_of_dns_children, free_dns_children>>
    PROVE  QueueServed'
  BY DEF QueueServed, Slack

\* A query that its timer or the UI still has has no child.
LEMMA NotWorking ==
    ASSUME IInv, NEW q \in Query, q \in timeout \cup uiOwned
    PROVE  resolver[q] = NULL
  BY DEF IInv, NoQueryLostOrDangling

\* A query that has no child ends without one.
LEMMA EndsWithoutChild ==
    ASSUME IInv, QueueServed, main = "loop", main' = "loop",
           NEW q \in Query, resolver[q] = NULL, resolved(q) \/ failed(q)
    PROVE  QueueServed'
<1>1. queued_requests' = Without(queued_requests, q)
  BY DEF resolved, failed, destroy, release, releaseLeaving
<1>2. UNCHANGED <<number_of_dns_children, free_dns_children>>
  BY DEF resolved, failed, destroy, freeResolverOf
<1> QED BY <1>1, <1>2, ReleasedQueue, LoopQueue

\* The child of an answered query is free or gone: one request more can be
\* served.
LEMMA AnswerQueue ==
    ASSUME IInv, PoolInv, QueueServed, NEW c \in Child, host_resolved(c)
    PROVE  QueueServed'
<1> DEFINE q == inpa[c]
<1>1. q \in Query /\ resolver[q] = c /\ c # NULL /\ main = "loop" /\ main' = "next"
  BY NullAssumption DEF host_resolved, readAnswer, IInv, TypeOK, ResolverOwnership
<1>2. resolved(q) \/ failed(q)
  BY DEF host_resolved, readAnswer
<1>3. queued_requests' = Without(queued_requests, q)
  BY <1>2 DEF resolved, failed, destroy, release, releaseLeaving
<1>4. Slack' = Slack + 1
  <2>1. CASE resolved(q)
    <3>1. /\ free_dns_children' = <<c>> \o free_dns_children
          /\ UNCHANGED number_of_dns_children
      BY <1>1, <2>1 DEF resolved, freeResolverOf
    <3>2. Len(free_dns_children') = Len(free_dns_children) + 1
      BY <3>1 DEF IInv, TypeOK
    <3> QED BY <3>1, <3>2, SlackBounds DEF Slack
  <2>2. CASE failed(q)
    <3>1. /\ number_of_dns_children' = number_of_dns_children - 1
          /\ UNCHANGED free_dns_children
      BY <1>1, <2>2 DEF failed, destroy, resolver_destroy
    <3> QED BY <3>1, SlackBounds DEF Slack
  <2> QED BY <1>2, <2>1, <2>2
<1>5. CASE queued_requests = <<>>
  <2>1. queued_requests' = <<>>
    BY <1>3, <1>5 DEF Without
  <2> QED BY <1>1, <2>1 DEF QueueServed
<1>6. CASE queued_requests # <<>>
  <2>1. Slack' <= 1
    BY <1>1, <1>4, <1>6 DEF QueueServed
  <2> QED BY <1>1, <2>1 DEF QueueServed
<1> QED BY <1>5, <1>6

\* Each step of handle_next_queued_request.
LEMMA ServeQueue ==
    ASSUME AllGoesWell, IInv, PoolInv, QueueServed, handle_next_queued_request
    PROVE  QueueServed'
<1>0. queued_requests \in Seq(Query) /\ free_dns_children \in Seq(Child)
  BY DEF IInv, TypeOK
<1>1. CASE PopRequest
  <2>1. CASE queued_requests = <<>>
    BY <1>1, <2>1 DEF PopRequest, QueueServed
  <2>2. CASE queued_requests # <<>>
    <3>1. queued_requests' # <<>> => Len(queued_requests) > 1
      BY <1>0, <1>1, <2>2 DEF PopRequest
    <3>2. main = "next" /\ main' = "take" /\ Slack' = Slack
      BY <1>1, <2>2 DEF PopRequest, Slack
    <3> QED BY <3>1, <3>2 DEF QueueServed
  <2> QED BY <2>1, <2>2
<1>2. CASE TakeFreeChild
  <2>1. /\ main = "take" /\ main' = "waitpid" /\ ~fresh'
        /\ UNCHANGED queued_requests
    BY <1>2 DEF TakeFreeChild
  <2>2. Len(free_dns_children') = Len(free_dns_children) - 1
    BY <1>0, <1>2 DEF TakeFreeChild
  <2>3. Slack' = Slack - 1 /\ Slack' \in Nat
    <3>1. Len(free_dns_children) > 0
      BY <1>0, <1>2 DEF TakeFreeChild
    <3>2. UNCHANGED number_of_dns_children /\ number_of_dns_children <= MAX_DNS_CHILDREN
      BY <1>2 DEF TakeFreeChild, PoolInv, PoolLimit
    <3> QED BY <2>2, <3>1, <3>2, SlackBounds DEF Slack
  <2> QED BY <2>1, <2>3, SlackBounds DEF QueueServed
<1>3. CASE PutBack
  <2>1. main' = "loop" /\ Slack' = 0
    <3>1. /\ main' = "loop" /\ free_dns_children' = <<>>
          /\ number_of_dns_children' = number_of_dns_children
          /\ number_of_dns_children >= MAX_DNS_CHILDREN
      BY <1>3 DEF PutBack, requeueAs
    <3>2. number_of_dns_children <= MAX_DNS_CHILDREN
      BY DEF PoolInv, PoolLimit
    <3> QED BY <3>1, <3>2, SlackBounds DEF Slack
  <2> QED BY <2>1 DEF QueueServed
<1>4. CASE PipeFailure \/ ForkFailure
  BY <1>4 DEF PipeFailure, ForkFailure, forkFails, AllGoesWell
<1>5. ASSUME NEW c \in Child, resolver_new(c)
      PROVE  QueueServed'
  <2>1. /\ main = "take" /\ main' = "waitpid" /\ proc'[tgt'] = "forked"
        /\ UNCHANGED <<queued_requests, free_dns_children>>
        /\ number_of_dns_children' = number_of_dns_children + 1
        /\ number_of_dns_children < MAX_DNS_CHILDREN
    BY <1>5 DEF resolver_new, forkChild, IInv, TypeOK
  <2>2. Slack' = Slack - 1 /\ Slack' \in Nat
    <3>1. /\ UNCHANGED free_dns_children
          /\ number_of_dns_children' = number_of_dns_children + 1
          /\ number_of_dns_children < MAX_DNS_CHILDREN
      BY <2>1
    <3>2. /\ number_of_dns_children \in Int /\ MAX_DNS_CHILDREN \in Int
          /\ Len(free_dns_children) \in Nat
      BY SlackBounds
    <3> QED BY <3>1, <3>2 DEF Slack
  <2> QED BY <2>1, <2>2, SlackBounds DEF QueueServed
<1>6. ASSUME SendFails, main \in {"waitpid", "write"}, proc[tgt] = "gone"
      PROVE  QueueServed'
  <2>1. ~fresh
    BY <1>6 DEF QueueServed
  <2>2. /\ main' = "take" /\ UNCHANGED <<queued_requests, free_dns_children>>
        /\ number_of_dns_children' = number_of_dns_children - 1
    BY <1>6, <2>1 DEF SendFails, resolver_destroy
  <2>3. Slack' = Slack + 1
    BY <2>2, SlackBounds DEF Slack
  <2> QED BY <1>6, <2>2, <2>3 DEF QueueServed
<1>7. CASE WaitPid
  <2>1. CASE proc[tgt] = "gone"
    BY <1>6, <1>7, <2>1 DEF WaitPid
  <2>2. CASE proc[tgt] # "gone"
    BY <1>7, <2>2 DEF WaitPid, poolVars, childVars, QueueServed, Slack
  <2> QED BY <2>1, <2>2
<1>8. CASE Write
  <2>1. CASE proc[tgt] = "gone"
    BY <1>6, <1>8, <2>1 DEF Write
  <2>2. CASE proc[tgt] # "gone"
    BY <1>8, <2>2 DEF Write, QueueServed, Slack
  <2> QED BY <2>1, <2>2
<1> QED BY <1>1, <1>2, <1>3, <1>4, <1>5, <1>7, <1>8 DEF handle_next_queued_request

\* A child leaves the queue and the pool alone, and one that was just forked
\* waits for its request.
LEMMA ChildQueue ==
    ASSUME AllGoesWell, IInv, QueueServed, NEW c \in Child, resolver_run(c)
    PROVE  QueueServed'
<1>1. UNCHANGED <<poolVars, mainVars>>
  BY DEF resolver_run, ChildReads, ChildAnswers, ChildReportsError, ChildTimesOut,
         ChildSeesEof, ChildCrashes
<1>2. main \in {"waitpid", "write"} /\ fresh => proc'[tgt] = "forked"
  <2> SUFFICES ASSUME main \in {"waitpid", "write"}, fresh
               PROVE  proc'[tgt] = "forked"
    OBVIOUS
  <2>1. /\ tgt \in Child /\ proc[tgt] = "forked" /\ inpa[tgt] = NULL
        /\ request[tgt] = NULL
    <3>1. tgt \in Child /\ proc[tgt] = "forked"
      BY DEF QueueServed, IInv, MainShape
    <3>2. inpa[tgt] = NULL
      BY <3>1 DEF IInv, ResolverOwnership, InHand
    <3> QED BY <3>1, <3>2 DEF IInv, PipeShape
  <2>2. c # tgt
    BY <2>1 DEF resolver_run, ChildReads, ChildAnswers, ChildReportsError, ChildTimesOut,
                ChildSeesEof, ChildCrashes, AllGoesWell
  <2> QED BY <2>1, <2>2
          DEF resolver_run, ChildReads, ChildAnswers, ChildReportsError, ChildTimesOut,
              ChildSeesEof, ChildCrashes, IInv, TypeOK
<1> QED BY <1>1, <1>2 DEF QueueServed, Slack, poolVars, mainVars

\* Every step keeps the queue served.
LEMMA QueueStep ==
    ASSUME AllGoesWell, IInv, PoolInv, QueueServed, [Next]_vars
    PROVE  QueueServed'
<1>1. ASSUME NEW q \in Query,
             a_account(q) \/ Cancel(q) \/ initiate_resolving(q) \/ UiReports(q)
      PROVE  QueueServed'
  <2>1. CASE a_account(q) \/ HandToUi(q)
    <3>1. main = "loop" /\ UNCHANGED <<poolVars, childVars, mainVars>>
      BY <2>1 DEF a_account, HandToUi
    <3> QED BY <3>1 DEF QueueServed, Slack, poolVars, mainVars
  <2>2. CASE Cancel(q)
    BY <2>2 DEF Cancel, AllGoesWell
  <2>3. CASE ResolveIp(q) \/ AbortForTor(q) \/ UiReports(q)
    <3>1. /\ resolver[q] = NULL /\ main = "loop" /\ UNCHANGED mainVars
          /\ resolved(q) \/ failed(q)
      BY <2>3, NotWorking DEF ResolveIp, AbortForTor, UiReports
    <3> QED BY <3>1, EndsWithoutChild DEF mainVars
  <2>4. CASE resolve_host(q)
    <3>1. /\ main = "loop" /\ main' = "next"
          /\ queued_requests' = Append(queued_requests, q)
          /\ UNCHANGED <<free_dns_children, number_of_dns_children>>
          /\ queued_requests \in Seq(Query)
      BY <2>4 DEF resolve_host, IInv, TypeOK
    <3>2. queued_requests = <<>> => Len(queued_requests') = 1
      BY <3>1
    <3>3. queued_requests # <<>> => Slack' <= 1
      BY <3>1 DEF QueueServed, Slack
    <3> QED BY <3>1, <3>2, <3>3 DEF QueueServed
  <2> QED BY <1>1, <2>1, <2>2, <2>3, <2>4 DEF initiate_resolving
<1>2. CASE handle_next_queued_request
  BY <1>2, ServeQueue
<1>3. ASSUME NEW c \in Child, host_resolved(c) \/ resolver_run(c)
      PROVE  QueueServed'
  BY <1>3, AnswerQueue, ChildQueue
<1>4. CASE uninit
  BY <1>4 DEF uninit, QueueServed
<1>5. CASE UNCHANGED vars
  BY <1>5 DEF vars, queryVars, poolVars, childVars, mainVars, QueueServed, Slack
<1> QED BY <1>1, <1>2, <1>3, <1>4, <1>5 DEF Next

\* Between two handlers, a request waits only if every child that the pool may
\* have is busy, provided that nothing is cancelled and nothing fails (the run
\* dns_stall shows what a cancellation does).
THEOREM NoIdlePool ==
    ASSUME AllGoesWell
    PROVE  Spec => []WaitsOnlyForBusyPool
<1>1. Init => PoolInv /\ QueueServed
  <2> SUFFICES ASSUME Init PROVE PoolInv /\ QueueServed
    OBVIOUS
  <2>1. PoolInv
    BY InitPool
  <2> QED BY <2>1 DEF Init, QueueServed
<1>2. IInv /\ PoolInv /\ [Next]_vars => PoolInv'
  BY PoolStep DEF AllGoesWell
<1>3. IInv /\ PoolInv /\ QueueServed /\ [Next]_vars => QueueServed'
  BY QueueStep
<1>4. IInv /\ PoolInv /\ QueueServed => WaitsOnlyForBusyPool
  BY SlackBounds DEF QueueServed, WaitsOnlyForBusyPool, PoolInv, PoolLimit
<1> QED BY <1>1, <1>2, <1>3, <1>4, InductiveInvariant, PTL DEF Spec

-----------------------------------------------------------------------------
(* First come, first served.                                               *)

\* Two that wait in s, and still do in t, have not changed places.
SameOrder(s, t) ==
    \A i, j \in DOMAIN s : i < j =>
        \A m, n \in DOMAIN t : t[m] = s[i] /\ t[n] = s[j] => m < n

\* What one step may do to those who wait.
QueueMoves(s, t) ==
    \/ t = s
    \/ s # <<>> /\ t = Tail(s)
    \/ \E q : q \notin Elements(s) /\ t = Append(s, q)
    \/ \E k \in DOMAIN s : t = Removed(s, k)

LEMMA MovesKeepOrder ==
    ASSUME NEW S, NEW s \in Seq(S), Distinct(s), NEW t, QueueMoves(s, t)
    PROVE  SameOrder(s, t)
<1>1. CASE t = s
  BY <1>1 DEF SameOrder, Distinct
<1>2. CASE s # <<>> /\ t = Tail(s)
  <2>1. /\ Len(t) = Len(s) - 1 /\ Len(s) \in Nat \ {0}
        /\ DOMAIN s = 1..Len(s) /\ DOMAIN t = 1..Len(t)
        /\ \A m \in 1..Len(t) : t[m] = s[m + 1]
    BY <1>2
  <2> SUFFICES ASSUME NEW i \in DOMAIN s, NEW j \in DOMAIN s, i < j,
                      NEW m \in DOMAIN t, NEW n \in DOMAIN t, t[m] = s[i], t[n] = s[j]
               PROVE  m < n
    BY DEF SameOrder
  <2>2. m + 1 \in DOMAIN s /\ n + 1 \in DOMAIN s /\ s[m + 1] = s[i] /\ s[n + 1] = s[j]
    BY <2>1
  <2>3. m + 1 = i /\ n + 1 = j
    BY <2>2 DEF Distinct
  <2> QED BY <2>1, <2>3
<1>3. ASSUME NEW q, q \notin Elements(s), t = Append(s, q)
      PROVE  SameOrder(s, t)
  <2>1. /\ Len(t) = Len(s) + 1 /\ Len(s) \in Nat
        /\ DOMAIN s = 1..Len(s) /\ DOMAIN t = 1..Len(t)
        /\ \A m \in 1..Len(s) : t[m] = s[m]
        /\ t[Len(t)] = q
    BY <1>3
  <2>2. \A i \in DOMAIN s : s[i] # q
    BY <1>3 DEF Elements
  <2> SUFFICES ASSUME NEW i \in DOMAIN s, NEW j \in DOMAIN s, i < j,
                      NEW m \in DOMAIN t, NEW n \in DOMAIN t, t[m] = s[i], t[n] = s[j]
               PROVE  m < n
    BY DEF SameOrder
  <2>3. m # Len(t) /\ n # Len(t)
    BY <2>1, <2>2
  <2>4. m \in DOMAIN s /\ n \in DOMAIN s /\ s[m] = s[i] /\ s[n] = s[j]
    BY <2>1, <2>3
  <2>5. m = i /\ n = j
    BY <2>4 DEF Distinct
  <2> QED BY <2>5
<1>4. ASSUME NEW k \in DOMAIN s, t = Removed(s, k)
      PROVE  SameOrder(s, t)
  <2>1. k \in 1..Len(s) /\ Len(s) \in Nat /\ DOMAIN s = 1..Len(s)
    BY <1>4
  <2>2. /\ t \in Seq(S) /\ Len(t) = Len(s) - 1
        /\ \A i \in 1..(Len(s) - 1) : t[i] = IF i < k THEN s[i] ELSE s[i + 1]
    BY <1>4, <2>1, RemovedAt
  <2>3. DOMAIN t = 1..(Len(s) - 1)
    BY <2>2
  <2> DEFINE at(m) == IF m < k THEN m ELSE m + 1
  <2>4. \A m \in DOMAIN t : at(m) \in DOMAIN s /\ t[m] = s[at(m)]
    BY <2>1, <2>2, <2>3
  <2>5. \A m, n \in DOMAIN t : at(m) < at(n) => m < n
    BY <2>1, <2>3
  <2> HIDE DEF at
  <2> SUFFICES ASSUME NEW i \in DOMAIN s, NEW j \in DOMAIN s, i < j,
                      NEW m \in DOMAIN t, NEW n \in DOMAIN t, t[m] = s[i], t[n] = s[j]
               PROVE  m < n
    BY DEF SameOrder
  <2>6. at(m) = i /\ at(n) = j
    BY <2>4 DEF Distinct
  <2> QED BY <2>5, <2>6
<1> QED BY <1>1, <1>2, <1>3, <1>4 DEF QueueMoves

\* The queue as seen from outside: the query in hand is still the first.
LEMMA WaitingIs ==
    ASSUME NEW s \in Seq(Query)
    PROVE  /\ <<>> \o s = s
           /\ \A q \in Query : Head(<<q>> \o s) = q /\ Tail(<<q>> \o s) = s /\ <<q>> \o s # <<>>
           /\ s # <<>> => s = <<Head(s)>> \o Tail(s)
<1>1. <<>> \o s = s
  OBVIOUS
<1>2. ASSUME NEW q \in Query
      PROVE  Head(<<q>> \o s) = q /\ Tail(<<q>> \o s) = s /\ <<q>> \o s # <<>>
  OBVIOUS
<1>3. s # <<>> => s = <<Head(s)>> \o Tail(s)
  OBVIOUS
<1> QED BY <1>1, <1>2, <1>3

\* Nobody waits twice, and nobody who waits has a resolver.
LEMMA WaitingOnce ==
    ASSUME IInv
    PROVE  /\ queued_requests \in Seq(Query) /\ Waiting \in Seq(Query)
           /\ Distinct(Waiting)
           /\ \A i \in DOMAIN Waiting : resolver[Waiting[i]] = NULL
           /\ cur = NULL => Waiting = queued_requests
           /\ cur # NULL => /\ cur \in Query /\ Waiting = <<cur>> \o queued_requests
                            /\ Waiting # <<>> /\ Waiting[1] = cur
                            /\ Tail(Waiting) = queued_requests
                            /\ cur \notin Elements(queued_requests)
<1>1. queued_requests \in Seq(Query) /\ Distinct(queued_requests) /\ cur \in Query \cup {NULL}
  BY DEF IInv, TypeOK, NoQueryLostOrDangling
<1>2. \A q \in Elements(queued_requests) : q \in Query /\ resolver[q] = NULL
  BY <1>1, ElementsOfSeq DEF IInv, NoQueryLostOrDangling
<1>3. CASE cur = NULL
  <2>1. Waiting = queued_requests
    BY <1>1, <1>3, WaitingIs DEF Waiting
  <2> QED BY <1>1, <1>2, <1>3, <2>1 DEF Elements
<1>4. CASE cur # NULL
  <2>1. /\ cur \in Query /\ Waiting = <<cur>> \o queued_requests
        /\ Waiting # <<>> /\ Head(Waiting) = cur /\ Tail(Waiting) = queued_requests
    BY <1>1, <1>4, WaitingIs DEF Waiting
  <2>2. resolver[cur] = NULL /\ cur \notin Elements(queued_requests)
    BY <1>4, <2>1 DEF IInv, NoQueryLostOrDangling
  <2>3. /\ Waiting \in Seq(Query) /\ Distinct(Waiting)
        /\ Elements(Waiting) = {cur} \cup Elements(queued_requests)
    BY <1>1, <2>1, <2>2, PrependElements
  <2>4. \A i \in DOMAIN Waiting : resolver[Waiting[i]] = NULL
    BY <1>2, <2>2, <2>3 DEF Elements
  <2>5. Waiting[1] = cur
    BY <2>1, <2>3
  <2> QED BY <1>1, <1>4, <2>1, <2>2, <2>3, <2>4, <2>5
<1> QED BY <1>3, <1>4

\* What one step of the pool is, seen from outside, but for the limit.
ServiceStep ==
    \/ UNCHANGED <<Waiting, Serving>>
    \/ Service!serveFirst
    \/ \E q \in Query : Service!Arrive(q) \/ Service!Leave(q)
    \/ \E i \in DOMAIN Waiting : Service!GiveUp(i)

\* Whatever does not touch the resolvers leaves those who are served, and a
\* query whose resolver is taken away is no longer among them.
LEMMA ServingMoves ==
    ASSUME IInv
    PROVE  /\ resolver' = resolver => Serving' = Serving
           /\ \A q \in Query : resolver' = [resolver EXCEPT ![q] = NULL] =>
                 Serving' = Serving \ {q}
  BY DEF IInv, TypeOK, Serving

\* A query that is not in hand ends, wherever it is: it leaves its server or
\* its place in the line, or it was not yet there.
LEMMA QueryEnds ==
    ASSUME IInv, NEW q \in Query, cur = NULL, Waiting' = queued_requests',
           resolved(q) \/ failed(q)
    PROVE  ServiceStep
<1>1. /\ queued_requests' = Without(queued_requests, q)
      /\ resolver' = [resolver EXCEPT ![q] = NULL]
  BY DEF resolved, failed, destroy, release, releaseLeaving
<1>2. Serving' = Serving \ {q}
  BY <1>1, ServingMoves
<1>3. Waiting = queued_requests /\ queued_requests \in Seq(Query)
  BY WaitingOnce
<1>4. CASE q \in Serving
  <2>1. q \notin Elements(queued_requests)
    BY <1>4 DEF Serving, IInv, NoQueryLostOrDangling
  <2>2. Waiting' = Waiting
    BY <1>1, <1>3, <2>1, WithoutAt DEF Elements
  <2> QED BY <1>2, <1>4, <2>2 DEF ServiceStep, Service!Leave
<1>5. CASE q \notin Serving
  <2>1. Serving' = Serving
    BY <1>2, <1>5
  <2>2. \/ Waiting' = Waiting
        \/ \E k \in DOMAIN Waiting : Waiting' = Removed(Waiting, k)
    BY <1>1, <1>3, WithoutAt
  <2> QED BY <2>1, <2>2 DEF ServiceStep, Service!GiveUp, Removed
<1> QED BY <1>4, <1>5

\* A query ends, or another one joins those who wait.
LEMMA LoopServes ==
    ASSUME IInv,
           \/ \E q \in Query : a_account(q) \/ Cancel(q) \/ initiate_resolving(q) \/ UiReports(q)
           \/ \E c \in Child : host_resolved(c)
           \/ uninit
    PROVE  ServiceStep
<1>0. /\ main = "loop" /\ cur = NULL /\ cur' = NULL
      /\ Waiting = queued_requests /\ queued_requests \in Seq(Query)
  <2>1. main = "loop" /\ cur' = cur
    BY DEF a_account, Cancel, initiate_resolving, ResolveIp, AbortForTor, HandToUi,
           resolve_host, UiReports, host_resolved, readAnswer, uninit, mainVars
  <2> QED BY <2>1, WaitingOnce DEF IInv, MainShape
<1>1. IInv'
  BY CallersPreserve, LoopPreserves
<1>2. Waiting' = queued_requests'
  BY <1>0, <1>1, WaitingIs DEF Waiting, IInv, TypeOK
<1>3. ASSUME queued_requests' = queued_requests, resolver' = resolver
      PROVE  ServiceStep
  BY <1>0, <1>2, <1>3, ServingMoves DEF ServiceStep
<1>4. ASSUME NEW q \in Query,
             a_account(q) \/ Cancel(q) \/ initiate_resolving(q) \/ UiReports(q)
      PROVE  ServiceStep
  <2>1. CASE a_account(q) \/ HandToUi(q)
    BY <1>3, <2>1 DEF a_account, HandToUi, poolVars
  <2>2. CASE Cancel(q) \/ ResolveIp(q) \/ AbortForTor(q) \/ UiReports(q)
    <3>1. resolved(q) \/ failed(q)
      BY <2>2 DEF Cancel, ResolveIp, AbortForTor, UiReports, failed
    <3> QED BY <1>0, <1>2, <3>1, QueryEnds
  <2>3. CASE resolve_host(q)
    <3>1. queued_requests' = Append(queued_requests, q) /\ resolver' = resolver
      BY <2>3 DEF resolve_host
    <3>2. q \notin Elements(queued_requests) /\ q \notin Serving
      BY <2>3 DEF resolve_host, Serving, IInv, NoQueryLostOrDangling
    <3>3. Serving' = Serving
      BY <3>1, ServingMoves
    <3> QED BY <1>0, <1>2, <3>1, <3>2, <3>3 DEF ServiceStep, Service!Arrive, Elements
  <2> QED BY <1>4, <2>1, <2>2, <2>3 DEF initiate_resolving
<1>5. ASSUME NEW c \in Child, host_resolved(c)
      PROVE  ServiceStep
  <2>1. inpa[c] \in Query
    BY <1>5 DEF host_resolved, readAnswer, IInv, TypeOK
  <2>2. resolved(inpa[c]) \/ failed(inpa[c])
    BY <1>5 DEF host_resolved, readAnswer
  <2> QED BY <1>0, <1>2, <2>1, <2>2, QueryEnds
<1>6. CASE uninit
  BY <1>3, <1>6 DEF uninit
<1> QED BY <1>4, <1>5, <1>6

\* The query in hand is given a child, put back or failed.
LEMMA HandlerServes ==
    ASSUME IInv, handle_next_queued_request
    PROVE  ServiceStep
<1>0. IInv'
  BY HandlerPreserves
<1>1. /\ queued_requests' \in Seq(Query)
      /\ cur' = NULL => Waiting' = queued_requests'
      /\ cur' # NULL => Waiting' = <<cur'>> \o queued_requests'
  <2>1. queued_requests' \in Seq(Query)
    BY <1>0 DEF IInv, TypeOK
  <2> QED BY <2>1, WaitingIs DEF Waiting
<1>2. ASSUME Waiting' = Waiting, resolver' = resolver
      PROVE  ServiceStep
  BY <1>2, ServingMoves DEF ServiceStep
<1>3. ASSUME cur' = cur, queued_requests' = queued_requests
      PROVE  Waiting' = Waiting
  BY <1>3 DEF Waiting
\* The query in hand fails: the first in the line gives up.
<1>4. ASSUME cur # NULL, cur' = NULL, queued_requests' = Without(queued_requests, cur),
             resolver' = [resolver EXCEPT ![cur] = NULL] \/ resolver' = resolver
      PROVE  ServiceStep
  <2>1. /\ cur \in Query /\ Waiting \in Seq(Query) /\ Waiting # <<>>
        /\ Tail(Waiting) = queued_requests /\ cur \notin Elements(queued_requests)
        /\ 1 \in DOMAIN Waiting /\ resolver[cur] = NULL
    <3>1. /\ cur \in Query /\ Waiting \in Seq(Query) /\ Waiting # <<>> /\ Waiting[1] = cur
          /\ Tail(Waiting) = queued_requests /\ cur \notin Elements(queued_requests)
          /\ \A i \in DOMAIN Waiting : resolver[Waiting[i]] = NULL
      BY <1>4, WaitingOnce
    <3>2. 1 \in DOMAIN Waiting
      BY <3>1
    <3> QED BY <3>1, <3>2
  <2>2. Waiting' = Tail(Waiting)
    <3>1. Without(queued_requests, cur) = queued_requests
      BY <2>1 DEF Without, Elements
    <3> QED BY <1>1, <1>4, <2>1, <3>1
  <2>3. Serving' = Serving
    <3>1. Serving \ {cur} = Serving
      BY <2>1 DEF Serving
    <3>2. CASE resolver' = resolver
      BY <3>2, ServingMoves
    <3>3. CASE resolver' = [resolver EXCEPT ![cur] = NULL]
      BY <2>1, <3>1, <3>3, ServingMoves
    <3> QED BY <1>4, <3>2, <3>3
  <2>4. Tail(Waiting) = SubSeq(Waiting, 1, 1 - 1) \o SubSeq(Waiting, 1 + 1, Len(Waiting))
    BY <2>1, RemovedHead DEF Removed
  <2> QED BY <2>1, <2>2, <2>3, <2>4 DEF ServiceStep, Service!GiveUp
<1>5. CASE PopRequest
  <2>1. resolver' = resolver /\ cur = NULL
    BY <1>5 DEF PopRequest, IInv, MainShape
  <2>2. CASE queued_requests = <<>>
    BY <1>2, <1>3, <1>5, <2>1, <2>2 DEF PopRequest
  <2>3. CASE queued_requests # <<>>
    <3>1. cur' = Head(queued_requests) /\ queued_requests' = Tail(queued_requests)
      BY <1>5, <2>3 DEF PopRequest
    <3>2. Waiting = queued_requests /\ queued_requests \in Seq(Query)
      BY <2>1, WaitingOnce
    <3>3. cur' # NULL
      BY <2>3, <3>1, <3>2, HeadTailElements, NullAssumption
    <3>4. Waiting' = Waiting
      BY <1>1, <2>3, <3>1, <3>2, <3>3, WaitingIs
    <3> QED BY <1>2, <2>1, <3>4
  <2> QED BY <2>2, <2>3
<1>6. CASE TakeFreeChild \/ \E c \in Child : resolver_new(c)
  BY <1>2, <1>3, <1>6 DEF TakeFreeChild, resolver_new, forkChild
<1>7. CASE PutBack
  <2>1. /\ cur' = NULL /\ resolver' = resolver
        /\ queued_requests' = <<cur>> \o queued_requests
    BY <1>7 DEF PutBack, requeueAs
  <2>2. cur # NULL
    BY <1>7 DEF PutBack, requeueAs, IInv, MainShape
  <2>3. Waiting' = Waiting
    BY <1>1, <2>1, <2>2, WaitingOnce
  <2> QED BY <1>2, <2>1, <2>3
<1>8. CASE PipeFailure \/ ForkFailure
  <2>1. /\ cur' = NULL /\ queued_requests' = Without(queued_requests, cur)
        /\ resolver' = [resolver EXCEPT ![cur] = NULL] \/ resolver' = resolver
    BY <1>8 DEF PipeFailure, ForkFailure, forkFails, failed, destroy, release, releaseLeaving
  <2>2. cur # NULL
    BY <1>8 DEF PipeFailure, ForkFailure, forkFails, IInv, MainShape
  <2> QED BY <1>4, <2>1, <2>2
<1>9. ASSUME SendFails, main \in {"waitpid", "write"}
      PROVE  ServiceStep
  <2>1. cur # NULL /\ resolver' = resolver
    BY <1>9 DEF SendFails, IInv, MainShape
  <2>2. CASE fresh
    BY <1>4, <1>9, <2>1, <2>2 DEF SendFails, release, releaseLeaving
  <2>3. CASE ~fresh
    BY <1>2, <1>3, <1>9, <2>1, <2>3 DEF SendFails
  <2> QED BY <2>2, <2>3
<1>10. CASE WaitPid
  <2>1. CASE proc[tgt] = "gone"
    BY <1>9, <1>10, <2>1 DEF WaitPid
  <2>2. CASE proc[tgt] # "gone"
    BY <1>2, <1>3, <1>10, <2>2 DEF WaitPid, poolVars
  <2> QED BY <2>1, <2>2
<1>11. CASE Write
  <2>1. CASE proc[tgt] = "gone"
    BY <1>9, <1>11, <2>1 DEF Write
  <2>2. CASE proc[tgt] # "gone"
    <3>1. /\ cur # NULL /\ cur' = NULL /\ queued_requests' = queued_requests
          /\ resolver' = [resolver EXCEPT ![cur] = tgt] /\ tgt \in Child
      BY <1>11, <2>2 DEF Write, IInv, MainShape
    <3>2. /\ cur \in Query /\ Waiting # <<>> /\ Tail(Waiting) = queued_requests
          /\ Waiting[1] = cur
      BY <3>1, WaitingOnce
    <3>3. Serving' = Serving \cup {cur}
      BY <3>1, <3>2, NullAssumption DEF Serving, IInv, TypeOK
    <3>4. Head(Waiting) = cur
      BY <3>2
    <3>5. Waiting' = Tail(Waiting)
      BY <1>1, <3>1, <3>2
    <3> QED BY <3>2, <3>3, <3>4, <3>5 DEF ServiceStep, Service!serveFirst
  <2> QED BY <2>1, <2>2
<1> QED BY <1>5, <1>6, <1>7, <1>8, <1>10, <1>11 DEF handle_next_queued_request

LEMMA StepServes ==
    ASSUME IInv, [Next]_vars
    PROVE  ServiceStep
<1>1. ASSUME cur' = cur, queued_requests' = queued_requests, resolver' = resolver
      PROVE  ServiceStep
  BY <1>1 DEF ServiceStep, Waiting, Serving
<1>2. CASE \E c \in Child : resolver_run(c)
  BY <1>1, <1>2 DEF resolver_run, ChildReads, ChildAnswers, ChildReportsError, ChildTimesOut,
                    ChildSeesEof, ChildCrashes, poolVars, mainVars
<1>3. CASE UNCHANGED vars
  BY <1>1, <1>3 DEF vars, poolVars, mainVars
<1>4. CASE handle_next_queued_request
  BY <1>4, HandlerServes
<1>5. CASE \/ \E q \in Query :
                 a_account(q) \/ Cancel(q) \/ initiate_resolving(q) \/ UiReports(q)
           \/ \E c \in Child : host_resolved(c)
           \/ uninit
  BY <1>5, LoopServes
<1> QED BY <1>2, <1>3, <1>4, <1>5 DEF Next

\* Requests are served in the order they were queued, for any number of queries
\* and children and whatever fails: only the first in the line is ever given a
\* child, and putting it back does not let another pass.
THEOREM FirstComeFirstServed == Spec => ServedInOrder
<1>1. ASSUME IInv, [Next]_vars
      PROVE  /\ QueueMoves(Waiting, Waiting')
             /\ \A q \in Query :
                   q \in Serving' => q \in Serving \/ (Waiting # <<>> /\ q = Head(Waiting))
  <2>1. ServiceStep
    BY <1>1, StepServes
  <2>2. CASE UNCHANGED <<Waiting, Serving>>
    BY <2>2 DEF QueueMoves
  <2>3. CASE Service!serveFirst
    BY <2>3 DEF QueueMoves, Service!serveFirst
  <2>4. ASSUME NEW q \in Query, Service!Arrive(q)
        PROVE  q \notin Elements(Waiting) /\ Waiting' = Append(Waiting, q) /\ Serving' = Serving
    BY <2>4 DEF Service!Arrive, Elements
  <2>5. ASSUME NEW q \in Query, Service!Leave(q)
        PROVE  Waiting' = Waiting /\ Serving' = Serving \ {q}
    BY <2>5 DEF Service!Leave
  <2>6. ASSUME NEW i \in DOMAIN Waiting, Service!GiveUp(i)
        PROVE  Waiting' = Removed(Waiting, i) /\ Serving' = Serving
    BY <2>6 DEF Service!GiveUp, Removed
  <2> QED BY <2>1, <2>2, <2>3, <2>4, <2>5, <2>6 DEF ServiceStep, QueueMoves
<1>2. IInv /\ [Next]_vars =>
        [\A i, j \in DOMAIN Waiting : i < j =>
            /\ resolver'[Waiting[j]] # NULL => Waiting[i] \notin Elements(Waiting')
            /\ \A m, n \in DOMAIN Waiting' :
                  Waiting'[m] = Waiting[i] /\ Waiting'[n] = Waiting[j] => m < n]_vars
  <2> SUFFICES ASSUME IInv, [Next]_vars, NEW i \in DOMAIN Waiting, NEW j \in DOMAIN Waiting,
                      i < j
               PROVE  /\ resolver'[Waiting[j]] # NULL => Waiting[i] \notin Elements(Waiting')
                      /\ \A m, n \in DOMAIN Waiting' :
                            Waiting'[m] = Waiting[i] /\ Waiting'[n] = Waiting[j] => m < n
    OBVIOUS
  <2>1. /\ Waiting \in Seq(Query) /\ Distinct(Waiting) /\ resolver[Waiting[j]] = NULL
    BY WaitingOnce
  <2>2. SameOrder(Waiting, Waiting')
    BY <1>1, <2>1, MovesKeepOrder
  <2>3. Waiting[j] \in Query /\ j # 1 /\ 1 \in DOMAIN Waiting /\ Head(Waiting) = Waiting[1]
    BY <2>1
  <2>4. Waiting[j] # Head(Waiting)
    BY <2>1, <2>3 DEF Distinct
  <2>5. resolver'[Waiting[j]] = NULL
    BY <1>1, <2>1, <2>3, <2>4 DEF Serving
  <2> QED BY <2>2, <2>5 DEF SameOrder
<1> QED BY <1>2, InductiveInvariant, PTL DEF Spec, ServedInOrder

-----------------------------------------------------------------------------
(* The refinement.                                                         *)

\* Those who are served have a child each.
LEMMA ServingBound ==
    IInv /\ PoolInv =>
        /\ IsFiniteSet(Serving) /\ Cardinality(Serving) \in Nat
        /\ Cardinality(Serving) <= MAX_DNS_CHILDREN
<1> SUFFICES ASSUME IInv, PoolInv
             PROVE  /\ IsFiniteSet(Serving) /\ Cardinality(Serving) \in Nat
                    /\ Cardinality(Serving) <= MAX_DNS_CHILDREN
  OBVIOUS
<1> DEFINE f == [q \in Serving |-> resolver[q]]
<1>1. \A q \in Serving : resolver[q] \in Child /\ inpa[resolver[q]] = q /\ q # NULL
  BY NullAssumption DEF Serving, IInv, TypeOK, ResolverOwnership
<1>2. \A q \in Serving : resolver[q] \in Children
  BY <1>1 DEF IInv, ResolverOwnership
<1>3. f \in Injection(Serving, Children)
  BY <1>1, <1>2 DEF Injection, IsInjective
<1>4. IsFiniteSet(Serving) /\ Cardinality(Serving) <= Cardinality(Children)
  BY <1>3, FS_Injection DEF PoolInv
<1>5. Cardinality(Serving) \in Nat /\ Cardinality(Children) \in Nat
  BY <1>4, FS_CardinalityType DEF PoolInv
<1> QED BY <1>4, <1>5, LimitAssumption DEF PoolInv, PoolLimit

\* The pool implements the abstract service, for any queries, any children and
\* whatever is cancelled or dies, provided that fork() does not fail.
THEOREM ServiceRefinement ==
    ASSUME ~ForkFails
    PROVE  Spec => ImplementsLookupService
<1> DEFINE Bounded == /\ IsFiniteSet(Serving) /\ Cardinality(Serving) \in Nat
                      /\ Cardinality(Serving) <= MAX_DNS_CHILDREN
<1>1. Init => PoolInv
  BY InitPool
<1>2. IInv /\ PoolInv /\ [Next]_vars => PoolInv'
  BY PoolStep
<1>3. IInv /\ PoolInv => Bounded
  BY ServingBound
<1>4. Init => Service!Init
  <2> SUFFICES ASSUME Init PROVE Waiting = <<>> /\ Serving = {}
    BY DEF Service!Init
  <2> QED BY DEF Init, Waiting, Serving
<1>5. IInv /\ Bounded /\ Bounded' /\ [Next]_vars => [Service!Next]_(Service!vars)
  <2> SUFFICES ASSUME IInv, Bounded, Bounded', [Next]_vars
               PROVE  Service!Next \/ UNCHANGED <<Waiting, Serving>>
    BY DEF Service!vars
  <2>1. CASE Service!serveFirst
    <3>1. Waiting # <<>> /\ Waiting \in Seq(Query)
          /\ \A i \in DOMAIN Waiting : resolver[Waiting[i]] = NULL
      BY <2>1, WaitingOnce DEF Service!serveFirst
    <3>2. Head(Waiting) \notin Serving
      BY <3>1 DEF Serving
    <3>3. Cardinality(Serving') = Cardinality(Serving) + 1
      BY <2>1, <3>2, FS_AddElement DEF Service!serveFirst
    <3>4. Cardinality(Serving) < MAX_DNS_CHILDREN
      BY <3>3, LimitAssumption
    <3>5. Service!Cardinality(Serving) < MAX_DNS_CHILDREN
      BY <3>4 DEF Service!Cardinality, Cardinality
    <3> QED BY <2>1, <3>5 DEF Service!Next, Service!Serve
  <2> QED BY <2>1, StepServes DEF ServiceStep, Service!Next
<1> QED BY <1>1, <1>2, <1>3, <1>4, <1>5, InductiveInvariant, PTL
        DEF Spec, ImplementsLookupService, Service!Spec
=============================================================================
