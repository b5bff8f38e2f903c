-------------------------- MODULE CircBufferProofs --------------------------
(***************************************************************************)
(* CircBuffer is a FIFO for any growsize, any appends and any reads, as    *)
(* long as no append grows a drained buffer.                               *)
(***************************************************************************)
EXTENDS CircBuffer, SequenceTheorems, TLAPS

IInv == TypeOK /\ PointersAgree

\* The place of the i-th unread byte in a buffer of length n.
PositionIn(n, i) == IF outptr + i - 1 < n THEN outptr + i - 1 ELSE outptr + i - 1 - n

\* What get_max_read returns is within the unread bytes and within the buffer.
LEMMA MaxReadBounds ==
    ASSUME IInv
    PROVE  /\ MaxRead \in Nat
           /\ MaxRead <= bufused
           /\ outptr + MaxRead <= buflen
           /\ bufused > 0 => MaxRead > 0
  BY DEF IInv, TypeOK, PointersAgree, MaxRead, Drained

\* The loop of grow_circ_buffer ends with enough room.
LEMMA GrownEnough ==
    ASSUME IInv, NEW len \in Nat, NEW n \in buflen..MaxLen, GrownTo(n, len)
    PROVE  n \in Nat /\ n >= buflen /\ bufused + len <= n
  BY BoundAssumption DEF GrownTo, IInv, TypeOK

\* grow_circ_buffer moves no unread byte to a wrong place, and the fill
\* pointer ends up behind the last one.
LEMMA GrowKeepsBytes ==
    ASSUME IInv, NEW n \in Nat, n >= buflen, n # buflen => ~Drained
    PROVE  /\ \A i \in 1..bufused :
                 /\ PositionIn(n, i) \in 0..(n - 1)
                 /\ Moved(n)[PositionIn(n, i)] = Unread[i]
           /\ MovedIn(n) \in 0..n
           /\ \/ MovedIn(n) = outptr + bufused
              \/ MovedIn(n) = outptr + bufused - n
              \/ Drained /\ MovedIn(n) = n
           /\ Moved(n) \in [0..(n - 1) -> Byte \cup {Junk}]
<1> USE DEF IInv, TypeOK, PointersAgree
<1>1. Shift(n) = IF n - buflen <= inptr THEN n - buflen ELSE inptr
  BY DEF Shift, Lesser
<1>2. /\ MovedIn(n) \in 0..n
      /\ \/ MovedIn(n) = outptr + bufused
         \/ MovedIn(n) = outptr + bufused - n
         \/ Drained /\ MovedIn(n) = n
  BY <1>1 DEF MovedIn, Wrapped, Drained
<1>3. Moved(n) \in [0..(n - 1) -> Byte \cup {Junk}]
  <2>1. ASSUME NEW i \in 0..(n - 1)
        PROVE  /\ Wrapped /\ i \in buflen..(buflen + Shift(n) - 1) =>
                      i - buflen \in 0..(buflen - 1)
               /\ Wrapped /\ n # buflen /\ i < inptr - Shift(n) =>
                      i + Shift(n) \in 0..(buflen - 1)
    BY <1>1 DEF Wrapped, Drained
  <2> QED BY <2>1 DEF Moved
<1>4. ASSUME NEW i \in 1..bufused
      PROVE  /\ PositionIn(n, i) \in 0..(n - 1)
             /\ Moved(n)[PositionIn(n, i)] = Unread[i]
  <2> DEFINE p == PositionIn(n, i)
  <2>1. p \in 0..(n - 1) /\ Position(i) \in 0..(buflen - 1)
    BY DEF PositionIn, Position
  <2>2. Unread[i] = buffer[Position(i)]
    BY DEF Unread
  <2>3. Moved(n)[p] = IF Wrapped /\ p \in buflen..(buflen + Shift(n) - 1) THEN buffer[p - buflen]
                      ELSE IF Wrapped /\ n # buflen /\ p < inptr - Shift(n) THEN buffer[p + Shift(n)]
                      ELSE IF p < buflen THEN buffer[p] ELSE Junk
    BY <2>1 DEF Moved
  <2>4. /\ Wrapped /\ p \in buflen..(buflen + Shift(n) - 1) => p - buflen = Position(i)
        /\ Wrapped /\ p \notin buflen..(buflen + Shift(n) - 1) /\ n # buflen
              /\ p < inptr - Shift(n) => p + Shift(n) = Position(i)
        /\ ~(Wrapped /\ p \in buflen..(buflen + Shift(n) - 1))
              /\ ~(Wrapped /\ n # buflen /\ p < inptr - Shift(n)) =>
                  p < buflen /\ p = Position(i)
    BY <1>1, <2>1 DEF PositionIn, Position, Wrapped, Drained
  <2> QED BY <2>1, <2>2, <2>3, <2>4
<1> QED BY <1>2, <1>3, <1>4

\* purple_circ_buffer_append keeps the invariant and puts src behind what was
\* unread before.
LEMMA AppendStep ==
    ASSUME IInv, ~GrowsDrained, NEW src \in Seq(Byte), append(src)
    PROVE  IInv' /\ Unread' = Unread \o src
<1> DEFINE len == Len(src)
<1>1. len \in Nat /\ \A i \in 1..len : src[i] \in Byte
  OBVIOUS
<1>2. PICK n \in buflen..MaxLen :
         /\ GrownTo(n, len)
         /\ n # buflen => ~Drained \/ GrowsDrained
         /\ buffer' = [i \in 0..(n - 1) |->
                           IF i \in MovedIn(n)..(MovedIn(n) + Stored(n, len) - 1)
                           THEN src[i - MovedIn(n) + 1]
                           ELSE IF i < len - Stored(n, len) THEN src[Stored(n, len) + i + 1]
                           ELSE Moved(n)[i]]
         /\ inptr' = IF Stored(n, len) < len THEN len - Stored(n, len)
                     ELSE MovedIn(n) + Stored(n, len)
         /\ buflen' = n
         /\ bufused' = bufused + len
         /\ outptr' = outptr
         /\ op' = [kind |-> "append", bytes |-> src]
  BY DEF append
<1> DEFINE at == MovedIn(n)
           stored == Stored(n, len)
           M == Moved(n)
<1>3. n \in Nat /\ n >= buflen /\ bufused + len <= n
  BY <1>1, <1>2, GrownEnough
<1>4. /\ \A i \in 1..bufused :
            /\ PositionIn(n, i) \in 0..(n - 1)
            /\ M[PositionIn(n, i)] = Unread[i]
      /\ at \in 0..n
      /\ at = outptr + bufused \/ at = outptr + bufused - n \/ (Drained /\ at = n)
      /\ M \in [0..(n - 1) -> Byte \cup {Junk}]
  BY <1>2, <1>3, GrowKeepsBytes
<1>5. /\ buflen \in Nat /\ bufused \in Nat /\ outptr \in 0..buflen
      /\ buflen > 0 => outptr < buflen
      /\ Drained => outptr = 0 /\ bufused = 0
  BY DEF IInv, TypeOK, PointersAgree, Drained
<1>6. stored = IF at >= outptr THEN (IF len <= n - at THEN len ELSE n - at) ELSE len
  BY DEF Stored, Lesser
<1> HIDE DEF len, at, stored, M
<1>7. /\ stored \in 0..len
      /\ \/ inptr' = outptr + bufused + len
         \/ inptr' = outptr + bufused + len - n
         \/ bufused + len = 0 /\ outptr = 0 /\ inptr' = n
      /\ inptr' \in 0..n
  <2>1. len \in Nat
    BY <1>1 DEF len
  <2>2. inptr' = IF stored < len THEN len - stored ELSE at + stored
    BY <1>2 DEF at, stored, len
  <2>3. bufused + len <= n
    BY <1>3 DEF len
  <2>4. stored \in 0..len
    BY <2>1, <1>3, <1>4, <1>6
  <2>5. CASE at >= outptr /\ len <= n - at
    BY <2>1, <2>2, <2>3, <2>5, <1>3, <1>4, <1>5, <1>6
  <2>6. CASE at >= outptr /\ len > n - at
    BY <2>1, <2>2, <2>3, <2>6, <1>3, <1>4, <1>5, <1>6
  <2>7. CASE at < outptr
    BY <2>1, <2>2, <2>3, <2>7, <1>3, <1>4, <1>5, <1>6
  <2> QED BY <1>3, <1>4, <1>5, <2>1, <2>4, <2>5, <2>6, <2>7
<1>8. PointersAgree'
  <2>1. bufused' = bufused + len /\ buflen' = n /\ outptr' = outptr
    BY <1>2 DEF len
  <2>2. bufused + len <= n /\ len \in Nat
    BY <1>1, <1>3 DEF len
  <2>3. n > 0 => outptr < n
    BY <1>3, <1>5
  <2> QED BY <2>1, <2>2, <2>3, <1>3, <1>5, <1>7 DEF PointersAgree, Drained
<1>9. ASSUME NEW i \in 0..(n - 1)
      PROVE  buffer'[i] = IF i \in at..(at + stored - 1) THEN src[i - at + 1]
                          ELSE IF i < len - stored THEN src[stored + i + 1]
                          ELSE M[i]
  BY <1>2 DEF at, stored, len, M
<1>10. TypeOK'
  <2>1. ASSUME NEW i \in 0..(n - 1)
        PROVE  buffer'[i] \in Byte \cup {Junk}
    <3>1. i \in at..(at + stored - 1) => i - at + 1 \in 1..len
      BY <1>1, <1>3, <1>4, <1>7 DEF len
    <3>2. i < len - stored => stored + i + 1 \in 1..len
      BY <1>1, <1>7 DEF len
    <3>3. M[i] \in Byte \cup {Junk}
      BY <1>4
    <3> QED BY <3>1, <3>2, <3>3, <1>9, <1>1 DEF len
  <2>2. buffer' \in [0..(n - 1) -> Byte \cup {Junk}]
    BY <1>2, <2>1
  <2>3. op'.bytes \in Seq(Byte \cup {Junk})
    BY <1>2
  <2> QED BY <1>1, <1>2, <1>3, <1>5, <1>7, <2>2, <2>3 DEF TypeOK, len
<1>11. Unread' = Unread \o src
  <2>1. DOMAIN Unread' = 1..(bufused + len) /\ DOMAIN Unread = 1..bufused
    BY <1>2 DEF Unread, len
  <2>2. ASSUME NEW i \in 1..(bufused + len)
        PROVE  Unread'[i] = IF i <= bufused THEN Unread[i] ELSE src[i - bufused]
    <3> DEFINE p == PositionIn(n, i)
    <3>1. p \in 0..(n - 1)
      BY <1>1, <1>3, <1>5 DEF PositionIn, len
    <3>2. Unread'[i] = buffer'[p]
      BY <1>2, <2>1 DEF Unread, Position, PositionIn, len
    <3>3. CASE i <= bufused
      <4>1. p \notin at..(at + stored - 1) /\ ~(p < len - stored)
        BY <3>3, <1>1, <1>3, <1>4, <1>5, <1>6 DEF PositionIn, len
      <4> QED BY <3>1, <3>2, <3>3, <4>1, <1>4, <1>5, <1>9
    <3>4. CASE i > bufused
      <4>1. \/ p \in at..(at + stored - 1) /\ p - at + 1 = i - bufused
            \/ /\ p \notin at..(at + stored - 1)
               /\ p < len - stored /\ stored + p + 1 = i - bufused
        <5>1. p = IF outptr + i - 1 < n THEN outptr + i - 1 ELSE outptr + i - 1 - n
          BY DEF PositionIn
        <5>2. len \in Nat /\ bufused + len <= n
          BY <1>1, <1>3 DEF len
        <5> HIDE DEF p
        <5>3. CASE at >= outptr /\ len <= n - at
          <6>1. stored = len /\ n \in Nat /\ at \in Nat /\ i \in Nat /\ i > bufused
            BY <5>2, <5>3, <3>4, <1>3, <1>4, <1>5, <1>6
          <6>2. at = outptr + bufused
            BY <5>2, <5>3, <3>4, <1>3, <1>4, <1>5
          <6>3. p = outptr + i - 1
            BY <5>1, <5>2, <5>3, <6>1, <6>2, <1>5
          <6> QED BY <5>2, <6>1, <6>2, <6>3, <1>5
        <5>4. CASE at >= outptr /\ len > n - at
          <6>1. /\ stored = n - at /\ n \in Nat /\ at \in Nat /\ at <= n
                /\ i \in Nat /\ i > bufused /\ i <= bufused + len
            BY <5>2, <5>4, <3>4, <1>3, <1>4, <1>5, <1>6
          <6>2. at = outptr + bufused \/ (at = n /\ outptr = 0 /\ bufused = 0)
            BY <5>2, <5>4, <3>4, <1>3, <1>4, <1>5
          <6>3. CASE at = outptr + bufused
            BY <5>1, <5>2, <5>4, <6>1, <6>3, <1>5
          <6>4. CASE at = n /\ outptr = 0 /\ bufused = 0
            BY <5>1, <5>2, <6>1, <6>4
          <6> QED BY <6>2, <6>3, <6>4
        <5>5. CASE at < outptr
          <6>1. /\ stored = len /\ n \in Nat /\ at \in Nat
                /\ i \in Nat /\ i > bufused /\ i <= bufused + len
            BY <5>2, <5>5, <3>4, <1>3, <1>4, <1>5, <1>6
          <6>2. at = outptr + bufused - n
            BY <5>2, <5>5, <3>4, <1>3, <1>4, <1>5
          <6>3. p = outptr + i - 1 - n
            BY <5>1, <5>2, <6>1, <6>2, <1>5
          <6>4. p - at + 1 = i - bufused
            BY <6>1, <6>2, <6>3, <1>5
          <6>5. p >= at /\ p <= at + stored - 1 /\ p \in Int
            BY <5>2, <6>1, <6>2, <6>3, <1>5
          <6>6. at + stored - 1 \in Int /\ at \in Int
            BY <5>2, <6>1
          <6>7. p \in at..(at + stored - 1)
            BY <6>5, <6>6
          <6> QED BY <6>4, <6>7
        <5>6. at \in Int /\ outptr \in Int /\ n - at \in Int /\ len \in Int
          BY <1>3, <1>4, <1>5, <5>2
        <5>7. at < outptr \/ (at >= outptr /\ (len <= n - at \/ len > n - at))
          BY <5>6
        <5> QED BY <5>3, <5>4, <5>5, <5>7
      <4> QED BY <3>1, <3>2, <3>4, <4>1, <1>5, <1>9
    <3> QED BY <3>3, <3>4, <1>5
  <2>3. Unread \in Seq(Byte \cup {Junk}) /\ Len(Unread) = bufused
    <3>1. ASSUME NEW i \in 1..bufused PROVE Unread[i] \in Byte \cup {Junk}
      BY <1>4, <3>1
    <3> QED BY <3>1, <1>5, <2>1 DEF Unread
  <2>4. Unread' \in Seq(Byte \cup {Junk}) /\ Len(Unread') = bufused + len
    <3>1. ASSUME NEW i \in 1..(bufused + len) PROVE Unread'[i] \in Byte \cup {Junk}
      BY <2>2, <2>3, <1>1, <1>5 DEF len
    <3> DEFINE U == Unread'
               e == bufused + len
    <3>2. e \in Nat
      BY <1>1, <1>5
    <3>3. U = [i \in 1..e |-> U[i]]
      BY <1>2 DEF Unread, len
    <3>4. \A i \in 1..e : U[i] \in Byte \cup {Junk}
      BY <3>1
    <3> HIDE DEF U, e
    <3>5. U \in Seq(Byte \cup {Junk}) /\ Len(U) = e
      BY <3>2, <3>3, <3>4
    <3> QED BY <3>5 DEF U, e
  <2>5. src \in Seq(Byte \cup {Junk})
    OBVIOUS
  <2>6. /\ Unread \o src \in Seq(Byte \cup {Junk})
        /\ Len(Unread \o src) = bufused + len
        /\ \A i \in 1..(bufused + len) :
              (Unread \o src)[i] = IF i <= bufused THEN Unread[i] ELSE src[i - bufused]
    BY <2>3, <2>5, ConcatProperties DEF len
  <2> QED BY <2>2, <2>4, <2>6, SeqEqual
<1> QED BY <1>8, <1>10, <1>11 DEF IInv

\* What a consumer takes is the head of the unread bytes, and the rest stays.
LEMMA MarkReadStep ==
    ASSUME IInv, NEW len \in 0..buflen, mark_read(len)
    PROVE  IInv' /\ Unread = op'.bytes \o Unread'
<1> USE DEF mark_read, Takes
<1>1. /\ len \in Nat /\ len <= bufused /\ outptr + len <= buflen
      /\ buflen \in Nat /\ bufused \in Nat /\ outptr \in 0..buflen
      /\ bufused <= buflen
  BY MaxReadBounds DEF IInv, TypeOK, PointersAgree
<1>2. PointersAgree'
  BY <1>1 DEF IInv, TypeOK, PointersAgree, Drained
<1> DEFINE taken == [i \in 1..len |-> buffer[outptr + i - 1]]
<1>3. taken \in Seq(Byte \cup {Junk}) /\ Len(taken) = len
  <2>1. \A i \in 1..len : buffer[outptr + i - 1] \in Byte \cup {Junk}
    BY <1>1 DEF IInv, TypeOK
  <2> QED BY <1>1, <2>1
<1>4. TypeOK'
  BY <1>1, <1>3 DEF IInv, TypeOK
<1>5. op'.bytes = taken
  OBVIOUS
<1>6. ASSUME NEW i \in 1..bufused
      PROVE  Position(i) \in 0..(buflen - 1)
  BY <1>1 DEF Position, IInv, PointersAgree
<1>7. Unread \in Seq(Byte \cup {Junk}) /\ Len(Unread) = bufused
  <2>1. \A i \in 1..bufused : buffer[Position(i)] \in Byte \cup {Junk}
    BY <1>6 DEF IInv, TypeOK
  <2> QED BY <1>1, <2>1 DEF Unread
<1>8. ASSUME NEW i \in 1..(bufused - len)
      PROVE  Position(i)' = Position(len + i) /\ len + i \in 1..bufused
  BY <1>1 DEF Position
<1>9. /\ Unread' = [i \in 1..(bufused - len) |-> buffer[Position(len + i)]]
      /\ Unread' \in Seq(Byte \cup {Junk}) /\ Len(Unread') = bufused - len
  <2>1. Unread' = [i \in 1..(bufused - len) |-> buffer[Position(len + i)]]
    BY <1>8 DEF Unread
  <2>2. \A i \in 1..(bufused - len) : buffer[Position(len + i)] \in Byte \cup {Junk}
    BY <1>6, <1>8 DEF IInv, TypeOK
  <2>3. bufused - len \in Nat
    BY <1>1
  <2> QED BY <2>1, <2>2, <2>3
<1>10. /\ taken \o Unread' \in Seq(Byte \cup {Junk})
       /\ Len(taken \o Unread') = bufused
       /\ \A i \in 1..bufused :
             (taken \o Unread')[i] = IF i <= len THEN taken[i] ELSE Unread'[i - len]
  BY <1>1, <1>3, <1>9, ConcatProperties
<1>11. ASSUME NEW i \in 1..bufused
       PROVE  Unread[i] = (taken \o Unread')[i]
  <2>1. CASE i <= len
    <3>1. Position(i) = outptr + i - 1
      BY <2>1, <1>1 DEF Position
    <3>2. i \in 1..len /\ taken[i] = buffer[outptr + i - 1]
      BY <2>1, <1>1
    <3>3. Unread[i] = buffer[outptr + i - 1]
      BY <3>1 DEF Unread
    <3>4. (taken \o Unread')[i] = taken[i]
      BY <2>1, <1>10
    <3> QED BY <3>2, <3>3, <3>4
  <2>2. CASE i > len
    <3>1. i - len \in 1..(bufused - len) /\ len + (i - len) = i
      BY <2>2, <1>1
    <3>2. Unread'[i - len] = buffer[Position(i)]
      BY <3>1, <1>9
    <3> QED BY <2>2, <3>2, <1>1, <1>10 DEF Unread
  <2>3. i <= len \/ i > len
    BY <1>1
  <2> QED BY <2>1, <2>2, <2>3
<1>12. Unread = taken \o Unread'
  BY <1>7, <1>10, <1>11, SeqEqual
<1> QED BY <1>2, <1>4, <1>5, <1>12 DEF IInv

-----------------------------------------------------------------------------

\* A buffer with nothing in use has nothing unread.
LEMMA EmptyBuffer ==
    ASSUME bufused = 0
    PROVE  Unread = <<>>
<1>1. Unread \in Seq({}) /\ Len(Unread) = 0
  BY DEF Unread
<1> QED BY <1>1, EmptySeq

\* A new buffer satisfies the invariant.
LEMMA InitInv == Init => IInv
  BY DEF Init, IInv, TypeOK, PointersAgree, Drained

\* The invariant holds as long as no append grows a drained buffer (else the
\* run circ_drained shows that it does not).
THEOREM InductiveInvariant ==
    ASSUME ~GrowsDrained
    PROVE  Spec => []IInv
<1>1. IInv /\ [Next]_vars => IInv'
  <2> SUFFICES ASSUME IInv, [Next]_vars PROVE IInv'
    OBVIOUS
  <2>1. ASSUME NEW n \in 0..MaxAppend, NEW src \in [1..n -> Byte], append(src)
        PROVE  IInv'
    <3>1. src \in Seq(Byte)
      BY BoundAssumption
    <3> QED BY <2>1, <3>1, AppendStep
  <2>2. ASSUME NEW n \in 0..buflen, mark_read(n)
        PROVE  IInv'
    BY <2>2, MarkReadStep
  <2>3. CASE renew
    BY <2>3 DEF renew, IInv, TypeOK, PointersAgree, Drained
  <2>4. CASE UNCHANGED vars
    BY <2>4 DEF vars, IInv, TypeOK, PointersAgree, Drained
  <2> QED BY <2>1, <2>2, <2>3, <2>4 DEF Next
<1> QED BY <1>1, InitInv, PTL DEF Spec

\* The types, and the pointers of circbuffer.c agree with bufused in every
\* state.
THEOREM PointersConsistent ==
    ASSUME ~GrowsDrained
    PROVE  Spec => [](TypeOK /\ PointersAgree)
BY InductiveInvariant, PTL DEF IInv

\* The pointers stay within the memory, and the counter within its length.
THEOREM TypeCorrect ==
    ASSUME ~GrowsDrained
    PROVE  Spec => []TypeOK
BY PointersConsistent, PTL

\* get_max_read returns the number of bytes that can be read.
THEOREM MaxReadIsSound ==
    ASSUME ~GrowsDrained
    PROVE  Spec => []MaxReadSound
<1>1. IInv => MaxReadSound
  BY MaxReadBounds DEF MaxReadSound
<1> QED BY <1>1, InductiveInvariant, PTL

\* The circular buffer is a FIFO: every run of it is a run of ByteFifo.
THEOREM FifoRefinement ==
    ASSUME ~GrowsDrained
    PROVE  Spec => ImplementsFifo
<1>1. Init => Abstract!Init
  BY EmptyBuffer DEF Init, Abstract!Init, Abstract!Made
<1>2. IInv /\ [Next]_vars => [Abstract!Next]_(Abstract!vars)
  <2> SUFFICES ASSUME IInv, [Next]_vars
               PROVE  Abstract!Next \/ UNCHANGED <<Unread, op>>
    BY DEF Abstract!vars
  <2>1. ASSUME NEW n \in 0..MaxAppend, NEW src \in [1..n -> Byte], append(src)
        PROVE  Abstract!append
    <3>1. src \in Seq(Byte)
      BY BoundAssumption
    <3>2. op' = [kind |-> "append", bytes |-> src]
      BY <2>1 DEF append
    <3> QED BY <2>1, <3>1, <3>2, AppendStep DEF Abstract!append
  <2>2. ASSUME NEW n \in 0..buflen, mark_read(n)
        PROVE  Abstract!mark_read
    <3>1. op'.kind = "read"
      BY <2>2 DEF mark_read, Takes
    <3> QED BY <2>2, <3>1, MarkReadStep DEF Abstract!mark_read
  <2>3. CASE renew
    <3>1. bufused' = 0 /\ op' = [kind |-> "new", bytes |-> <<>>]
      BY <2>3 DEF renew
    <3>2. Unread' \in Seq({}) /\ Len(Unread') = 0
      BY <3>1 DEF Unread
    <3>3. Unread' = <<>>
      BY <3>2, EmptySeq
    <3> QED BY <3>1, <3>3 DEF Abstract!Next, Abstract!renew, Abstract!Made
  <2>4. CASE UNCHANGED vars
    BY <2>4 DEF vars, Unread, Position
  <2> QED BY <2>1, <2>2, <2>3, <2>4 DEF Next, Abstract!Next
<1> QED BY <1>1, <1>2, InductiveInvariant, PTL DEF Spec, ImplementsFifo, Abstract!Spec
=============================================================================
