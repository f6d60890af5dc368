------------------------ MODULE ClientSessionProofs ------------------------
(***************************************************************************)
(* Proofs about the sessions of a client with the crypt, AES, SHA and      *)
(* socket TAs, for any addresses, handles, sizes and lists of attributes.  *)
(***************************************************************************)
EXTENDS ClientSession, FiniteSetTheorems, WellFoundedInduction, TLAPS

-----------------------------------------------------------------------------
(***************************************************************************)
(* The inductive invariant.  The variables of the TAs the client has no    *)
(* session with are as in a new instance; those of the one it has a        *)
(* session with satisfy the part of that TA.                               *)
(***************************************************************************)

\* What a client that knows everything knows of the live operations or objects.
Known(live) == [v \in {HANDLE2VAL(h) : h \in DOMAIN live} |-> live[VAL2HANDLE(v)]]

Operations == [class : Classes, state : OpStates]

CryptInv ==
    /\ DOMAIN ops \subseteq OpAddrs /\ DOMAIN objs \subseteq ObjAddrs
    /\ ops \in [DOMAIN ops -> Operations]
    /\ knownOps = Known(ops) /\ knownObjs = Known(objs)

AesFresh ==
    /\ crypto_op = TEE_HANDLE_NULL /\ algo = "ECB"
    /\ heldBack = FALSE /\ prepared = FALSE /\ failed = FALSE /\ abused = FALSE

\* While the instance is alive its handle is as good as the last prepare, and key objects
\* are left only by one that failed; a dead one was abused or had failed.
AesInv ==
    /\ crypto_op \in OpAddrs \cup {TEE_HANDLE_NULL}
    /\ prepared \in BOOLEAN /\ failed \in BOOLEAN /\ abused \in BOOLEAN
    /\ alive =>
        /\ prepared => InState(crypto_op, ClassOf(algo), {"active"})
        /\ Stale(crypto_op) \/ objs # << >> => failed
        /\ DOMAIN ops \subseteq {crypto_op}
    /\ ~alive => failed \/ abused

ShaFresh ==
    /\ digest_op = TEE_HANDLE_NULL
    /\ digestPrepared = FALSE /\ digestFailed = FALSE /\ digestAbused = FALSE

ShaInv ==
    /\ digest_op \in OpAddrs \cup {TEE_HANDLE_NULL}
    /\ digestPrepared \in BOOLEAN /\ digestFailed \in BOOLEAN /\ digestAbused \in BOOLEAN
    /\ alive =>
        /\ digestPrepared => InState(digest_op, "digest", {"ready", "active"})
        /\ FreedDigest => digestFailed
        /\ DOMAIN ops \subseteq {digest_op}
    /\ ~alive => digestFailed \/ digestAbused

SocketFresh ==
    /\ sockets = << >> /\ closedUsed = FALSE /\ failedUsed = FALSE
    /\ handles = [v \in SockHandles |-> Unused] /\ inUse = [v \in SockHandles |-> "none"]

Protocols == {"tcp", "udp"}
SockRecords == [h : [ctx : SockIds \cup {0}, socket : Protocols \cup {"none"}], blen : Nat]

\* A handle in use has the size that the TA expects and an open socket of its own, and
\* every open socket has such a handle, until a closed handle was passed.  A handle in
\* which nothing was stored has the size of the client's buffer, or none.
Connected ==
    /\ \A v \in SockHandles : inUse[v] # "none" =>
        /\ handles[v].h.ctx \in DOMAIN sockets
        /\ sockets[handles[v].h.ctx] = inUse[v]
    /\ \A v, w \in SockHandles : inUse[v] # "none" /\ inUse[w] # "none" /\ v # w =>
           handles[v].h.ctx # handles[w].h.ctx
    /\ \A c \in DOMAIN sockets : \E v \in SockHandles : inUse[v] # "none" /\ handles[v].h.ctx = c

SocketInv ==
    /\ sock_size \in SockSizes /\ DOMAIN sockets \subseteq SockIds
    /\ handles \in [SockHandles -> SockRecords]
    /\ inUse \in [SockHandles -> Protocols \cup {"none"}]
    /\ closedUsed \in BOOLEAN /\ failedUsed \in BOOLEAN
    /\ \A v \in SockHandles :
        /\ inUse[v] # "none" => handles[v].h # NoSocket /\ handles[v].blen = sock_size
        /\ handles[v].h = NoSocket => handles[v].blen \in {0, BufSize}
        /\ handles[v].h # NoSocket => handles[v].h.ctx # 0
    /\ alive /\ ~closedUsed => Connected
    /\ ~alive => closedUsed \/ (failedUsed /\ sock_size = BufSize)

SInv ==
    /\ session \in TAs \cup {"none"} /\ alive \in BOOLEAN /\ strayed = {}
    /\ session = "none" => alive /\ ops = << >> /\ objs = << >>
    /\ IF session = "crypt" THEN CryptInv ELSE knownOps = << >> /\ knownObjs = << >>
    /\ IF session = "aes_perf" THEN AesInv ELSE AesFresh
    /\ IF session = "sha_perf" THEN ShaInv ELSE ShaFresh
    /\ IF session = "socket" THEN SocketInv ELSE SocketFresh

-----------------------------------------------------------------------------
(***************************************************************************)
(* The buffer of attributes.  pack_attrs places the bytes by a running sum *)
(* (Ends), a recursive function; what is said of all its values is proved  *)
(* by looking at the least one for which it fails.                         *)
(***************************************************************************)

\* A set of natural numbers has a least element.
LEMMA LeastExists ==
    ASSUME NEW S \in SUBSET Nat, S # {}
    PROVE  \E x \in S : \A y \in S : x <= y
<1>1. PICK x \in S : \A y \in S : ~ (<<y, x>> \in OpToRel(<, Nat))
  BY WFMin, NatLessThanWellFounded
<1>2. ASSUME NEW y \in S, y < x PROVE FALSE
  <2>1. <<y, x>> \in Nat \X Nat /\ <<y, x>>[1] < <<y, x>>[2]
    BY <1>2
  <2>2. <<y, x>> \in OpToRel(<, Nat)
    BY <2>1, Zenon DEF OpToRel
  <2>3. QED
    BY <1>1, <2>2
<1>3. \A y \in S : x <= y
  BY <1>2
<1>4. QED
  BY <1>3

\* What the members of a list of attributes are.
LEMMA AttrFacts ==
    ASSUME NEW attrs, IsAttrList(attrs)
    PROVE  /\ Len(attrs) \in Nat /\ DOMAIN attrs = 1..Len(attrs)
           /\ attrs = [n \in 1..Len(attrs) |-> attrs[n]]
           /\ \A n \in 1..Len(attrs) :
                 /\ attrs[n].value \in BOOLEAN /\ IsAttr(attrs[n])
                 /\ HasBuffer(attrs[n]) => /\ attrs[n].bytes \in Seq(Nat)
                                           /\ attrs[n] = RefAttr(attrs[n].id, attrs[n].bytes)
                                           /\ attrs[n].length = Len(attrs[n].bytes)
                 /\ ~attrs[n].value /\ ~attrs[n].buffer =>
                        attrs[n].length \in Nat /\ attrs[n] = NullAttr(attrs[n].id, attrs[n].length)
                 /\ attrs[n].value => attrs[n] = ValueAttr(attrs[n].id, attrs[n].a, attrs[n].b)
                 /\ Room(attrs[n]) \in Nat
                 /\ HasBuffer(attrs[n]) => Room(attrs[n]) >= attrs[n].length
<1>1. /\ Len(attrs) \in Nat /\ DOMAIN attrs = 1..Len(attrs)
      /\ attrs = [n \in 1..Len(attrs) |-> attrs[n]]
  BY DEF IsAttrList
<1>2. ASSUME NEW n \in 1..Len(attrs)
      PROVE  /\ attrs[n].value \in BOOLEAN /\ IsAttr(attrs[n])
             /\ HasBuffer(attrs[n]) => /\ attrs[n].bytes \in Seq(Nat)
                                       /\ attrs[n] = RefAttr(attrs[n].id, attrs[n].bytes)
                                       /\ attrs[n].length = Len(attrs[n].bytes)
             /\ ~attrs[n].value /\ ~attrs[n].buffer =>
                    attrs[n].length \in Nat /\ attrs[n] = NullAttr(attrs[n].id, attrs[n].length)
             /\ attrs[n].value => attrs[n] = ValueAttr(attrs[n].id, attrs[n].a, attrs[n].b)
  <2>1. attrs[n].value \in BOOLEAN /\ IsAttr(attrs[n])
    BY <1>1 DEF IsAttrList
  <2>2. \A id, bytes : RefAttr(id, bytes).buffer /\ RefAttr(id, bytes).length = Len(bytes)
    BY DEF RefAttr
  <2>3. \A id, length : ~NullAttr(id, length).buffer
    BY DEF NullAttr
  <2>4. CASE attrs[n].value
    BY <2>1, <2>4 DEF IsAttr, HasBuffer
  <2>5. CASE ~attrs[n].value /\ attrs[n].bytes \in Seq(Nat) /\ attrs[n] = RefAttr(attrs[n].id, attrs[n].bytes)
    <3>1. attrs[n].buffer /\ attrs[n].length = Len(attrs[n].bytes)
      BY <2>2, <2>5, Zenon
    <3>2. QED
      BY <2>1, <2>5, <3>1 DEF HasBuffer
  <2>6. CASE ~attrs[n].value /\ attrs[n].length \in Nat /\ attrs[n] = NullAttr(attrs[n].id, attrs[n].length)
    <3>1. ~attrs[n].buffer
      BY <2>3, <2>6, Zenon
    <3>2. QED
      BY <2>1, <2>6, <3>1 DEF HasBuffer
  <2>7. QED
    BY <2>1, <2>4, <2>5, <2>6 DEF IsAttr
<1>3. ASSUME NEW n \in 1..Len(attrs)
      PROVE  /\ Room(attrs[n]) \in Nat
             /\ HasBuffer(attrs[n]) => Room(attrs[n]) >= attrs[n].length
  <2>1. CASE HasBuffer(attrs[n])
    <3>1. attrs[n].length \in Nat
      BY <1>2, <2>1
    <3>2. \A k \in Nat : ((k + 4 - 1) \div 4) * 4 \in Nat /\ ((k + 4 - 1) \div 4) * 4 >= k
      OBVIOUS
    <3>3. QED
      BY <2>1, <3>1, <3>2 DEF Room, ROUNDUP
  <2>2. CASE ~HasBuffer(attrs[n])
    BY <2>2 DEF Room
  <2>3. QED
    BY <2>1, <2>2
<1>4. QED
  BY <1>1, <1>2, <1>3

\* The running sum up to k.
Sums(attrs, f, k) ==
    f = [n \in 0..k |-> IF n = 0 THEN CountSize + PackedSize * Len(attrs)
                        ELSE f[n - 1] + Room(attrs[n])]

\* Such a sum exists up to every attribute.
LEMMA SumsExist ==
    ASSUME NEW attrs, IsAttrList(attrs)
    PROVE  \E f : Sums(attrs, f, Len(attrs))
<1> DEFINE S == {k \in 0..Len(attrs) : ~\E f : Sums(attrs, f, k)}
<1>1. Len(attrs) \in Nat
  BY AttrFacts
<1>2. SUFFICES ASSUME S # {} PROVE FALSE
  BY <1>1
<1>3. PICK k \in S : \A m \in S : k <= m
  <2>1. S \in SUBSET Nat
    BY <1>1
  <2>2. QED
    BY <1>2, <2>1, LeastExists
<1>4. k # 0
  <2> DEFINE f == [n \in 0..0 |-> CountSize + PackedSize * Len(attrs)]
  <2>1. Sums(attrs, f, 0)
    BY DEF Sums
  <2>2. QED
    BY <1>3, <2>1
<1>5. k \in 1..Len(attrs) /\ k - 1 \in 0..Len(attrs) /\ k - 1 \notin S
  BY <1>1, <1>3, <1>4
<1>6. PICK f : Sums(attrs, f, k - 1)
  BY <1>5
<1> DEFINE g == [n \in 0..k |-> IF n = 0 THEN CountSize + PackedSize * Len(attrs)
                                ELSE f[n - 1] + Room(attrs[n])]
<1>7. ASSUME NEW n \in 0..k, n # 0 PROVE g[n - 1] = f[n - 1]
  <2>1. n - 1 \in 0..k /\ n - 1 \in 0..(k - 1)
    BY <1>5, <1>7
  <2>2. f[n - 1] = IF n - 1 = 0 THEN CountSize + PackedSize * Len(attrs)
                   ELSE f[n - 1 - 1] + Room(attrs[n - 1])
    BY <1>6, <2>1 DEF Sums
  <2>3. QED
    BY <2>1, <2>2
<1>8. Sums(attrs, g, k)
  <2>1. g = [n \in 0..k |-> IF n = 0 THEN CountSize + PackedSize * Len(attrs)
                            ELSE g[n - 1] + Room(attrs[n])]
    BY <1>7
  <2>2. QED
    BY <2>1, Zenon DEF Sums
<1>9. QED
  BY <1>3, <1>8

\* So Ends is what its definition says.
LEMMA EndsSums ==
    ASSUME NEW attrs, IsAttrList(attrs)
    PROVE  /\ Ends(attrs)[0] = CountSize + PackedSize * Len(attrs)
           /\ \A n \in 1..Len(attrs) : Ends(attrs)[n] = Ends(attrs)[n - 1] + Room(attrs[n])
<1>1. Sums(attrs, Ends(attrs), Len(attrs))
  <2>1. PICK f : Sums(attrs, f, Len(attrs))
    BY SumsExist
  <2>2. QED
    BY <2>1 DEF Ends, Sums
<1>2. Len(attrs) \in Nat
  BY AttrFacts
<1>3. QED
  BY <1>1, <1>2 DEF Sums

\* The bytes start behind the array, and each attribute ends where the next one starts.
LEMMA EndsFacts ==
    ASSUME NEW attrs, IsAttrList(attrs)
    PROVE  /\ \A n \in 0..Len(attrs) : Ends(attrs)[n] \in Nat
           /\ \A n \in 0..Len(attrs) : \A m \in 0..n : Ends(attrs)[m] <= Ends(attrs)[n]
<1> DEFINE e == Ends(attrs)
           L == Len(attrs)
           Good(n) == e[n] \in Nat /\ \A m \in 0..n : e[m] \in Nat /\ e[m] <= e[n]
           S == {n \in 0..L : ~Good(n)}
<1>1. L \in Nat
  BY AttrFacts
<1>2. e[0] = 4 + 12 * L /\ \A n \in 1..L : e[n] = e[n - 1] + Room(attrs[n]) /\ Room(attrs[n]) \in Nat
  BY EndsSums, AttrFacts DEF CountSize, PackedSize
<1>3. S = {}
  <2> SUFFICES ASSUME S # {} PROVE FALSE
    OBVIOUS
  <2>1. PICK n \in S : \A m \in S : n <= m
    <3>1. S \in SUBSET Nat
      BY <1>1
    <3>2. QED
      BY <3>1, LeastExists
  <2> HIDE DEF e, L
  <2>2. n # 0
    BY <1>1, <1>2, <2>1
  <2>3. n \in 1..L /\ n - 1 \in 0..L /\ n - 1 \notin S
    BY <1>1, <2>1, <2>2
  <2>4. Good(n - 1)
    BY <2>3
  <2>5. e[n] = e[n - 1] + Room(attrs[n]) /\ Room(attrs[n]) \in Nat
    BY <1>2, <2>3
  <2>6. \A m \in 0..n : m = n \/ m \in 0..(n - 1)
    BY <1>1, <2>3
  <2>7. Good(n)
    BY <2>4, <2>5, <2>6
  <2>8. QED
    BY <2>1, <2>7
<1>4. \A n \in 0..L : Good(n)
  BY <1>3
<1>5. QED
  BY <1>4

\* A list that is not empty, packed: its array, and the bytes of its attributes where
\* their offsets say.
LEMMA PackedFacts ==
    ASSUME NEW attrs, IsAttrList(attrs), attrs # << >>
    PROVE  /\ pack_attrs(attrs).count = Len(attrs)
           /\ pack_attrs(attrs).len = Ends(attrs)[Len(attrs)]
           /\ \A n \in 1..Len(attrs) : pack_attrs(attrs).packed[n] = Packed(attrs, n)
           /\ \A n \in 1..Len(attrs) : HasBuffer(attrs[n]) =>
                 \A i \in 1..attrs[n].length :
                     ByteAt(pack_attrs(attrs), Ends(attrs)[n - 1] + i - 1) = attrs[n].bytes[i]
<1> DEFINE L == Len(attrs)
           at == Ends(attrs)
           Holders(i) == {n \in 1..L : HasBuffer(attrs[n]) /\ i \in at[n - 1] .. at[n - 1] + attrs[n].length - 1}
           bytes == [i \in at[0] .. at[L] - 1 |->
                        IF Holders(i) = {} THEN 0
                        ELSE LET n == CHOOSE n \in Holders(i) : TRUE
                             IN  attrs[n].bytes[i - at[n - 1] + 1]]
<1>1. /\ pack_attrs(attrs).count = Len(attrs)
      /\ pack_attrs(attrs).len = Ends(attrs)[Len(attrs)]
      /\ \A n \in 1..Len(attrs) : pack_attrs(attrs).packed[n] = Packed(attrs, n)
  BY DEF pack_attrs, BufferLength
<1>2. pack_attrs(attrs).bytes = bytes
  BY DEF pack_attrs
<1>3. ASSUME NEW n \in 1..L, HasBuffer(attrs[n]), NEW i \in 1..attrs[n].length
      PROVE  ByteAt(pack_attrs(attrs), at[n - 1] + i - 1) = attrs[n].bytes[i]
  <2> DEFINE j == at[n - 1] + i - 1
  <2>1. L \in Nat /\ attrs[n].length \in Nat /\ Room(attrs[n]) >= attrs[n].length /\ Room(attrs[n]) \in Nat
    BY <1>3, AttrFacts
  <2>2. \A m \in 0..L : at[m] \in Nat
    BY EndsFacts
  <2>3. n - 1 \in 0..L /\ n \in 0..L /\ at[n] = at[n - 1] + Room(attrs[n])
    BY <2>1, EndsSums
  <2>4. at[0] <= at[n - 1] /\ at[n] <= at[L]
    BY <2>1, <2>3, EndsFacts
  <2>5. /\ j \in at[0] .. at[L] - 1
        /\ j \in at[n - 1] .. at[n - 1] + attrs[n].length - 1
    <3>1. at[n - 1] \in Nat /\ at[n] \in Nat /\ at[0] \in Nat /\ at[L] \in Nat
      BY <2>1, <2>2, <2>3
    <3>2. /\ i \in Nat /\ 1 <= i /\ i <= attrs[n].length
          /\ at[n - 1] + attrs[n].length <= at[n]
      <4> HIDE DEF at, L
      <4>1. QED
        BY <1>3, <2>1, <2>3, <3>1
    <3>3. \A a, b, c, d, len, k \in Nat :
              a + len <= b /\ c <= a /\ b <= d /\ 1 <= k /\ k <= len =>
                  a + k - 1 \in c .. d - 1 /\ a + k - 1 \in a .. a + len - 1
      OBVIOUS
    <3> HIDE DEF at, L
    <3>4. QED
      BY <2>1, <2>4, <3>1, <3>2, <3>3
  <2>6. Holders(j) = {n}
    <3>1. n \in Holders(j)
      BY <1>3, <2>5
    <3>2. ASSUME NEW m \in Holders(j) PROVE m = n
      <4>1. m \in 1..L /\ HasBuffer(attrs[m]) /\ at[m - 1] <= j /\ j <= at[m - 1] + attrs[m].length - 1
        BY <3>2
      <4>2. /\ attrs[m].length \in Nat /\ Room(attrs[m]) \in Nat /\ Room(attrs[m]) >= attrs[m].length
            /\ at[m] = at[m - 1] + Room(attrs[m])
        BY <4>1, AttrFacts, EndsSums
      <4>3. m < n => at[m] <= at[n - 1]
        <5>1. m < n => m \in 0..(n - 1)
          BY <2>1, <4>1
        <5>2. QED
          BY <2>3, <5>1, EndsFacts
      <4>4. n < m => at[n] <= at[m - 1]
        <5>1. m - 1 \in 0..L /\ (n < m => n \in 0..(m - 1))
          BY <2>1, <4>1
        <5>2. QED
          BY <5>1, EndsFacts
      <4>5. m \in 0..L /\ m - 1 \in 0..L
        BY <2>1, <4>1
      <4>6. at[m] \in Nat /\ at[m - 1] \in Nat /\ at[n] \in Nat /\ at[n - 1] \in Nat
        BY <2>2, <2>3, <4>5
      <4>7. j \in Int /\ at[n - 1] <= j /\ j <= at[n - 1] + attrs[n].length - 1
        BY <2>5
      <4>o. \A a, b, len, room, k \in Int :
                b = a + room /\ room >= len /\ k <= a + len - 1 => k < b
        OBVIOUS
      <4>p. j < at[m] /\ j < at[n]
        <5>1. at[m] = at[m - 1] + Room(attrs[m]) /\ Room(attrs[m]) >= attrs[m].length
              /\ j <= at[m - 1] + attrs[m].length - 1
              /\ attrs[m].length \in Int /\ Room(attrs[m]) \in Int /\ at[m] \in Int /\ at[m - 1] \in Int
          BY <4>1, <4>2, <4>6
        <5>2. at[n] = at[n - 1] + Room(attrs[n]) /\ Room(attrs[n]) >= attrs[n].length
              /\ j <= at[n - 1] + attrs[n].length - 1
              /\ attrs[n].length \in Int /\ Room(attrs[n]) \in Int /\ at[n] \in Int /\ at[n - 1] \in Int
          BY <2>1, <2>3, <4>6, <4>7
        <5> HIDE DEF at, L, j, Holders, bytes
        <5>3. j < at[m]
          BY <4>7, <4>o, <5>1
        <5>4. j < at[n]
          BY <4>7, <4>o, <5>2
        <5>5. QED
          BY <5>3, <5>4
      <4> HIDE DEF at, L, j, Holders, bytes
      <4>q. ~(at[m] <= at[n - 1]) /\ ~(at[n] <= at[m - 1])
        <5>1. j < at[m] /\ at[n - 1] <= j /\ j < at[n] /\ at[m - 1] <= j /\ j \in Int
          BY <4>1, <4>7, <4>p
        <5>2. QED
          BY <4>6, <5>1
      <4>8. ~(m < n) /\ ~(n < m)
        BY <4>3, <4>4, <4>q
      <4>9. QED
        BY <2>1, <4>1, <4>8
    <3>3. QED
      BY <3>1, <3>2
  <2>7. (CHOOSE m \in Holders(j) : TRUE) = n
    BY <2>6
  <2>8. bytes[j] = attrs[n].bytes[j - at[n - 1] + 1]
    BY <2>5, <2>6, <2>7
  <2>9. j - at[n - 1] + 1 = i
    BY <2>2, <2>3
  <2>10. j \in DOMAIN bytes
    BY <2>5
  <2>11. QED
    BY <1>2, <2>8, <2>9, <2>10, Zenon DEF ByteAt
<1>4. QED
  BY <1>1, <1>3

\* Both ends agree: what pack_attrs makes is a buffer that unpack_attrs takes and
\* turns into the attributes again.
THEOREM RoundTrip ==
    ASSUME NEW attrs, IsAttrList(attrs)
    PROVE  /\ IsBuffer(pack_attrs(attrs))
           /\ "SUCCESS" \in UnpackResults(pack_attrs(attrs))
           /\ unpack_attrs(pack_attrs(attrs)) = attrs
<1>1. CASE attrs = << >>
  <2>1. pack_attrs(attrs) = NoBuffer
    BY <1>1 DEF pack_attrs
  <2>2. NoBuffer.len = 0 /\ NoBuffer.count = 0
    BY DEF NoBuffer
  <2>3. 1..0 = {}
    OBVIOUS
  <2>4. unpack_attrs(NoBuffer) = << >>
    <3> DEFINE F(n) == LET p == NoBuffer.packed[n] IN
                       IF p.value THEN ValueAttr(p.id, p.a, p.b)
                       ELSE IF p.a = 0 THEN NullAttr(p.id, p.b)
                       ELSE RefAttr(p.id, [i \in 1..p.b |-> ByteAt(NoBuffer, p.a + i - 1)])
    <3>1. unpack_attrs(NoBuffer) = [n \in 1..0 |-> F(n)]
      BY <2>2 DEF unpack_attrs
    <3> HIDE DEF F
    <3>2. QED
      BY <3>1
  <2>5. QED
    BY <1>1, <2>1, <2>2, <2>3, <2>4 DEF IsBuffer, UnpackResults
<1>2. CASE attrs # << >>
  <2> DEFINE buf == pack_attrs(attrs)
             L == Len(attrs)
             at == Ends(attrs)
  <2>1. L \in Nat /\ buf.count = L /\ buf.len = at[L]
    BY <1>2, AttrFacts, PackedFacts
  <2>2. \A n \in 1..L : buf.packed[n] = Packed(attrs, n)
    BY <1>2, PackedFacts
  <2>3. at[0] = 4 + 12 * L /\ at[0] <= at[L] /\ at[0] \in Nat /\ at[L] \in Nat
    BY <2>1, EndsSums, EndsFacts DEF CountSize, PackedSize
  <2>4. ASSUME NEW n \in 1..L
        PROVE  /\ at[n - 1] \in Nat /\ at[n - 1] # 0
               /\ HasBuffer(attrs[n]) => at[n - 1] + attrs[n].length <= at[L] /\ attrs[n].length \in Nat
    <3>1. n - 1 \in 0..L /\ n \in 0..L /\ 0 \in 0..(n - 1) /\ L \in 0..L /\ n \in 0..L
      BY <2>1
    <3>2. /\ at[n - 1] \in Nat /\ at[n] \in Nat /\ at[0] <= at[n - 1] /\ at[n] <= at[L]
          /\ at[n] = at[n - 1] + Room(attrs[n])
      BY <3>1, EndsFacts, EndsSums
    <3>3. Room(attrs[n]) \in Nat /\ (HasBuffer(attrs[n]) => Room(attrs[n]) >= attrs[n].length /\ attrs[n].length \in Nat)
      BY AttrFacts
    <3> HIDE DEF at, L
    <3>4. QED
      BY <2>1, <2>3, <3>2, <3>3
  <2>5. ASSUME NEW n \in 1..L
        PROVE  /\ buf.packed[n].value = attrs[n].value
               /\ ~buf.packed[n].value => /\ buf.packed[n].a \in Nat /\ buf.packed[n].b \in Nat
                                          /\ ~RefOutside(buf, buf.packed[n])
    <3>1. attrs[n].value \in BOOLEAN /\ buf.packed[n] = Packed(attrs, n)
      BY <2>2, AttrFacts
    <3>2. CASE attrs[n].value
      <4>1. buf.packed[n] = [id |-> attrs[n].id, value |-> TRUE, a |-> attrs[n].a, b |-> attrs[n].b]
        BY <3>1, <3>2 DEF Packed
      <4>2. buf.packed[n].value = TRUE
        BY <4>1
      <4>3. QED
        BY <3>1, <3>2, <4>2
    <3>3. CASE ~attrs[n].value
      <4>1. buf.packed[n] = [id |-> attrs[n].id, value |-> FALSE,
                             a |-> IF attrs[n].buffer THEN at[n - 1] ELSE 0, b |-> attrs[n].length]
        BY <3>1, <3>3 DEF Packed
      <4>2. /\ buf.packed[n].value = FALSE
            /\ buf.packed[n].a = IF attrs[n].buffer THEN at[n - 1] ELSE 0
            /\ buf.packed[n].b = attrs[n].length
        BY <4>1
      <4>3. attrs[n].length \in Nat
        BY <3>3, <2>4, AttrFacts DEF HasBuffer
      <4>v. buf.packed[n].value = attrs[n].value /\ ~buf.packed[n].value
        BY <3>1, <3>3, <4>2
      <4>4. CASE attrs[n].buffer
        <5>1. buf.packed[n].a = at[n - 1] /\ at[n - 1] \in Nat /\ at[n - 1] + attrs[n].length <= at[L]
          BY <2>4, <3>3, <4>2, <4>4 DEF HasBuffer
        <5> HIDE DEF buf, at, L
        <5>2. QED
          BY <2>1, <2>3, <4>v, <4>2, <4>3, <5>1 DEF RefOutside
      <4>5. CASE ~attrs[n].buffer
        <5>1. buf.packed[n].a = 0
          BY <4>2, <4>5
        <5> HIDE DEF buf, at, L
        <5>2. QED
          BY <4>v, <4>2, <4>3, <5>1 DEF RefOutside
      <4>6. QED
        BY <4>4, <4>5
    <3>4. QED
      BY <3>1, <3>2, <3>3
  <2>6. IsBuffer(buf)
    BY <2>1, <2>3, <2>5 DEF IsBuffer
  <2>7. "SUCCESS" \in UnpackResults(buf)
    <3>1. ~ArrayOutside(buf)
      BY <2>1, <2>3 DEF ArrayOutside, CountSize, PackedSize
    <3>2. ~\E n \in 1..buf.count : RefOutside(buf, buf.packed[n])
      BY <2>1, <2>5 DEF RefOutside
    <3>3. QED
      BY <3>1, <3>2, Zenon DEF UnpackResults
  <2>8. unpack_attrs(buf) = attrs
    <3> DEFINE F(n) == LET p == buf.packed[n] IN
                       IF p.value THEN ValueAttr(p.id, p.a, p.b)
                       ELSE IF p.a = 0 THEN NullAttr(p.id, p.b)
                       ELSE RefAttr(p.id, [i \in 1..p.b |-> ByteAt(buf, p.a + i - 1)])
    <3>1. unpack_attrs(buf) = [n \in 1..L |-> F(n)]
      BY <2>1 DEF unpack_attrs
    <3>2. ASSUME NEW n \in 1..L PROVE F(n) = attrs[n]
      <4>1. attrs[n].value \in BOOLEAN /\ buf.packed[n] = Packed(attrs, n)
        BY <2>2, AttrFacts
      <4>2. CASE attrs[n].value
        <5>1. buf.packed[n] = [id |-> attrs[n].id, value |-> TRUE, a |-> attrs[n].a, b |-> attrs[n].b]
          BY <4>1, <4>2 DEF Packed
        <5>2. F(n) = ValueAttr(attrs[n].id, attrs[n].a, attrs[n].b)
          BY <5>1
        <5>3. QED
          BY <4>2, <5>2, AttrFacts
      <4>3. CASE ~attrs[n].value
        <5>1. buf.packed[n] = [id |-> attrs[n].id, value |-> FALSE,
                               a |-> IF attrs[n].buffer THEN at[n - 1] ELSE 0, b |-> attrs[n].length]
          BY <4>1, <4>3 DEF Packed
        <5>2. CASE attrs[n].buffer
          <6>1. at[n - 1] # 0
            BY <2>4
          <6>2. F(n) = RefAttr(attrs[n].id, [i \in 1..attrs[n].length |-> ByteAt(buf, at[n - 1] + i - 1)])
            BY <5>1, <5>2, <6>1
          <6>3. \A i \in 1..attrs[n].length : ByteAt(buf, at[n - 1] + i - 1) = attrs[n].bytes[i]
            BY <1>2, <4>3, <5>2, PackedFacts DEF HasBuffer
          <6>4. /\ attrs[n].bytes \in Seq(Nat) /\ attrs[n].length = Len(attrs[n].bytes)
                /\ attrs[n] = RefAttr(attrs[n].id, attrs[n].bytes)
            BY <4>3, <5>2, AttrFacts DEF HasBuffer
          <6>5. attrs[n].bytes = [i \in 1..attrs[n].length |-> attrs[n].bytes[i]]
            BY <6>4
          <6>6. [i \in 1..attrs[n].length |-> ByteAt(buf, at[n - 1] + i - 1)] = attrs[n].bytes
            <7> HIDE DEF buf, at
            <7>1. QED
              BY <6>3, <6>5, Zenon
          <6>7. QED
            BY <6>2, <6>4, <6>6, Zenon
        <5>3. CASE ~attrs[n].buffer
          <6>1. F(n) = NullAttr(attrs[n].id, attrs[n].length)
            BY <5>1, <5>3
          <6>2. QED
            BY <4>3, <5>3, <6>1, AttrFacts
        <5>4. QED
          BY <5>2, <5>3
      <4>4. QED
        BY <4>2, <4>3
    <3> HIDE DEF F
    <3>3. attrs = [n \in 1..L |-> attrs[n]]
      BY AttrFacts
    <3>4. QED
      BY <3>1, <3>2, <3>3, Zenon
  <2>9. QED
    BY <2>6, <2>7, <2>8
<1>3. QED
  BY <1>1, <1>2

\* Of a buffer that unpack_attrs accepts nothing outside is read.
THEOREM NothingStrays ==
    ASSUME NEW buf, IsBuffer(buf), "SUCCESS" \in UnpackResults(buf)
    PROVE  \A area \in Touched(buf) : ~(area[2] > buf.len)
<1>1. CASE buf.len = 0
  BY <1>1 DEF Touched
<1>2. CASE buf.len # 0
  <2>1. ~ArrayOutside(buf)
    BY <1>2 DEF UnpackResults
  <2>2. buf.len \in Nat /\ buf.count \in Nat /\ CountSize + buf.count * PackedSize <= buf.len
    BY <2>1 DEF IsBuffer, ArrayOutside, CountSize, PackedSize
  <2>3. \A n \in 1..buf.count : ~RefOutside(buf, buf.packed[n])
    <3>1. CASE buf.count = 0
      BY <3>1
    <3>2. CASE buf.count # 0
      BY <1>2, <2>1, <3>2 DEF UnpackResults
    <3>3. QED
      BY <3>1, <3>2
  <2>4. ASSUME NEW n \in 1..buf.count, ~buf.packed[n].value, buf.packed[n].a # 0
        PROVE  ~(buf.packed[n].a + buf.packed[n].b > buf.len)
    BY <2>3, <2>4 DEF RefOutside
  <2>5. ASSUME NEW area \in Touched(buf) PROVE ~(area[2] > buf.len)
    <3>1. CASE area = <<0, CountSize + buf.count * PackedSize>>
      BY <2>2, <3>1 DEF CountSize, PackedSize
    <3>2. CASE area # <<0, CountSize + buf.count * PackedSize>>
      <4>1. PICK n \in 1..buf.count : /\ ~buf.packed[n].value /\ buf.packed[n].a # 0
                                      /\ area = <<buf.packed[n].a, buf.packed[n].a + buf.packed[n].b>>
        BY <1>2, <2>5, <3>2 DEF Touched
      <4>2. QED
        BY <2>4, <4>1
    <3>3. QED
      BY <3>1, <3>2
  <2>6. QED
    BY <2>5
<1>3. QED
  BY <1>1, <1>2

-----------------------------------------------------------------------------
(***************************************************************************)
(* The performance TAs.                                                    *)
(***************************************************************************)

\* The function without arguments.
LEMMA EmptyFunction ==
    /\ DOMAIN << >> = {}
    /\ \A f : DOMAIN f = {} /\ f = [x \in DOMAIN f |-> f[x]] => f = << >>
<1>1. DOMAIN << >> = {}
  OBVIOUS
<1>2. << >> = [x \in {} |-> 0]
  OBVIOUS
<1>3. ASSUME NEW f, DOMAIN f = {}, f = [x \in DOMAIN f |-> f[x]] PROVE f = << >>
  BY <1>2, <1>3
<1>4. QED
  BY <1>1, <1>3

\* With one operation for the handle there are no others, and none after it was freed.
LEMMA AesPrepareStep ==
    ASSUME AesInv, alive, NEW alg \in Algos, cmd_prepare_key(alg)
    PROVE  AesInv' /\ alive' \in BOOLEAN
<1> USE TeeCryptoAssumption DEF AesInv
<1>1. CASE CleanPanics /\ prepared' = FALSE /\ UNCHANGED <<crypto_op, failed, abused>>
  BY <1>1 DEF CleanPanics, TEE_Panic
<1>2. ASSUME NEW point \in FailurePoints(alg), Prepare(alg, point),
             prepared' = (point = "none"), failed' = (failed \/ point # "none"),
             UNCHANGED <<alive, abused>>, algo' = alg
      PROVE  AesInv' /\ alive' \in BOOLEAN
  <2>1. failed' \in BOOLEAN /\ prepared' \in BOOLEAN /\ abused' \in BOOLEAN
        /\ (point # "none" => failed' /\ ~prepared') /\ (failed => failed')
    BY <1>2
  <2>2. CASE point = "operation" /\ ops' = Cleaned /\ UNCHANGED <<objs, crypto_op>>
    <3>1. DOMAIN ops' \subseteq {crypto_op'}
      BY <2>2 DEF Cleaned, Without
    <3>2. QED
      BY <1>2, <2>1, <2>2, <3>1
  <2>3. ASSUME NEW op \in OpAddrs \ DOMAIN Cleaned, NEW keys \in SUBSET NewObjs,
               Cardinality(keys) = KeysKept(alg, point),
               crypto_op' = op,
               ops' = With(Cleaned, op, [class |-> ClassOf(alg), state |-> StateReached(point)]),
               objs' = [o \in DOMAIN objs \cup keys |-> Empty]
        PROVE  AesInv' /\ alive' \in BOOLEAN
    <3>1. DOMAIN ops' \subseteq {op} /\ op \in DOMAIN ops'
          /\ ops'[op] = [class |-> ClassOf(alg), state |-> StateReached(point)]
      BY <2>3 DEF Cleaned, Without, With
    <3>2. prepared' => InState(crypto_op, ClassOf(algo), {"active"})'
      <4>1. prepared' => StateReached(point) = "active"
        BY <1>2 DEF StateReached
      <4>2. QED
        BY <1>2, <2>3, <3>1, <4>1 DEF InState, ClassOf
    <3>3. (Stale(crypto_op) => failed)'
      BY <2>3, <3>1 DEF Stale
    <3>4. objs' # << >> => failed'
      <4>1. SUFFICES ASSUME ~failed' PROVE objs' = << >>
        BY <2>1
      <4>2. point = "none" /\ ~failed
        BY <2>1, <4>1
      <4>3. DOMAIN objs = {}
        BY <4>2, EmptyFunction
      <4>4. keys = {}
        <5>1. IsFiniteSet(keys)
          BY FS_Subset DEF NewObjs
        <5>2. Cardinality(keys) = 0
          BY <2>3, <4>2 DEF KeysKept
        <5>3. QED
          BY <5>1, <5>2, FS_EmptySet
      <4>5. QED
        BY <2>3, <4>3, <4>4, EmptyFunction
    <3>5. QED
      BY <1>2, <2>1, <2>3, <3>1, <3>2, <3>3, <3>4
  <2>4. QED
    BY <1>2, <2>2, <2>3 DEF Prepare
<1>3. QED
  BY <1>1, <1>2 DEF cmd_prepare_key

\* What a careful client passes stays inside both buffers.
LEMMA CarefulStays ==
    ASSUME NEW rounds \in Nat, NEW insz \in Nat, NEW outsz \in Nat, NEW unit \in Nat,
           EndOfUpdates(rounds, insz, unit) > 0, ~Careless(rounds, insz, outsz, unit)
    PROVE  ~Strays(rounds, insz, outsz, unit)
<1> DEFINE U == Unit(insz, unit)
           Q == Quotient(insz, unit)
           R == Remainder(insz, unit)
<1>1. rounds = 1
  BY DEF EndOfUpdates, Careless
<1>2. U \in Nat \ {0}
  BY <1>1 DEF Unit, EndOfUpdates, Quotient, Remainder
<1>3. Q = insz \div U /\ R = insz % U
  BY <1>2 DEF Quotient, Remainder
<1>4. Q \in Nat /\ R \in Nat /\ Q * U \in Nat /\ Q * U + R = insz /\ R < U
  <2>1. \A a \in Nat, b \in Nat \ {0} :
            /\ a \div b \in Nat /\ a % b \in Nat /\ a % b < b
            /\ (a \div b) * b \in Nat /\ (a \div b) * b + (a % b) = a
    OBVIOUS
  <2> HIDE DEF U, Q, R
  <2>2. QED
    BY <1>2, <1>3, <2>1
<1>5. /\ EndOfUpdates(rounds, insz, unit) = Q * U + R
      /\ StartOfLast(rounds, insz, unit) = IF R > 0 THEN Q * U ELSE Q * U - U
  <2>1. rounds * Q = Q
    <3> HIDE DEF Q
    <3>1. QED
      BY <1>1, <1>4
  <2>2. /\ EndOfUpdates(rounds, insz, unit) = rounds * Q * U + R
        /\ StartOfLast(rounds, insz, unit) = IF R > 0 THEN rounds * Q * U ELSE rounds * Q * U - U
    BY <1>1 DEF EndOfUpdates, StartOfLast
  <2> HIDE DEF U, Q, R
  <2>3. QED
    BY <2>1, <2>2
<1>6. ASSUME unit \notin 1 .. insz - 1 PROVE ~(StartOfLast(rounds, insz, unit) > 0)
  <2>1. U >= insz
    BY <1>6 DEF Unit
  <2>2. Q = 0 \/ Q = 1
    <3>1. \A a \in Nat, b \in Nat \ {0} : b >= a => a \div b = 0 \/ a \div b = 1
      OBVIOUS
    <3> HIDE DEF U, Q
    <3>2. QED
      BY <1>2, <1>3, <2>1, <3>1
  <2> HIDE DEF U, Q, R
  <2>3. CASE Q = 0
    <3>1. Q * U = 0
      BY <1>2, <2>3
    <3>2. QED
      BY <1>2, <1>4, <1>5, <3>1
  <2>4. CASE Q = 1
    <3>1. Q * U = U
      BY <1>2, <2>4
    <3>2. R = 0
      BY <1>2, <1>4, <2>1, <3>1
    <3>3. QED
      BY <1>2, <1>5, <3>1, <3>2
  <2>5. QED
    BY <2>2, <2>3, <2>4
<1>7. ASSUME unit \in 1 .. insz - 1
      PROVE  Blockwise(insz, unit) /\ StartOfLast(rounds, insz, unit) + U <= outsz
  <2>1. U = unit /\ Blockwise(insz, unit) /\ ~((outsz \div unit) * unit < insz)
    BY <1>7 DEF Careless, Unit
  <2> DEFINE K == outsz \div unit
  <2>2. K \in Nat /\ K * U \in Nat /\ K * U <= outsz /\ K * U >= insz
    <3>1. \A a \in Nat, b \in Nat \ {0} :
              a \div b \in Nat /\ (a \div b) * b \in Nat /\ (a \div b) * b <= a
      OBVIOUS
    <3>2. K \in Nat /\ K * unit \in Nat /\ K * unit <= outsz
      BY <1>7, <3>1
    <3> HIDE DEF U
    <3>3. QED
      BY <2>1, <3>2
  <2> HIDE DEF U, Q, R, K
  <2>3. CASE R > 0
    <3>1. K > Q
      <4>1. \A a, b \in Nat, c \in Nat \ {0} : a <= b => a * c <= b * c
        OBVIOUS
      <4>2. K <= Q => K * U <= Q * U
        BY <1>2, <1>4, <2>2, <4>1
      <4>3. QED
        BY <1>4, <2>2, <2>3, <4>2
    <3>2. Q * U + U <= K * U
      <4>1. \A a, b \in Nat, c \in Nat \ {0} : a < b => a * c + c <= b * c
        OBVIOUS
      <4>2. QED
        BY <1>2, <1>4, <2>2, <3>1, <4>1
    <3>3. QED
      BY <1>2, <1>4, <1>5, <2>1, <2>2, <2>3, <3>2
  <2>4. CASE R = 0
    BY <1>2, <1>4, <1>5, <2>1, <2>2, <2>4
  <2>5. QED
    BY <1>4, <2>3, <2>4
<1>8. StartOfLast(rounds, insz, unit) \in Int /\ ~(EndOfUpdates(rounds, insz, unit) > insz)
  <2> HIDE DEF U, Q, R
  <2>1. QED
    BY <1>2, <1>4, <1>5
<1>9. QED
  BY <1>2, <1>6, <1>7, <1>8 DEF Strays

\* cmd_process of the AES performance TA keeps its part of the invariant.
LEMMA AesProcessStep ==
    ASSUME AesInv, alive, NEW rounds \in 0..MaxRounds, NEW insz \in DataSizes,
           NEW outsz \in DataSizes, NEW unit \in DataSizes,
           cmd_process(rounds, insz, outsz, unit)
    PROVE  AesInv' /\ alive' \in BOOLEAN
<1> DEFINE some == EndOfUpdates(rounds, insz, unit) > 0
<1>0. rounds \in Nat /\ insz \in Nat /\ outsz \in Nat /\ unit \in Nat
  BY AesAssumption
<1>1. /\ abused' = (abused \/ (some /\ (~prepared \/ Careless(rounds, insz, outsz, unit))))
      /\ UNCHANGED <<crypto_op, algo, prepared, failed>>
  BY DEF cmd_process
<1>2. CASE /\ TEE_Panic /\ some
           /\ ~InState(crypto_op, ClassOf(algo), {"active"}) \/ Strays(rounds, insz, outsz, unit)
  <2>1. prepared => InState(crypto_op, ClassOf(algo), {"active"})
    BY DEF AesInv
  <2>2. Strays(rounds, insz, outsz, unit) => Careless(rounds, insz, outsz, unit)
    BY <1>0, <1>2, CarefulStays
  <2>3. abused'
    BY <1>1, <1>2, <2>1, <2>2
  <2>4. QED
    BY <1>1, <1>2, <2>3 DEF AesInv, TEE_Panic
<1>3. CASE UNCHANGED <<ops, objs, alive>>
  BY <1>1, <1>3 DEF AesInv, InState, Stale
<1>4. QED
  BY <1>2, <1>3 DEF cmd_process

\* Every command of the AES performance TA keeps its part of the invariant.
LEMMA AesStep ==
    ASSUME AesInv, alive, AesCommand
    PROVE  AesInv' /\ alive' \in BOOLEAN
<1>1. CASE UNCHANGED <<ops, objs, alive, aesVars>>
  BY <1>1 DEF aesVars, AesInv, InState, Stale
<1>2. QED
  BY <1>1, AesPrepareStep, AesProcessStep DEF AesCommand, UnknownAlgorithm, FlushFails

\* What is left of the input behind an offset in it.
LEMMA InputLeftInside ==
    ASSUME NEW size \in Sizes, NEW offset \in Sizes, ~(offset > size)
    PROVE  ~(offset + InputLeft(size, offset) > size)
<1>1. size \in Nat /\ offset \in Nat /\ size < SizeMod /\ SizeMod \in Nat \ {0}
  BY ShaAssumption
<1>2. \A a \in Nat, m \in Nat \ {0} : a < m => (a + m) % m = a
  OBVIOUS
<1>3. size + SizeMod - offset = (size - offset) + SizeMod /\ size - offset \in Nat /\ size - offset < SizeMod
  BY <1>1
<1>4. InputLeft(size, offset) = size - offset
  BY <1>1, <1>2, <1>3 DEF InputLeft
<1>5. QED
  BY <1>1, <1>4

\* cmd_prepare_op of the SHA performance TA keeps its part of the invariant.
LEMMA ShaPrepareStep ==
    ASSUME ShaInv, alive, cmd_prepare_op
    PROVE  ShaInv' /\ alive' \in BOOLEAN
<1> USE TeeCryptoAssumption DEF ShaInv
<1>1. /\ digestPrepared' = (ret' = "SUCCESS")
      /\ digestFailed' = (digestFailed \/ ret' # "SUCCESS")
      /\ UNCHANGED digestAbused
  BY DEF cmd_prepare_op
<1>2. CASE FreedDigest /\ TEE_Panic /\ UNCHANGED digest_op
  BY <1>1, <1>2 DEF TEE_Panic
<1>3. CASE AllocateDigest(Without(ops, {digest_op})) /\ UNCHANGED <<objs, alive>>
  <2>1. ASSUME NEW op \in OpAddrs \ DOMAIN Without(ops, {digest_op}),
               ops' = With(Without(ops, {digest_op}), op, NewOperation("digest")),
               digest_op' = op
        PROVE  ShaInv'
    <3>1. DOMAIN ops' \subseteq {op} /\ op \in DOMAIN ops' /\ ops'[op] = NewOperation("digest")
      BY <2>1 DEF With, Without
    <3>2. InState(digest_op, "digest", {"ready", "active"})'
      BY <2>1, <3>1 DEF InState, NewOperation
    <3>3. ~FreedDigest'
      BY <2>1, <3>1 DEF FreedDigest
    <3>4. QED
      BY <1>1, <1>3, <2>1, <3>1, <3>2, <3>3
  <2>2. CASE /\ ops' = Without(ops, {digest_op}) /\ UNCHANGED digest_op
             /\ ret' \in {"OUT_OF_MEMORY", "NOT_SUPPORTED"}
    <3>1. DOMAIN ops' \subseteq {digest_op'}
      BY <2>2 DEF Without
    <3>2. ~digestPrepared' /\ digestFailed'
      BY <1>1, <2>2
    <3>3. QED
      BY <1>1, <1>3, <2>2, <3>1, <3>2
  <2>3. QED
    BY <1>3, <2>1, <2>2 DEF AllocateDigest
<1>4. QED
  BY <1>2, <1>3 DEF cmd_prepare_op

\* cmd_process of the SHA performance TA keeps its part of the invariant.
LEMMA ShaProcessStep ==
    ASSUME ShaInv, alive, NEW rounds \in 0..MaxDigests, NEW size \in Sizes, NEW offset \in Sizes,
           cmd_process_digest(rounds, size, offset)
    PROVE  ShaInv' /\ alive' \in BOOLEAN
<1>1. /\ digestAbused' = (digestAbused \/ (rounds > 0 /\ (~digestPrepared \/ offset > size)))
      /\ UNCHANGED <<digest_op, digestPrepared, digestFailed>>
  BY DEF cmd_process_digest
<1>2. CASE /\ TEE_Panic /\ rounds > 0
           /\ \/ ~InState(digest_op, "digest", {"ready", "active"})
              \/ offset + InputLeft(size, offset) > size
  <2>1. digestPrepared => InState(digest_op, "digest", {"ready", "active"})
    BY DEF ShaInv
  <2>2. digestAbused'
    BY <1>1, <1>2, <2>1, InputLeftInside
  <2>3. QED
    BY <1>1, <1>2, <2>2 DEF ShaInv, TEE_Panic
<1>3. CASE UNCHANGED <<ops, objs, alive>>
  BY <1>1, <1>3 DEF ShaInv, InState, FreedDigest
<1>4. QED
  BY <1>2, <1>3 DEF cmd_process_digest

\* Every command of the SHA performance TA keeps its part of the invariant.
LEMMA ShaStep ==
    ASSUME ShaInv, alive, ShaCommand
    PROVE  ShaInv' /\ alive' \in BOOLEAN
<1>1. CASE UNCHANGED <<ops, objs, alive, shaVars>>
  BY <1>1 DEF shaVars, ShaInv, InState, FreedDigest
<1>2. QED
  BY <1>1, ShaPrepareStep, ShaProcessStep DEF ShaCommand, UnknownDigest

-----------------------------------------------------------------------------
(***************************************************************************)
(* The socket TA and its library.                                          *)
(***************************************************************************)

\* What a call of the library with handle v does: the TA answers and nothing changes, it
\* dies, or it works on the open socket of the handle, which close removes.
Answers == UNCHANGED <<alive, sockets>>
SocketDies(v) ==
    /\ alive' = FALSE /\ sockets' = << >>
    /\ handles[v].blen = sock_size
    /\ handles[v].h = NoSocket \/ handles[v].h.ctx \in SockIds \ DOMAIN sockets
Closes(v) ==
    /\ handles[v].blen = sock_size /\ handles[v].h.ctx \in DOMAIN sockets
    /\ sockets' = Without(sockets, {handles[v].h.ctx}) /\ UNCHANGED alive

\* A handle in use is open: the TA dies only of one that is not.
LEMMA DeadSocket ==
    ASSUME SocketInv, NEW v \in SockHandles, SocketDies(v), Passes(v), alive,
           inUse' \in [SockHandles -> Protocols \cup {"none"}],
           \A w \in SockHandles : inUse'[w] # "none" => inUse'[w] = inUse[w]
    PROVE  SocketInv'
<1>1. handles[v].h = NoSocket => failedUsed' /\ sock_size = BufSize
  <2>1. handles[v].h = NoSocket => sock_size \in {0, BufSize}
    BY DEF SocketInv, SocketDies
  <2>2. sock_size # 0
    BY LibSocketAssumption DEF SocketInv
  <2>3. QED
    BY <2>1, <2>2 DEF Passes
<1>2. handles[v].h # NoSocket => closedUsed'
  <2>1. SUFFICES ASSUME handles[v].h # NoSocket, ~closedUsed PROVE closedUsed'
    BY DEF Passes, SocketInv
  <2>2. handles[v].h.ctx \notin DOMAIN sockets
    BY <2>1 DEF SocketDies
  <2>3. inUse[v] = "none"
    BY <2>1, <2>2 DEF SocketInv, Connected
  <2>4. QED
    BY <2>1, <2>3 DEF Passes
<1>3. closedUsed' \in BOOLEAN /\ failedUsed' \in BOOLEAN /\ UNCHANGED <<handles, sock_size>>
  BY DEF Passes, SocketInv
<1>4. ~alive' /\ DOMAIN sockets' = {}
  BY EmptyFunction DEF SocketDies
<1>5. QED
  BY <1>1, <1>2, <1>3, <1>4 DEF SocketInv

\* Another way to say that nothing changed but what was passed.
LEMMA PassedSocket ==
    ASSUME SocketInv, NEW v \in SockHandles, Answers, Passes(v), UNCHANGED inUse
    PROVE  SocketInv'
<1>1. /\ closedUsed' \in BOOLEAN /\ failedUsed' \in BOOLEAN
      /\ UNCHANGED <<handles, sock_size, alive, sockets, inUse>>
      /\ (closedUsed => closedUsed') /\ (failedUsed => failedUsed')
  BY DEF Passes, SocketInv, Answers
<1>2. QED
  BY <1>1 DEF SocketInv, Connected

\* socket_close: a handle that was in use had the only socket of its context.
LEMMA ClosedSocket ==
    ASSUME SocketInv, NEW v \in SockHandles, Closes(v), Passes(v),
           inUse' = [inUse EXCEPT ![v] = "none"]
    PROVE  SocketInv'
<1> DEFINE c == handles[v].h.ctx
<1>1. /\ closedUsed' \in BOOLEAN /\ failedUsed' \in BOOLEAN
      /\ UNCHANGED <<handles, sock_size, alive>>
      /\ (closedUsed => closedUsed') /\ (failedUsed => failedUsed')
  BY DEF Passes, SocketInv, Closes
<1>2. DOMAIN sockets' = DOMAIN sockets \ {c} /\ \A x \in DOMAIN sockets' : sockets'[x] = sockets[x]
  BY DEF Closes, Without
<1>3. inUse' \in [SockHandles -> Protocols \cup {"none"}]
      /\ \A w \in SockHandles : inUse'[w] = IF w = v THEN "none" ELSE inUse[w]
  BY DEF SocketInv
<1>4. ASSUME alive, ~closedUsed' PROVE Connected'
  <2>1. ~closedUsed /\ Connected
    BY <1>1, <1>4 DEF SocketInv
  <2>2. inUse[v] # "none"
    <3>1. c # 0
      BY SocketAssumption DEF Closes, SocketInv
    <3>2. handles[v].h # NoSocket
      BY <3>1 DEF NoSocket
    <3>3. QED
      BY <1>4, <3>2 DEF Passes
  <2>3. ASSUME NEW w \in SockHandles, inUse'[w] # "none"
        PROVE  /\ w # v /\ inUse[w] # "none" /\ inUse'[w] = inUse[w]
               /\ handles[w].h.ctx \in DOMAIN sockets' /\ sockets'[handles[w].h.ctx] = inUse[w]
    BY <1>2, <1>3, <2>1, <2>2, <2>3 DEF Connected
  <2>4. ASSUME NEW x \in DOMAIN sockets'
        PROVE  \E w \in SockHandles : inUse'[w] # "none" /\ handles[w].h.ctx = x
    BY <1>2, <1>3, <2>1, <2>2 DEF Connected
  <2>5. QED
    BY <1>1, <2>1, <2>3, <2>4 DEF Connected
<1>5. \A w \in SockHandles : inUse'[w] # "none" => inUse[w] # "none"
  BY <1>3
<1>6. QED
  BY <1>1, <1>2, <1>3, <1>4, <1>5 DEF SocketInv

\* What Closes needs of a handle that was not in use does not matter, and a call that the TA
\* only answers leaves a handle in use open only if it was not in use.
LEMMA RefusedClose ==
    ASSUME SocketInv, NEW v \in SockHandles, Answers, Passes(v), alive,
           handles[v].blen # sock_size \/ handles[v].h.ctx \notin DOMAIN sockets,
           inUse' = [inUse EXCEPT ![v] = "none"]
    PROVE  SocketInv'
<1>1. /\ closedUsed' \in BOOLEAN /\ failedUsed' \in BOOLEAN
      /\ UNCHANGED <<handles, sock_size, alive, sockets>>
      /\ (closedUsed => closedUsed') /\ (failedUsed => failedUsed')
  BY DEF Passes, SocketInv, Answers
<1>2. CASE inUse[v] = "none"
  <2>1. inUse' = inUse
    BY <1>2 DEF SocketInv
  <2>2. QED
    BY <2>1, PassedSocket
<1>3. CASE inUse[v] # "none"
  <2>1. handles[v].blen = sock_size
    BY <1>3 DEF SocketInv
  <2>2. closedUsed
    BY <1>3, <2>1 DEF SocketInv, Connected
  <2>3. /\ inUse' \in [SockHandles -> Protocols \cup {"none"}]
        /\ \A w \in SockHandles : inUse'[w] # "none" => inUse[w] # "none"
    BY DEF SocketInv
  <2>4. QED
    BY <1>1, <2>2, <2>3 DEF SocketInv
<1>4. QED
  BY <1>2, <1>3

\* A socket is opened in a variable that holds none.
LEMMA OpenedSocket ==
    ASSUME SocketInv, NEW v \in SockHandles, inUse[v] = "none", alive, NEW protocol \in Protocols,
           NEW ctx \in SockIds \cup {0}, OpenWith(protocol, BufSize, ctx), Opened(v, protocol, ctx)
    PROVE  SocketInv' /\ alive'
<1>1. sock_size <= BufSize /\ sock_size \in Nat \ {0} /\ BufSize \in Nat /\ ~(BufSize < sock_size)
  BY LibSocketAssumption DEF SocketInv
<1>2. alive' /\ UNCHANGED <<sock_size, closedUsed, failedUsed>>
  BY DEF OpenWith, Opened
<1>3. CASE SocketOpen(protocol, ctx)
  <2>1. /\ ctx \in SockIds \ DOMAIN sockets /\ ctx # 0 /\ ret' = "SUCCESS"
        /\ DOMAIN sockets' = DOMAIN sockets \cup {ctx} /\ sockets'[ctx] = protocol
        /\ \A x \in DOMAIN sockets : sockets'[x] = sockets[x]
    BY <1>3, SocketAssumption DEF SocketOpen, With
  <2> DEFINE rec == [h |-> [ctx |-> ctx, socket |-> protocol], blen |-> sock_size]
  <2>2. handles' = [handles EXCEPT ![v] = rec] /\ inUse' = [inUse EXCEPT ![v] = protocol]
    BY <2>1 DEF Opened
  <2>3. rec \in SockRecords /\ rec.h # NoSocket /\ rec.h.ctx = ctx /\ rec.blen = sock_size
    BY <1>1, <2>1 DEF SockRecords, NoSocket, Protocols
  <2> HIDE DEF rec
  <2>4. /\ handles' \in [SockHandles -> SockRecords]
        /\ inUse' \in [SockHandles -> Protocols \cup {"none"}]
        /\ \A w \in SockHandles : /\ handles'[w] = IF w = v THEN rec ELSE handles[w]
                                  /\ inUse'[w] = IF w = v THEN protocol ELSE inUse[w]
    BY <2>2, <2>3 DEF SocketInv
  <2>5. protocol # "none"
    BY DEF Protocols
  <2>6. ASSUME Connected PROVE Connected'
    <3>1. ASSUME NEW w \in SockHandles, inUse'[w] # "none"
          PROVE  /\ handles'[w].h.ctx \in DOMAIN sockets'
                 /\ sockets'[handles'[w].h.ctx] = inUse'[w]
                 /\ w # v => handles'[w].h.ctx # ctx
      BY <2>1, <2>3, <2>4, <2>6, <3>1 DEF Connected
    <3>2. ASSUME NEW w \in SockHandles, NEW u \in SockHandles,
                 inUse'[w] # "none", inUse'[u] # "none", w # u
          PROVE  handles'[w].h.ctx # handles'[u].h.ctx
      BY <2>3, <2>4, <2>6, <3>1, <3>2 DEF Connected
    <3>3. ASSUME NEW x \in DOMAIN sockets'
          PROVE  \E w \in SockHandles : inUse'[w] # "none" /\ handles'[w].h.ctx = x
      BY <2>1, <2>3, <2>4, <2>5, <2>6 DEF Connected
    <3>4. QED
      BY <3>1, <3>2, <3>3 DEF Connected
  <2>7. DOMAIN sockets' \subseteq SockIds
    BY <2>1 DEF SocketInv
  <2>8. ASSUME NEW w \in SockHandles
        PROVE  /\ inUse'[w] # "none" => handles'[w].h # NoSocket /\ handles'[w].blen = sock_size
               /\ handles'[w].h = NoSocket => handles'[w].blen \in {0, BufSize}
               /\ handles'[w].h # NoSocket => handles'[w].h.ctx # 0
    BY <2>1, <2>3, <2>4 DEF SocketInv
  <2>9. QED
    BY <1>2, <2>4, <2>6, <2>7, <2>8 DEF SocketInv
<1>4. CASE ctx = 0 /\ UNCHANGED sockets /\ ret' \in {"OUT_OF_MEMORY"} \cup NetworkErrors
  <2>1. ret' # "SUCCESS" /\ ret' # "SHORT_BUFFER"
    BY <1>4 DEF NetworkErrors
  <2> DEFINE rec == [h |-> NoSocket, blen |-> BufSize]
  <2>2. handles' = [handles EXCEPT ![v] = rec] /\ inUse' = [inUse EXCEPT ![v] = "none"]
    BY <1>4, <2>1 DEF Opened
  <2>3. rec \in SockRecords /\ rec.h = NoSocket /\ rec.blen = BufSize
    BY <1>1 DEF SockRecords, NoSocket, Protocols
  <2> HIDE DEF rec
  <2>4. /\ handles' \in [SockHandles -> SockRecords] /\ inUse' = inUse
        /\ \A w \in SockHandles : handles'[w] = IF w = v THEN rec ELSE handles[w]
    BY <2>2, <2>3 DEF SocketInv
  <2>5. \A w \in SockHandles : inUse[w] # "none" => handles'[w] = handles[w]
    BY <2>4
  <2>6. Connected => Connected'
    BY <1>4, <2>4, <2>5 DEF Connected
  <2>7. ASSUME NEW w \in SockHandles
        PROVE  /\ inUse'[w] # "none" => handles'[w].h # NoSocket /\ handles'[w].blen = sock_size
               /\ handles'[w].h = NoSocket => handles'[w].blen \in {0, BufSize}
               /\ handles'[w].h # NoSocket => handles'[w].h.ctx # 0
    BY <2>3, <2>4 DEF SocketInv
  <2>8. QED
    BY <1>2, <1>4, <2>4, <2>6, <2>7 DEF SocketInv
<1>5. QED
  BY <1>1, <1>3, <1>4 DEF OpenWith

\* The three ways a command on a socket ends.
LEMMA OnSocketEnds ==
    ASSUME SocketInv, alive, NEW v \in SockHandles,
           \/ ta_entry_send(handles[v].h, handles[v].blen)
           \/ ta_entry_recv(handles[v].h, handles[v].blen)
           \/ ta_entry_error(handles[v].h, handles[v].blen)
           \/ ta_entry_ioctl(handles[v].h, handles[v].blen)
    PROVE  Answers \/ SocketDies(v)
BY DEF ta_entry_send, ta_entry_recv, ta_entry_error, ta_entry_ioctl, OnSocket, Transfers,
       Answers, SocketDies, SizeMatches, TEE_Panic

\* Every command of the socket TA and its client library keeps their part of the invariant.
LEMMA SocketStep ==
    ASSUME SocketInv, alive, SocketCommand
    PROVE  SocketInv' /\ alive' \in BOOLEAN
<1>1. CASE UnknownSocketCommand /\ UNCHANGED <<sock_size, libSocketVars>>
  BY <1>1 DEF UnknownSocketCommand, libSocketVars, SocketInv, Connected
<1>2. ASSUME NEW v \in SockHandles, socket_tcp_open(v)
      PROVE  SocketInv' /\ alive' \in BOOLEAN
  BY <1>2, OpenedSocket DEF socket_tcp_open, ta_entry_tcp_open, Protocols
<1>3. ASSUME NEW v \in SockHandles, socket_udp_open(v)
      PROVE  SocketInv' /\ alive' \in BOOLEAN
  BY <1>3, OpenedSocket DEF socket_udp_open, ta_entry_udp_open, Protocols
<1>4. ASSUME NEW v \in SockHandles,
             socket_send(v) \/ socket_recv(v) \/ socket_get_error(v) \/ socket_ioctl(v)
      PROVE  SocketInv' /\ alive' \in BOOLEAN
  <2>1. Answers \/ SocketDies(v)
    BY <1>4, OnSocketEnds DEF socket_send, socket_recv, socket_get_error, socket_ioctl
  <2>2. Passes(v) /\ UNCHANGED inUse
    BY <1>4 DEF socket_send, socket_recv, socket_get_error, socket_ioctl
  <2>3. CASE Answers
    <3>1. SocketInv'
      BY <2>2, <2>3, PassedSocket
    <3>2. QED
      BY <2>3, <3>1 DEF Answers
  <2>4. CASE SocketDies(v)
    <3>1. inUse' \in [SockHandles -> Protocols \cup {"none"}]
          /\ \A w \in SockHandles : inUse'[w] # "none" => inUse'[w] = inUse[w]
      BY <2>2 DEF SocketInv
    <3>2. SocketInv'
      BY <2>2, <2>4, <3>1, DeadSocket
    <3>3. QED
      BY <2>4, <3>2 DEF SocketDies
  <2>5. QED
    BY <2>1, <2>3, <2>4
<1>5. ASSUME NEW v \in SockHandles, socket_close(v)
      PROVE  SocketInv' /\ alive' \in BOOLEAN
  <2>1. Passes(v) /\ inUse' = [inUse EXCEPT ![v] = "none"]
    BY <1>5 DEF socket_close
  <2>2. \/ Answers /\ (handles[v].blen # sock_size \/ handles[v].h.ctx \notin DOMAIN sockets)
        \/ SocketDies(v)
        \/ Closes(v)
    BY <1>5 DEF socket_close, ta_entry_close, OnSocket, SocketClose, Answers, SocketDies, Closes,
                SizeMatches, TEE_Panic
  <2>3. CASE Answers /\ (handles[v].blen # sock_size \/ handles[v].h.ctx \notin DOMAIN sockets)
    <3>1. SocketInv'
      BY <2>1, <2>3, RefusedClose
    <3>2. QED
      BY <2>3, <3>1 DEF Answers
  <2>4. CASE SocketDies(v)
    <3>1. inUse' \in [SockHandles -> Protocols \cup {"none"}]
          /\ \A w \in SockHandles : inUse'[w] # "none" => inUse'[w] = inUse[w]
      BY <2>1 DEF SocketInv
    <3>2. SocketInv'
      BY <2>1, <2>4, <3>1, DeadSocket
    <3>3. QED
      BY <2>4, <3>2 DEF SocketDies
  <2>5. CASE Closes(v)
    <3>1. SocketInv'
      BY <2>1, <2>5, ClosedSocket
    <3>2. QED
      BY <2>5, <3>1 DEF Closes
  <2>6. QED
    BY <2>2, <2>3, <2>4, <2>5
<1>6. QED
  BY <1>1, <1>2, <1>3, <1>4, <1>5 DEF SocketCommand

-----------------------------------------------------------------------------
(***************************************************************************)
(* The crypt TA.  A handle value stands for one address, so that what is   *)
(* done to the operation or object at the address and what the client does *)
(* to the entry of the value agree.                                        *)
(***************************************************************************)

Addrs == OpAddrs \cup ObjAddrs
Vals == OpVals \cup ObjVals

\* Addresses and values correspond one to one, and the null handle to itself.
LEMMA HandleFacts ==
    /\ \A h \in Addrs : HANDLE2VAL(h) \in Vals /\ VAL2HANDLE(HANDLE2VAL(h)) = h
    /\ \A v \in Vals : HANDLE2VAL(VAL2HANDLE(v)) = v /\ VAL2HANDLE(v) \in Addrs \cup {TEE_HANDLE_NULL}
    /\ TEE_HANDLE_NULL \notin Addrs
<1>1. \A a \in Nat, m \in Nat : a < m => a % m = a
  OBVIOUS
<1>2. ASSUME NEW h \in Addrs
      PROVE  /\ h # TEE_HANDLE_NULL /\ HANDLE2VAL(h) = h - TaHead /\ HANDLE2VAL(h) # TEE_HANDLE_NULL
             /\ VAL2HANDLE(HANDLE2VAL(h)) = h
  <2>1. /\ h \in Nat /\ h # TEE_HANDLE_NULL /\ TaHead \in Nat /\ ValMod \in Nat
        /\ h > TaHead /\ h < TaHead + ValMod
    BY TeeCryptoAssumption, CryptTaAssumption DEF Addrs
  <2>2. h - TaHead \in Nat /\ h - TaHead < ValMod /\ h - TaHead # 0
    BY <2>1
  <2>3. HANDLE2VAL(h) = h - TaHead
    BY <1>1, <2>1, <2>2 DEF HANDLE2VAL
  <2>4. VAL2HANDLE(h - TaHead) = h
    BY <2>1, <2>2 DEF VAL2HANDLE, TEE_HANDLE_NULL
  <2>5. QED
    BY <2>1, <2>2, <2>3, <2>4 DEF TEE_HANDLE_NULL
<1>3. \A h \in Addrs : HANDLE2VAL(h) \in Vals
  BY DEF Addrs, Vals, OpVals, ObjVals
<1>4. VAL2HANDLE(0) = 0 /\ HANDLE2VAL(0) = 0
  BY DEF VAL2HANDLE, HANDLE2VAL, TEE_HANDLE_NULL
<1>5. ASSUME NEW v \in Vals PROVE v = 0 \/ \E h \in Addrs : v = HANDLE2VAL(h)
  BY DEF Addrs, Vals, OpVals, ObjVals
<1>6. QED
  BY <1>2, <1>3, <1>4, <1>5 DEF TEE_HANDLE_NULL

\* The values of the addresses in a set.
LEMMA KnownFacts ==
    ASSUME NEW live, DOMAIN live \subseteq Addrs
    PROVE  /\ DOMAIN Known(live) \subseteq Vals
           /\ \A v \in Vals : v \in DOMAIN Known(live) <=> VAL2HANDLE(v) \in DOMAIN live
           /\ \A v \in DOMAIN Known(live) : Known(live)[v] = live[VAL2HANDLE(v)]
           /\ Known(live) = [v \in DOMAIN Known(live) |-> Known(live)[v]]
BY HandleFacts DEF Known

\* A function is what is known of another one when its entries are the other's.
LEMMA KnownIs ==
    ASSUME NEW live, DOMAIN live \subseteq Addrs,
           NEW f, f = [v \in DOMAIN f |-> f[v]], DOMAIN f \subseteq Vals,
           \A v \in Vals : v \in DOMAIN f <=> VAL2HANDLE(v) \in DOMAIN live,
           \A v \in DOMAIN f : f[v] = live[VAL2HANDLE(v)]
    PROVE  f = Known(live)
<1>1. DOMAIN Known(live) = DOMAIN f
  BY KnownFacts
<1>2. \A v \in DOMAIN f : Known(live)[v] = f[v]
  BY <1>1, KnownFacts
<1>3. Known(live) = [v \in DOMAIN Known(live) |-> Known(live)[v]]
  BY KnownFacts
<1>4. QED
  BY <1>1, <1>2, <1>3

\* Of nothing nothing is known.
LEMMA KnownOfNothing == Known(<< >>) = << >>
<1>1. DOMAIN << >> = {}
  BY EmptyFunction
<1>2. {HANDLE2VAL(h) : h \in {}} = {}
  OBVIOUS
<1>3. DOMAIN Known(<< >>) = {} /\ Known(<< >>) = [v \in DOMAIN Known(<< >>) |-> Known(<< >>)[v]]
  BY <1>1, <1>2 DEF Known
<1>4. QED
  BY <1>3, EmptyFunction

\* A function with another value at a.
Changed(f, a, x) == [f EXCEPT ![a] = x]

\* An entry is changed.
LEMMA KnownExcept ==
    ASSUME NEW live, DOMAIN live \subseteq Addrs, NEW v \in Vals, VAL2HANDLE(v) \in DOMAIN live, NEW x
    PROVE  Changed(Known(live), v, x) = Known(Changed(live, VAL2HANDLE(v), x))
<1> DEFINE after == [live EXCEPT ![VAL2HANDLE(v)] = x]
           f == [Known(live) EXCEPT ![v] = x]
<1>1. DOMAIN after = DOMAIN live /\ DOMAIN f = DOMAIN Known(live)
  OBVIOUS
<1>2. ASSUME NEW w \in DOMAIN f PROVE f[w] = after[VAL2HANDLE(w)]
  <2>1. w \in Vals /\ VAL2HANDLE(w) \in DOMAIN live /\ Known(live)[w] = live[VAL2HANDLE(w)]
    BY <1>1, <1>2, KnownFacts
  <2>2. CASE w = v
    BY <2>1, <2>2
  <2>3. CASE w # v
    <3>1. VAL2HANDLE(w) # VAL2HANDLE(v)
      BY <2>1, <2>3, HandleFacts
    <3>2. QED
      BY <2>1, <2>3, <3>1
  <2>4. QED
    BY <2>2, <2>3
<1>3. f = [w \in DOMAIN f |-> f[w]]
  OBVIOUS
<1> HIDE DEF after, f
<1>4. \A w \in Vals : w \in DOMAIN f <=> VAL2HANDLE(w) \in DOMAIN after
  BY <1>1, KnownFacts
<1>5. DOMAIN f \subseteq Vals /\ DOMAIN after \subseteq Addrs
  BY <1>1, KnownFacts
<1>6. f = Known(after)
  BY <1>2, <1>3, <1>4, <1>5, KnownIs
<1>7. QED
  BY <1>6 DEF after, f, Changed

\* An entry is added.
LEMMA KnownWith ==
    ASSUME NEW live, DOMAIN live \subseteq Addrs, NEW h \in Addrs, NEW x
    PROVE  With(Known(live), HANDLE2VAL(h), x) = Known(With(live, h, x))
<1> DEFINE after == With(live, h, x)
           v == HANDLE2VAL(h)
           f == With(Known(live), v, x)
<1>1. DOMAIN after = DOMAIN live \cup {h} /\ DOMAIN f = DOMAIN Known(live) \cup {v}
  BY DEF With
<1>2. v \in Vals /\ VAL2HANDLE(v) = h
  BY HandleFacts
<1>3. \A w \in Vals : VAL2HANDLE(w) = h <=> w = v
  BY <1>2, HandleFacts
<1>4. f = [w \in DOMAIN f |-> f[w]]
  BY DEF With
<1>5. ASSUME NEW w \in DOMAIN f PROVE f[w] = after[VAL2HANDLE(w)]
  <2>1. w \in Vals
    BY <1>1, <1>2, <1>5, KnownFacts
  <2>2. CASE w = v
    BY <1>1, <1>2, <2>2 DEF With
  <2>3. CASE w # v
    <3>1. w \in DOMAIN Known(live) /\ VAL2HANDLE(w) # h
      BY <1>1, <1>3, <1>5, <2>1, <2>3
    <3>2. VAL2HANDLE(w) \in DOMAIN live /\ Known(live)[w] = live[VAL2HANDLE(w)]
      BY <2>1, <3>1, KnownFacts
    <3>3. QED
      BY <2>3, <3>1, <3>2 DEF With
  <2>4. QED
    BY <2>2, <2>3
<1> HIDE DEF after, f, v
<1>6. \A w \in Vals : w \in DOMAIN f <=> VAL2HANDLE(w) \in DOMAIN after
  BY <1>1, <1>3, KnownFacts
<1>7. DOMAIN f \subseteq Vals /\ DOMAIN after \subseteq Addrs
  BY <1>1, <1>2, KnownFacts
<1>8. f = Known(after)
  BY <1>4, <1>5, <1>6, <1>7, KnownIs
<1>9. QED
  BY <1>8 DEF after, f, v

\* An entry is removed; there may be none, as for the null handle.
LEMMA KnownWithout ==
    ASSUME NEW live, DOMAIN live \subseteq Addrs, NEW v \in Vals
    PROVE  Without(Known(live), {v}) = Known(Without(live, {VAL2HANDLE(v)}))
<1> DEFINE after == Without(live, {VAL2HANDLE(v)})
           f == Without(Known(live), {v})
<1>1. DOMAIN after = DOMAIN live \ {VAL2HANDLE(v)} /\ DOMAIN f = DOMAIN Known(live) \ {v}
  BY DEF Without
<1>2. \A w \in Vals : VAL2HANDLE(w) = VAL2HANDLE(v) <=> w = v
  BY HandleFacts
<1>3. f = [w \in DOMAIN f |-> f[w]]
  BY DEF Without
<1>4. ASSUME NEW w \in DOMAIN f PROVE f[w] = after[VAL2HANDLE(w)]
  <2>1. w \in DOMAIN Known(live) /\ w # v /\ w \in Vals
    BY <1>1, <1>4, KnownFacts
  <2>2. VAL2HANDLE(w) \in DOMAIN live /\ VAL2HANDLE(w) # VAL2HANDLE(v)
        /\ Known(live)[w] = live[VAL2HANDLE(w)]
    BY <1>2, <2>1, KnownFacts
  <2>3. QED
    BY <2>1, <2>2 DEF Without
<1> HIDE DEF after, f
<1>5. \A w \in Vals : w \in DOMAIN f <=> VAL2HANDLE(w) \in DOMAIN after
  BY <1>1, <1>2, KnownFacts
<1>6. DOMAIN f \subseteq Vals /\ DOMAIN after \subseteq Addrs
  BY <1>1, KnownFacts
<1>7. f = Known(after)
  BY <1>3, <1>4, <1>5, <1>6, KnownIs
<1>8. QED
  BY <1>7 DEF after, f

\* An entry is emptied, when there is one.
LEMMA KnownReset ==
    ASSUME NEW live, DOMAIN live \subseteq Addrs, NEW v \in Vals, NEW x
    PROVE  [w \in DOMAIN Known(live) |-> IF w = v THEN x ELSE Known(live)[w]]
             = Known([h \in DOMAIN live |-> IF h = VAL2HANDLE(v) THEN x ELSE live[h]])
<1> DEFINE after == [h \in DOMAIN live |-> IF h = VAL2HANDLE(v) THEN x ELSE live[h]]
           f == [w \in DOMAIN Known(live) |-> IF w = v THEN x ELSE Known(live)[w]]
<1>1. DOMAIN after = DOMAIN live /\ DOMAIN f = DOMAIN Known(live)
  OBVIOUS
<1>2. \A w \in Vals : VAL2HANDLE(w) = VAL2HANDLE(v) <=> w = v
  BY HandleFacts
<1>3. f = [w \in DOMAIN f |-> f[w]]
  OBVIOUS
<1>4. ASSUME NEW w \in DOMAIN f PROVE f[w] = after[VAL2HANDLE(w)]
  <2>1. /\ w \in DOMAIN Known(live) /\ w \in Vals /\ VAL2HANDLE(w) \in DOMAIN live
        /\ Known(live)[w] = live[VAL2HANDLE(w)]
    BY <1>1, <1>4, KnownFacts
  <2>2. QED
    BY <1>2, <2>1
<1> HIDE DEF after, f
<1>5. \A w \in Vals : w \in DOMAIN f <=> VAL2HANDLE(w) \in DOMAIN after
  BY <1>1, KnownFacts
<1>6. DOMAIN f \subseteq Vals /\ DOMAIN after \subseteq Addrs
  BY <1>1, KnownFacts
<1>7. f = Known(after)
  BY <1>3, <1>4, <1>5, <1>6, KnownIs
<1>8. QED
  BY <1>7 DEF after, f

-----------------------------------------------------------------------------
\* How a command of the crypt TA ends, and what the client then makes of it: nothing is
\* left, nothing has changed, or what it takes to be there is what is there.
Dies == TEE_Panic /\ reply'.res = "TARGET_DEAD"
Refused == UNCHANGED <<ops, objs, alive>> /\ reply'.res \notin {"SUCCESS", "TARGET_DEAD"}
Done(opsIfDone, objsIfDone) ==
    /\ reply'.res = "SUCCESS" /\ UNCHANGED alive
    /\ opsIfDone = Known(ops') /\ objsIfDone = Known(objs')
    /\ DOMAIN ops' \subseteq OpAddrs /\ DOMAIN objs' \subseteq ObjAddrs
    /\ ops' \in [DOMAIN ops' -> Operations]

\* The three ends keep the part of the invariant.
LEMMA Learned ==
    ASSUME CryptInv, alive, NEW opsIfDone, NEW objsIfDone, Learn(opsIfDone, objsIfDone),
           Dies \/ Refused \/ Done(opsIfDone, objsIfDone)
    PROVE  CryptInv' /\ alive' \in BOOLEAN
<1>1. CASE Dies
  <2>1. ops' = << >> /\ objs' = << >> /\ alive' = FALSE /\ knownOps' = << >> /\ knownObjs' = << >>
    BY <1>1 DEF Dies, TEE_Panic, Learn
  <2>2. << >> \in [{} -> Operations]
    OBVIOUS
  <2>3. QED
    BY <2>1, <2>2, EmptyFunction, KnownOfNothing DEF CryptInv
<1>2. CASE Refused
  <2>1. knownOps' = knownOps /\ knownObjs' = knownObjs /\ UNCHANGED <<ops, objs, alive>>
    BY <1>2 DEF Refused, Learn
  <2>2. QED
    BY <2>1 DEF CryptInv
<1>3. CASE Done(opsIfDone, objsIfDone)
  <2>1. knownOps' = opsIfDone /\ knownObjs' = objsIfDone
    BY <1>3 DEF Done, Learn
  <2>2. QED
    BY <1>3, <2>1 DEF CryptInv, Done
<1>4. QED
  BY <1>1, <1>2, <1>3

\* An operation is changed to another one of its kind.
LEMMA OperationChanged ==
    ASSUME CryptInv, NEW v \in OpVals, VAL2HANDLE(v) \in DOMAIN ops, NEW x \in Operations,
           ops' = [ops EXCEPT ![VAL2HANDLE(v)] = x]
    PROVE  /\ [knownOps EXCEPT ![v] = x] = Known(ops')
           /\ DOMAIN ops' \subseteq OpAddrs /\ ops' \in [DOMAIN ops' -> Operations]
<1>1. v \in Vals /\ DOMAIN ops \subseteq Addrs
  BY DEF Vals, Addrs, CryptInv
<1>2. Changed(Known(ops), v, x) = Known(Changed(ops, VAL2HANDLE(v), x))
  BY <1>1, KnownExcept
<1>3. knownOps = Known(ops) /\ ops' = Changed(ops, VAL2HANDLE(v), x)
      /\ [knownOps EXCEPT ![v] = x] = Changed(knownOps, v, x)
  BY DEF CryptInv, Changed
<1>4. DOMAIN ops' = DOMAIN ops /\ ops' \in [DOMAIN ops' -> Operations]
  BY DEF CryptInv
<1>5. QED
  BY <1>2, <1>3, <1>4 DEF CryptInv

\* What the client has of an operation is the operation.
LEMMA OperationKnown ==
    ASSUME CryptInv, NEW v \in OpVals, VAL2HANDLE(v) \in DOMAIN ops
    PROVE  knownOps[v] = ops[VAL2HANDLE(v)] /\ ops[VAL2HANDLE(v)] \in Operations
<1>1. v \in Vals /\ DOMAIN ops \subseteq Addrs
  BY DEF Vals, Addrs, CryptInv
<1>2. QED
  BY <1>1, KnownFacts DEF CryptInv

\* An operation is changed to another state.
LEMMA StateSet ==
    ASSUME CryptInv, NEW v \in OpVals, NEW s \in OpStates, VAL2HANDLE(v) \in DOMAIN ops,
           SetState(VAL2HANDLE(v), s)
    PROVE  /\ InKnown(v, s) = Known(ops')
           /\ DOMAIN ops' \subseteq OpAddrs /\ ops' \in [DOMAIN ops' -> Operations]
<1> DEFINE x == [ops[VAL2HANDLE(v)] EXCEPT !.state = s]
<1>1. ops[VAL2HANDLE(v)] \in Operations /\ knownOps[v] = ops[VAL2HANDLE(v)]
  BY OperationKnown
<1>2. x \in Operations
  BY <1>1 DEF Operations
<1>3. ops' = [ops EXCEPT ![VAL2HANDLE(v)] = x]
  BY DEF SetState
<1>4. InKnown(v, s) = [knownOps EXCEPT ![v] = x]
  BY <1>1 DEF InKnown
<1>5. QED
  BY <1>2, <1>3, <1>4, OperationChanged

\* A command that changes the state of an operation.
LEMMA StateChanged ==
    ASSUME CryptInv, alive, NEW v \in OpVals, NEW s \in OpStates,
           \/ /\ VAL2HANDLE(v) \in DOMAIN ops /\ SetState(VAL2HANDLE(v), s)
              /\ UNCHANGED alive /\ reply'.res = "SUCCESS"
           \/ Refused
           \/ Dies
    PROVE  Dies \/ Refused \/ Done(InKnown(v, s), knownObjs)
<1>1. SUFFICES ASSUME VAL2HANDLE(v) \in DOMAIN ops, SetState(VAL2HANDLE(v), s),
                      UNCHANGED alive, reply'.res = "SUCCESS"
               PROVE  Done(InKnown(v, s), knownObjs)
  OBVIOUS
<1>2. /\ InKnown(v, s) = Known(ops')
      /\ DOMAIN ops' \subseteq OpAddrs /\ ops' \in [DOMAIN ops' -> Operations]
  BY <1>1, StateSet
<1>3. UNCHANGED objs
  BY <1>1 DEF SetState
<1>4. QED
  BY <1>1, <1>2, <1>3 DEF Done, CryptInv

\* The client takes an operation to be in the state it is in.
LEMMA StateKept ==
    ASSUME CryptInv, NEW v \in OpVals, VAL2HANDLE(v) \in DOMAIN ops, NEW s,
           ops[VAL2HANDLE(v)].state = s, UNCHANGED <<ops, objs, alive>>, reply'.res = "SUCCESS"
    PROVE  Done(InKnown(v, s), knownObjs)
<1>1. ops[VAL2HANDLE(v)] \in Operations /\ knownOps[v] = ops[VAL2HANDLE(v)]
  BY OperationKnown
<1>2. [ops[VAL2HANDLE(v)] EXCEPT !.state = s] = ops[VAL2HANDLE(v)]
  BY <1>1 DEF Operations
<1>3. knownOps = [w \in DOMAIN knownOps |-> knownOps[w]]
  BY DEF CryptInv, Known
<1>4. InKnown(v, s) = knownOps
  BY <1>1, <1>2, <1>3 DEF InKnown
<1>5. QED
  BY <1>4 DEF CryptInv, Done

\* A command that takes a free address.
LEMMA AllocatedOperation ==
    ASSUME CryptInv, alive, NEW class \in Classes, ta_crypt_cmd_allocate_operation(class)
    PROVE  CryptInv' /\ strayed' = {} /\ alive' \in BOOLEAN
<1>1. PICK op \in OpAddrs \cup {TEE_HANDLE_NULL} :
          TEE_AllocateOperation(class, op) /\ Answer(ret', HANDLE2VAL(op)) /\ strayed' = {}
  BY DEF ta_crypt_cmd_allocate_operation, ta_entry_allocate_operation
<1>2. Learn(With(knownOps, reply'.a, NewOperation(class)), knownObjs)
  BY DEF ta_crypt_cmd_allocate_operation
<1>3. CASE op \in NewOps /\ ops' = With(ops, op, NewOperation(class)) /\ ret' = "SUCCESS"
           /\ UNCHANGED <<objs, alive>>
  <2>1. reply'.a = HANDLE2VAL(op) /\ reply'.res = "SUCCESS"
    BY <1>1, <1>3 DEF Answer
  <2>2. op \in Addrs /\ op \in OpAddrs /\ DOMAIN ops \subseteq Addrs
    BY <1>3 DEF NewOps, Addrs, CryptInv
  <2>3. With(knownOps, reply'.a, NewOperation(class)) = Known(ops')
    BY <1>3, <2>1, <2>2, KnownWith DEF CryptInv
  <2>4. NewOperation(class) \in Operations
    BY DEF NewOperation, Operations, OpStates
  <2>5. DOMAIN ops' = DOMAIN ops \cup {op} /\ ops' \in [DOMAIN ops' -> Operations]
    BY <1>3, <2>4 DEF With, CryptInv
  <2>6. Done(With(knownOps, reply'.a, NewOperation(class)), knownObjs)
    BY <1>3, <2>1, <2>2, <2>3, <2>5 DEF Done, CryptInv
  <2>7. QED
    BY <1>1, <1>2, <2>6, Learned
<1>4. CASE ret' \in {"OUT_OF_MEMORY", "NOT_SUPPORTED"} /\ UNCHANGED <<ops, objs, alive>>
  <2>1. Refused
    BY <1>1, <1>4 DEF Answer, Refused
  <2>2. QED
    BY <1>1, <1>2, <2>1, Learned
<1>5. QED
  BY <1>1, <1>3, <1>4 DEF TEE_AllocateOperation

\* TEE_FreeOperation forgets an address.
LEMMA FreedOperation ==
    ASSUME CryptInv, alive, NEW v \in OpVals, ta_crypt_cmd_free_operation(v)
    PROVE  CryptInv' /\ strayed' = {} /\ alive' \in BOOLEAN
<1>1. strayed' = {} /\ Learn(Without(knownOps, {v}), knownObjs)
  BY DEF ta_crypt_cmd_free_operation, ta_entry_free_operation, ReturnsSuccess
<1>2. \/ /\ ops' = Without(ops, {VAL2HANDLE(v)}) /\ UNCHANGED <<objs, alive>>
         /\ reply'.res = "SUCCESS"
      \/ Dies
  BY DEF ta_crypt_cmd_free_operation, ta_entry_free_operation, ReturnsSuccess, TEE_FreeOperation,
         Checked, TEE_Panic, Dies, Answer
<1>3. CASE ops' = Without(ops, {VAL2HANDLE(v)}) /\ UNCHANGED <<objs, alive>> /\ reply'.res = "SUCCESS"
  <2>1. v \in Vals /\ DOMAIN ops \subseteq Addrs /\ knownOps = Known(ops)
    BY DEF Vals, Addrs, CryptInv
  <2>2. Without(Known(ops), {v}) = Known(Without(ops, {VAL2HANDLE(v)}))
    BY <2>1, KnownWithout
  <2>3. Without(knownOps, {v}) = Known(ops')
    BY <1>3, <2>1, <2>2
  <2>4. DOMAIN ops' \subseteq DOMAIN ops /\ ops' \in [DOMAIN ops' -> Operations]
    BY <1>3 DEF Without, CryptInv
  <2>5. Done(Without(knownOps, {v}), knownObjs)
    BY <1>3, <2>3, <2>4 DEF Done, CryptInv
  <2>6. QED
    BY <1>1, <2>5, Learned
<1>4. QED
  BY <1>1, <1>2, <1>3, Learned

\* The copy has the class and the state of the original, for the client as for the TA.
LEMMA CopiedOperation ==
    ASSUME CryptInv, alive, NEW v \in OpVals, NEW w \in OpVals, ta_crypt_cmd_copy_operation(v, w)
    PROVE  CryptInv' /\ strayed' = {} /\ alive' \in BOOLEAN
<1>1. strayed' = {} /\ Learn([knownOps EXCEPT ![v] = knownOps[w]], knownObjs)
  BY DEF ta_crypt_cmd_copy_operation, ta_entry_copy_operation, ReturnsSuccess
<1>2. \/ /\ VAL2HANDLE(v) \in DOMAIN ops /\ VAL2HANDLE(w) \in DOMAIN ops
         /\ ops' = [ops EXCEPT ![VAL2HANDLE(v)] = ops[VAL2HANDLE(w)]]
         /\ UNCHANGED <<objs, alive>> /\ reply'.res = "SUCCESS"
      \/ Dies
  BY DEF ta_crypt_cmd_copy_operation, ta_entry_copy_operation, ReturnsSuccess, TEE_CopyOperation,
         Checked, TEE_Panic, Dies, Answer
<1>3. CASE /\ VAL2HANDLE(v) \in DOMAIN ops /\ VAL2HANDLE(w) \in DOMAIN ops
           /\ ops' = [ops EXCEPT ![VAL2HANDLE(v)] = ops[VAL2HANDLE(w)]]
           /\ UNCHANGED <<objs, alive>> /\ reply'.res = "SUCCESS"
  <2>1. knownOps[w] = ops[VAL2HANDLE(w)] /\ ops[VAL2HANDLE(w)] \in Operations
    BY <1>3, OperationKnown
  <2>2. /\ [knownOps EXCEPT ![v] = knownOps[w]] = Known(ops')
        /\ DOMAIN ops' \subseteq OpAddrs /\ ops' \in [DOMAIN ops' -> Operations]
    BY <1>3, <2>1, OperationChanged
  <2>3. Done([knownOps EXCEPT ![v] = knownOps[w]], knownObjs)
    BY <1>3, <2>2 DEF Done, CryptInv
  <2>4. QED
    BY <1>1, <2>3, Learned
<1>4. QED
  BY <1>1, <1>2, <1>3, Learned

\* The commands that leave an operation ready: reset and the keys.
LEMMA ReadyOperation ==
    ASSUME CryptInv, alive, NEW v \in OpVals, NEW k1 \in ObjVals, NEW k2 \in ObjVals,
           \/ ta_crypt_cmd_reset_operation(v)
           \/ ta_crypt_cmd_set_operation_key(v, k1)
           \/ ta_crypt_cmd_set_operation_key2(v, k1, k2)
    PROVE  CryptInv' /\ strayed' = {} /\ alive' \in BOOLEAN
<1>1. strayed' = {} /\ Learn(InKnown(v, "ready"), knownObjs)
  BY DEF ta_crypt_cmd_reset_operation, ta_crypt_cmd_set_operation_key, ta_crypt_cmd_set_operation_key2,
         ta_entry_reset_operation, ta_entry_set_operation_key, ta_entry_set_operation_key2,
         ReturnsSuccess, ReturnsResult
<1>2. CASE ta_crypt_cmd_reset_operation(v)
  <2>1. \/ /\ VAL2HANDLE(v) \in DOMAIN ops /\ SetState(VAL2HANDLE(v), "ready")
           /\ UNCHANGED alive /\ reply'.res = "SUCCESS"
        \/ Dies
    BY <1>2 DEF ta_crypt_cmd_reset_operation, ta_entry_reset_operation, ReturnsSuccess,
                TEE_ResetOperation, Checked, TEE_Panic, Dies, Answer
  <2>2. QED
    BY <1>1, <2>1, StateChanged, Learned DEF OpStates
<1>3. ASSUME NEW keys, TEE_SetOperationKeys(VAL2HANDLE(v), keys), ReturnsResult
      PROVE  \/ /\ VAL2HANDLE(v) \in DOMAIN ops /\ SetState(VAL2HANDLE(v), "ready")
                /\ UNCHANGED alive /\ reply'.res = "SUCCESS"
             \/ Refused
             \/ Dies
  BY <1>3 DEF TEE_SetOperationKeys, ReturnsResult, Checked, TEE_Panic, Dies, Refused, Answer
<1>4. CASE ta_crypt_cmd_set_operation_key(v, k1) \/ ta_crypt_cmd_set_operation_key2(v, k1, k2)
  <2>1. PICK keys : TEE_SetOperationKeys(VAL2HANDLE(v), keys) /\ ReturnsResult
    BY <1>4 DEF ta_crypt_cmd_set_operation_key, ta_crypt_cmd_set_operation_key2,
                ta_entry_set_operation_key, ta_entry_set_operation_key2
  <2>2. QED
    BY <1>1, <1>3, <2>1, StateChanged, Learned DEF OpStates
<1>5. QED
  BY <1>2, <1>4

\* The commands that begin to use an operation.
LEMMA StartedOperation ==
    ASSUME CryptInv, alive, NEW v \in OpVals, ta_crypt_cmd_init(v)
    PROVE  CryptInv' /\ strayed' = {} /\ alive' \in BOOLEAN
<1>1. strayed' = {} /\ Learn(InKnown(v, "active"), knownObjs)
  BY DEF ta_crypt_cmd_init, ta_entry_cipher_init, ta_entry_mac_init, ta_entry_ae_init,
         ReturnsSuccess, ReturnsResult
<1>2. PICK class \in {"cipher", "mac", "ae"} :
          /\ StartOperation(VAL2HANDLE(v), class)
          /\ (ReturnsSuccess /\ class # "ae") \/ ReturnsResult
  BY DEF ta_crypt_cmd_init, ta_entry_cipher_init, ta_entry_mac_init, ta_entry_ae_init
<1>3. \/ /\ VAL2HANDLE(v) \in DOMAIN ops /\ SetState(VAL2HANDLE(v), "active")
         /\ UNCHANGED alive /\ reply'.res = "SUCCESS"
      \/ Refused
      \/ Dies
  <2>1. \/ /\ VAL2HANDLE(v) \in DOMAIN ops /\ SetState(VAL2HANDLE(v), "active")
           /\ UNCHANGED alive /\ ret' = "SUCCESS"
        \/ class = "ae" /\ ret' = "NOT_SUPPORTED" /\ UNCHANGED <<ops, objs, alive>>
        \/ TEE_Panic
    BY <1>2 DEF StartOperation, InState, Checked
  <2>2. CASE TEE_Panic
    <3>1. ret' = "TARGET_DEAD" /\ ~alive'
      BY <2>2 DEF TEE_Panic
    <3>2. CASE ReturnsSuccess
      BY <2>2, <3>1, <3>2 DEF ReturnsSuccess, Dies, Answer
    <3>3. CASE ReturnsResult
      BY <2>2, <3>1, <3>3 DEF ReturnsResult, Dies, Answer
    <3>4. QED
      BY <1>2, <3>2, <3>3
  <2>3. CASE class = "ae" /\ ret' = "NOT_SUPPORTED" /\ UNCHANGED <<ops, objs, alive>>
    BY <1>2, <2>3 DEF ReturnsResult, Refused, Answer
  <2>4. CASE /\ VAL2HANDLE(v) \in DOMAIN ops /\ SetState(VAL2HANDLE(v), "active")
             /\ UNCHANGED alive /\ ret' = "SUCCESS"
    BY <1>2, <2>4 DEF ReturnsSuccess, ReturnsResult, Answer
  <2>5. QED
    BY <2>1, <2>2, <2>3, <2>4
<1>4. QED
  BY <1>1, <1>3, StateChanged, Learned DEF OpStates

\* The commands that feed an operation.  The result of TEE_AEUpdate is ignored, which does
\* no harm: a refused update leaves the operation as active as it was.
LEMMA FedOperation ==
    ASSUME CryptInv, alive, NEW v \in OpVals, ta_crypt_cmd_update(v)
    PROVE  CryptInv' /\ strayed' = {} /\ alive' \in BOOLEAN
<1>1. strayed' = {} /\ Learn(InKnown(v, "active"), knownObjs)
  BY DEF ta_crypt_cmd_update, ta_entry_digest_update, ta_entry_cipher_update, ta_entry_mac_update,
         ta_entry_ae_update_aad, ta_entry_ae_update, ReturnsSuccess, ReturnsResult
<1>2. PICK class \in Classes, errors \in SUBSET {"SHORT_BUFFER"} :
          /\ FeedOperation(VAL2HANDLE(v), class, errors)
          /\ \/ ReturnsSuccess /\ (errors = {} \/ class = "ae")
             \/ ReturnsResult
  BY DEF ta_crypt_cmd_update, ta_entry_digest_update, ta_entry_cipher_update, ta_entry_mac_update,
         ta_entry_ae_update_aad, ta_entry_ae_update, Classes
<1>3. \/ /\ VAL2HANDLE(v) \in DOMAIN ops /\ SetState(VAL2HANDLE(v), "active")
         /\ UNCHANGED alive /\ reply'.res = "SUCCESS"
      \/ Refused
      \/ Dies
      \/ /\ VAL2HANDLE(v) \in DOMAIN ops /\ ops[VAL2HANDLE(v)].state = "active"
         /\ UNCHANGED <<ops, objs, alive>> /\ reply'.res = "SUCCESS"
  <2>1. \/ /\ VAL2HANDLE(v) \in DOMAIN ops /\ SetState(VAL2HANDLE(v), "active")
           /\ UNCHANGED alive /\ ret' = "SUCCESS"
        \/ /\ VAL2HANDLE(v) \in DOMAIN ops /\ ops[VAL2HANDLE(v)].state \in Feedable(class)
           /\ errors # {} /\ ret' = "SHORT_BUFFER" /\ UNCHANGED <<ops, objs, alive>>
        \/ TEE_Panic
    BY <1>2 DEF FeedOperation, InState, Checked
  <2>2. CASE TEE_Panic
    <3>1. ret' = "TARGET_DEAD" /\ ~alive'
      BY <2>2 DEF TEE_Panic
    <3>2. CASE ReturnsSuccess
      BY <2>2, <3>1, <3>2 DEF ReturnsSuccess, Dies, Answer
    <3>3. CASE ReturnsResult
      BY <2>2, <3>1, <3>3 DEF ReturnsResult, Dies, Answer
    <3>4. QED
      BY <1>2, <3>2, <3>3
  <2>3. CASE /\ VAL2HANDLE(v) \in DOMAIN ops /\ ops[VAL2HANDLE(v)].state \in Feedable(class)
             /\ errors # {} /\ ret' = "SHORT_BUFFER" /\ UNCHANGED <<ops, objs, alive>>
    <3>1. CASE ReturnsResult
      BY <2>3, <3>1 DEF ReturnsResult, Refused, Answer
    <3>2. CASE ReturnsSuccess /\ class = "ae"
      BY <2>3, <3>2 DEF ReturnsSuccess, Feedable, Answer
    <3>3. QED
      BY <1>2, <2>3, <3>1, <3>2
  <2>4. CASE /\ VAL2HANDLE(v) \in DOMAIN ops /\ SetState(VAL2HANDLE(v), "active")
             /\ UNCHANGED alive /\ ret' = "SUCCESS"
    BY <1>2, <2>4 DEF ReturnsSuccess, ReturnsResult, Answer
  <2>5. QED
    BY <2>1, <2>2, <2>3, <2>4
<1>4. Dies \/ Refused \/ Done(InKnown(v, "active"), knownObjs)
  BY <1>3, StateChanged, StateKept DEF OpStates
<1>5. QED
  BY <1>1, <1>4, Learned

\* The commands that end the use of an operation.  One whose MAC did not match has ended
\* too, and the client knows.
LEMMA FinishedOperation ==
    ASSUME CryptInv, alive, NEW v \in OpVals, ta_crypt_cmd_final(v)
    PROVE  CryptInv' /\ strayed' = {} /\ alive' \in BOOLEAN
<1>1. PICK class \in Classes :
          /\ FinishOperation(VAL2HANDLE(v), class, {"SHORT_BUFFER"})
                \/ FinishOperation(VAL2HANDLE(v), class, {})
          /\ strayed' = {}
          /\ \/ reply'.res = ret'
             \/ alive' /\ FinishOperation(VAL2HANDLE(v), class, {}) /\ reply'.res = "MAC_INVALID"
  BY DEF ta_crypt_cmd_final, ta_entry_digest_do_final, ta_entry_cipher_do_final,
         ta_entry_mac_final_compute, ta_entry_mac_final_compare, ta_entry_ae_encrypt_final,
         ta_entry_ae_decrypt_final, ReturnsResult, Answer, Classes
<1>2. \/ /\ VAL2HANDLE(v) \in DOMAIN ops /\ SetState(VAL2HANDLE(v), "ready")
         /\ UNCHANGED alive /\ reply'.res \in {"SUCCESS", "MAC_INVALID"}
      \/ Refused /\ reply'.res # "MAC_INVALID"
      \/ Dies
  BY <1>1 DEF FinishOperation, InState, Checked, TEE_Panic, Dies, Refused
<1>3. CASE reply'.res # "MAC_INVALID"
  <2>1. Learn(InKnown(v, "ready"), knownObjs)
    BY <1>3 DEF ta_crypt_cmd_final
  <2>2. QED
    BY <1>1, <1>2, <1>3, <2>1, StateChanged, Learned DEF OpStates
<1>4. CASE reply'.res = "MAC_INVALID"
  <2>1. knownOps' = InKnown(v, "ready") /\ UNCHANGED knownObjs
    BY <1>4 DEF ta_crypt_cmd_final
  <2>2. /\ VAL2HANDLE(v) \in DOMAIN ops /\ SetState(VAL2HANDLE(v), "ready")
        /\ UNCHANGED alive
    BY <1>2, <1>4 DEF Dies
  <2>3. InKnown(v, "ready") = Known(ops') /\ DOMAIN ops' \subseteq OpAddrs
        /\ ops' \in [DOMAIN ops' -> Operations]
    BY <2>2, StateSet DEF OpStates
  <2>4. QED
    BY <1>1, <2>1, <2>2, <2>3 DEF SetState, CryptInv
<1>5. QED
  BY <1>3, <1>4

-----------------------------------------------------------------------------
\* A command that fills an object.
LEMMA ObjectFilled ==
    ASSUME CryptInv, alive, NEW v \in ObjVals, NEW x,
           \/ /\ VAL2HANDLE(v) \in DOMAIN objs /\ objs' = [objs EXCEPT ![VAL2HANDLE(v)] = x]
              /\ UNCHANGED <<ops, alive>> /\ reply'.res = "SUCCESS"
           \/ Refused
           \/ Dies
    PROVE  Dies \/ Refused \/ Done(knownOps, [knownObjs EXCEPT ![v] = x])
<1>1. SUFFICES ASSUME VAL2HANDLE(v) \in DOMAIN objs, objs' = [objs EXCEPT ![VAL2HANDLE(v)] = x],
                      UNCHANGED <<ops, alive>>, reply'.res = "SUCCESS"
               PROVE  Done(knownOps, [knownObjs EXCEPT ![v] = x])
  OBVIOUS
<1>2. v \in Vals /\ DOMAIN objs \subseteq Addrs
  BY DEF Vals, Addrs, CryptInv
<1>3. Changed(Known(objs), v, x) = Known(Changed(objs, VAL2HANDLE(v), x))
  BY <1>1, <1>2, KnownExcept
<1>4. knownObjs = Known(objs) /\ objs' = Changed(objs, VAL2HANDLE(v), x)
      /\ [knownObjs EXCEPT ![v] = x] = Changed(knownObjs, v, x)
  BY <1>1 DEF CryptInv, Changed
<1>5. DOMAIN objs' = DOMAIN objs
  BY <1>1
<1>6. QED
  BY <1>1, <1>3, <1>4, <1>5 DEF CryptInv, Done

\* A command that takes a free address for an object.
LEMMA AllocatedObject ==
    ASSUME CryptInv, alive, ta_crypt_cmd_allocate_transient_object
    PROVE  CryptInv' /\ strayed' = {} /\ alive' \in BOOLEAN
<1>1. PICK o \in ObjAddrs \cup {TEE_HANDLE_NULL} :
          /\ TEE_AllocateTransientObject(o)
          /\ Answer(ret', IF ret' = "SUCCESS" THEN HANDLE2VAL(o) ELSE 0)
          /\ strayed' = {}
  BY DEF ta_crypt_cmd_allocate_transient_object, ta_entry_allocate_transient_object
<1>2. Learn(knownOps, With(knownObjs, reply'.a, Empty))
  BY DEF ta_crypt_cmd_allocate_transient_object
<1>3. CASE o \in NewObjs /\ objs' = With(objs, o, Empty) /\ ret' = "SUCCESS"
           /\ UNCHANGED <<ops, alive>>
  <2>1. reply'.a = HANDLE2VAL(o) /\ reply'.res = "SUCCESS"
    BY <1>1, <1>3 DEF Answer
  <2>2. o \in Addrs /\ o \in ObjAddrs /\ DOMAIN objs \subseteq Addrs
    BY <1>3 DEF NewObjs, Addrs, CryptInv
  <2>3. With(knownObjs, reply'.a, Empty) = Known(objs')
    BY <1>3, <2>1, <2>2, KnownWith DEF CryptInv
  <2>4. DOMAIN objs' = DOMAIN objs \cup {o}
    BY <1>3 DEF With
  <2>5. Done(knownOps, With(knownObjs, reply'.a, Empty))
    BY <1>3, <2>1, <2>2, <2>3, <2>4 DEF Done, CryptInv
  <2>6. QED
    BY <1>1, <1>2, <2>5, Learned
<1>4. CASE ret' \in {"OUT_OF_MEMORY", "NOT_SUPPORTED"} /\ UNCHANGED <<ops, objs, alive>>
  <2>1. Refused
    BY <1>1, <1>4 DEF Answer, Refused
  <2>2. QED
    BY <1>1, <1>2, <2>1, Learned
<1>5. QED
  BY <1>1, <1>3, <1>4 DEF TEE_AllocateTransientObject

\* TEE_FreeTransientObject forgets an address, or nothing for the null handle.
LEMMA FreedObject ==
    ASSUME CryptInv, alive, NEW v \in ObjVals, ta_crypt_cmd_free_transient_object(v)
    PROVE  CryptInv' /\ strayed' = {} /\ alive' \in BOOLEAN
<1>1. strayed' = {} /\ Learn(knownOps, Without(knownObjs, {v}))
  BY DEF ta_crypt_cmd_free_transient_object, ta_entry_free_transient_object, ReturnsSuccess
<1>2. \/ /\ objs' = Without(objs, {VAL2HANDLE(v)}) /\ UNCHANGED <<ops, alive>>
         /\ reply'.res = "SUCCESS"
      \/ Dies
  BY DEF ta_crypt_cmd_free_transient_object, ta_entry_free_transient_object, ReturnsSuccess,
         TEE_FreeTransientObject, Checked, TEE_Panic, Dies, Answer
<1>3. CASE objs' = Without(objs, {VAL2HANDLE(v)}) /\ UNCHANGED <<ops, alive>> /\ reply'.res = "SUCCESS"
  <2>1. v \in Vals /\ DOMAIN objs \subseteq Addrs /\ knownObjs = Known(objs)
    BY DEF Vals, Addrs, CryptInv
  <2>2. Without(Known(objs), {v}) = Known(Without(objs, {VAL2HANDLE(v)}))
    BY <2>1, KnownWithout
  <2>3. Without(knownObjs, {v}) = Known(objs')
    BY <1>3, <2>1, <2>2
  <2>4. DOMAIN objs' \subseteq DOMAIN objs
    BY <1>3 DEF Without
  <2>5. Done(knownOps, Without(knownObjs, {v}))
    BY <1>3, <2>3, <2>4 DEF Done, CryptInv
  <2>6. QED
    BY <1>1, <2>5, Learned
<1>4. QED
  BY <1>1, <1>2, <1>3, Learned

\* TEE_ResetTransientObject empties an object.
LEMMA EmptiedObject ==
    ASSUME CryptInv, alive, NEW v \in ObjVals, ta_crypt_cmd_reset_transient_object(v)
    PROVE  CryptInv' /\ strayed' = {} /\ alive' \in BOOLEAN
<1> DEFINE known == [x \in DOMAIN knownObjs |-> IF x = v THEN Empty ELSE knownObjs[x]]
           after == [x \in DOMAIN objs |-> IF x = VAL2HANDLE(v) THEN Empty ELSE objs[x]]
<1>1. strayed' = {} /\ Learn(knownOps, known)
  BY DEF ta_crypt_cmd_reset_transient_object, ta_entry_reset_transient_object, ReturnsSuccess
<1>2. \/ objs' = after /\ UNCHANGED <<ops, alive>> /\ reply'.res = "SUCCESS"
      \/ Dies
  BY DEF ta_crypt_cmd_reset_transient_object, ta_entry_reset_transient_object, ReturnsSuccess,
         TEE_ResetTransientObject, Checked, TEE_Panic, Dies, Answer
<1>3. CASE objs' = after /\ UNCHANGED <<ops, alive>> /\ reply'.res = "SUCCESS"
  <2>1. v \in Vals /\ DOMAIN objs \subseteq Addrs /\ knownObjs = Known(objs)
    BY DEF Vals, Addrs, CryptInv
  <2>2. known = Known(after)
    <3>1. [w \in DOMAIN Known(objs) |-> IF w = v THEN Empty ELSE Known(objs)[w]] = Known(after)
      BY <2>1, KnownReset
    <3>2. QED
      BY <2>1, <3>1
  <2>3. DOMAIN after = DOMAIN objs
    OBVIOUS
  <2>4. Done(knownOps, known)
    BY <1>3, <2>2, <2>3 DEF Done, CryptInv
  <2>5. QED
    BY <1>1, <2>4, Learned
<1>4. QED
  BY <1>1, <1>2, <1>3, Learned

\* What the client has of an object is the object.
LEMMA CopiedObject ==
    ASSUME CryptInv, alive, NEW v \in ObjVals, NEW w \in ObjVals, copy_object_attributes(v, w)
    PROVE  CryptInv' /\ strayed' = {} /\ alive' \in BOOLEAN
<1> DEFINE s == VAL2HANDLE(w)
<1>1. strayed' = {} /\ Learn(knownOps, [knownObjs EXCEPT ![v] = knownObjs[w]])
  BY DEF copy_object_attributes, ta_entry_copy_object_attributes, ReturnsResult
<1>2. \/ /\ s \in DOMAIN objs /\ VAL2HANDLE(v) \in DOMAIN objs
         /\ objs' = [objs EXCEPT ![VAL2HANDLE(v)] = objs[s]]
         /\ UNCHANGED <<ops, alive>> /\ reply'.res = "SUCCESS"
      \/ Refused
      \/ Dies
  <2>1. reply'.res = ret' /\ ((s \in DOMAIN objs /\ FillObject(VAL2HANDLE(v), objs[s])) \/ TEE_Panic)
    BY DEF copy_object_attributes, ta_entry_copy_object_attributes, ReturnsResult, Answer
  <2>2. QED
    BY <2>1 DEF FillObject, Checked, TEE_Panic, Dies, Refused
<1>3. ASSUME s \in DOMAIN objs PROVE knownObjs[w] = objs[s]
  <2>1. w \in Vals /\ DOMAIN objs \subseteq Addrs /\ knownObjs = Known(objs)
    BY DEF Vals, Addrs, CryptInv
  <2>2. QED
    BY <1>3, <2>1, KnownFacts
<1>4. Dies \/ Refused \/ Done(knownOps, [knownObjs EXCEPT ![v] = knownObjs[w]])
  BY <1>2, <1>3, ObjectFilled
<1>5. QED
  BY <1>1, <1>4, Learned

\* The commands that change nothing, unless the instance dies of them.
LEMMA LookedAt ==
    ASSUME CryptInv, alive, NEW v \in Vals, ta_crypt_cmd_look(v)
    PROVE  CryptInv' /\ strayed' = {} /\ alive' \in BOOLEAN
<1>1. strayed' = {} /\ Learn(knownOps, knownObjs)
  BY DEF ta_crypt_cmd_look, ta_entry_get_operation_info, ta_entry_get_object_buffer_attribute,
         ta_entry_get_object_value_attribute, ta_entry_random_number_generate, ReturnsSuccess,
         ReturnsResult
<1>2. \/ UNCHANGED <<ops, objs, alive>> /\ reply'.res # "TARGET_DEAD"
      \/ Dies
  <2>1. CASE ta_entry_get_operation_info(v)
    <3>1. CASE UNCHANGED cryptoVars /\ Answer("SHORT_BUFFER", 0)
      BY <3>1 DEF cryptoVars, Answer
    <3>2. CASE TEE_GetOperationInfo(VAL2HANDLE(v)) /\ ReturnsSuccess
      <4>1. UNCHANGED <<ops, objs, alive>> \/ TEE_Panic
        BY <3>2 DEF TEE_GetOperationInfo, Checked
      <4>2. CASE UNCHANGED <<ops, objs, alive>>
        BY <3>2, <4>2 DEF ReturnsSuccess, Answer
      <4>3. CASE TEE_Panic
        <5>1. ~alive'
          BY <4>3 DEF TEE_Panic
        <5>2. QED
          BY <3>2, <4>3, <5>1 DEF ReturnsSuccess, Answer, Dies
      <4>4. QED
        BY <4>1, <4>2, <4>3
    <3>3. QED
      BY <2>1, <3>1, <3>2 DEF ta_entry_get_operation_info
  <2>2. CASE ReadAttribute(VAL2HANDLE(v)) /\ ReturnsResult
    <3>1. \/ UNCHANGED <<ops, objs, alive>> /\ ret' \in {"SUCCESS", "ITEM_NOT_FOUND"}
          \/ TEE_Panic /\ ret' = "TARGET_DEAD"
      BY <2>2 DEF ReadAttribute, Checked, TEE_Panic
    <3>2. QED
      BY <2>2, <3>1 DEF ReturnsResult, Answer, Dies
  <2>3. CASE ta_entry_random_number_generate
    BY <2>3 DEF ta_entry_random_number_generate, cryptoVars, Answer
  <2>4. QED
    BY <2>1, <2>2, <2>3 DEF ta_crypt_cmd_look, ta_entry_get_object_buffer_attribute,
                            ta_entry_get_object_value_attribute
<1>3. Dies \/ Refused \/ Done(knownOps, knownObjs)
  BY <1>2 DEF Refused, Done, CryptInv
<1>4. QED
  BY <1>1, <1>3, Learned

\* The attributes are read from inside the buffer, or not at all.
LEMMA NoArea ==
    ASSUME NEW buf, IsBuffer(buf), NEW r \in UnpackResults(buf)
    PROVE  /\ {area \in Touched(buf) : r = "SUCCESS" /\ area[2] > buf.len} = {}
           /\ r \in {"SUCCESS", "BAD_PARAMETERS", "OUT_OF_MEMORY"}
<1>1. r \in {"SUCCESS", "BAD_PARAMETERS", "OUT_OF_MEMORY"}
  BY DEF UnpackResults
<1>2. r = "SUCCESS" => \A area \in Touched(buf) : ~(area[2] > buf.len)
  BY NothingStrays
<1>3. QED
  BY <1>1, <1>2

\* Every buffer a client passes is one.
LEMMA BuffersPassed ==
    /\ \A attrs \in AttrLists : IsBuffer(pack_attrs(attrs)) /\ unpack_attrs(pack_attrs(attrs)) = attrs
    /\ \A buf \in RawBuffers : IsBuffer(buf)
BY LibCryptAssumption, RoundTrip

\* The ends of a call that fills an object.
LEMMA FillEnds ==
    ASSUME CryptInv, alive, NEW v \in ObjVals, NEW x,
           FillObject(VAL2HANDLE(v), x), reply'.res = ret'
    PROVE  Dies \/ Refused \/ Done(knownOps, [knownObjs EXCEPT ![v] = x])
<1>1. \/ /\ VAL2HANDLE(v) \in DOMAIN objs /\ objs' = [objs EXCEPT ![VAL2HANDLE(v)] = x]
         /\ UNCHANGED <<ops, alive>> /\ reply'.res = "SUCCESS"
      \/ Refused
      \/ Dies
  BY DEF FillObject, Checked, TEE_Panic, Dies, Refused
<1>2. QED
  BY <1>1, ObjectFilled

\* A command whose attributes are refused has done nothing.
LEMMA RefusedAttributes ==
    ASSUME NEW r \in {"BAD_PARAMETERS", "OUT_OF_MEMORY"}, UNCHANGED cryptoVars, Answer(r, 0)
    PROVE  Refused
BY DEF cryptoVars, Answer, Refused

\* The null handle is a value, so that there is one.
LEMMA NullValue == 0 \in ObjVals
BY DEF ObjVals

\* TEE_PopulateTransientObject gets the attributes that the client packed.
LEMMA PopulatedObject ==
    ASSUME CryptInv, alive, NEW v \in ObjVals, NEW attrs \in AttrLists,
           ta_crypt_cmd_populate_transient_object(v, attrs)
    PROVE  CryptInv' /\ strayed' = {} /\ alive' \in BOOLEAN
<1> DEFINE buf == pack_attrs(attrs)
<1>1. IsBuffer(buf) /\ unpack_attrs(buf) = attrs
  BY BuffersPassed
<1> HIDE DEF buf
<1>2. Learn(knownOps, [knownObjs EXCEPT ![v] = Contents(attrs)])
  BY DEF ta_crypt_cmd_populate_transient_object
<1>3. PICK r \in UnpackResults(buf) :
          /\ IF r = "SUCCESS" THEN FillObject(VAL2HANDLE(v), Contents(attrs)) /\ Answer(ret', 0)
                              ELSE UNCHANGED cryptoVars /\ Answer(r, 0)
          /\ strayed' = {area \in Touched(buf) : r = "SUCCESS" /\ area[2] > buf.len}
  BY <1>1 DEF ta_crypt_cmd_populate_transient_object, ta_entry_populate_transient_object,
              WithAttributes, buf
<1>4. strayed' = {} /\ r \in {"SUCCESS", "BAD_PARAMETERS", "OUT_OF_MEMORY"}
  BY <1>1, <1>3, NoArea
<1>5. Dies \/ Refused \/ Done(knownOps, [knownObjs EXCEPT ![v] = Contents(attrs)])
  <2>1. CASE r = "SUCCESS"
    <3>1. FillObject(VAL2HANDLE(v), Contents(attrs)) /\ reply'.res = ret'
      BY <1>3, <2>1 DEF Answer
    <3>2. QED
      BY <3>1, FillEnds
  <2>2. CASE r # "SUCCESS"
    BY <1>3, <1>4, <2>2, RefusedAttributes
  <2>3. QED
    BY <2>1, <2>2
<1>6. QED
  BY <1>2, <1>4, <1>5, Learned

\* The key that TEE_GenerateKey makes is not one of the attributes.
LEMMA GeneratedKey ==
    ASSUME CryptInv, alive, NEW v \in ObjVals, NEW attrs \in AttrLists,
           ta_crypt_cmd_generate_key(v, attrs)
    PROVE  CryptInv' /\ strayed' = {} /\ alive' \in BOOLEAN
<1> DEFINE buf == pack_attrs(attrs)
<1>1. IsBuffer(buf)
  BY BuffersPassed
<1> HIDE DEF buf
<1>2. Learn(knownOps, [knownObjs EXCEPT ![v] = Generated])
  BY DEF ta_crypt_cmd_generate_key
<1>3. PICK r \in UnpackResults(buf) :
          /\ IF r = "SUCCESS" THEN FillObject(VAL2HANDLE(v), Generated) /\ Answer(ret', 0)
                              ELSE UNCHANGED cryptoVars /\ Answer(r, 0)
          /\ strayed' = {area \in Touched(buf) : r = "SUCCESS" /\ area[2] > buf.len}
  BY DEF ta_crypt_cmd_generate_key, ta_entry_generate_key, WithAttributes, buf
<1>4. strayed' = {} /\ r \in {"SUCCESS", "BAD_PARAMETERS", "OUT_OF_MEMORY"}
  BY <1>1, <1>3, NoArea
<1>5. Dies \/ Refused \/ Done(knownOps, [knownObjs EXCEPT ![v] = Generated])
  <2>1. CASE r = "SUCCESS"
    <3>1. FillObject(VAL2HANDLE(v), Generated) /\ reply'.res = ret'
      BY <1>3, <2>1 DEF Answer
    <3>2. QED
      BY <3>1, FillEnds
  <2>2. CASE r # "SUCCESS"
    BY <1>3, <1>4, <2>2, RefusedAttributes
  <2>3. QED
    BY <2>1, <2>2
<1>6. QED
  BY <1>2, <1>4, <1>5, Learned

\* TEE_DeriveKey has no result: it fills the object or panics.
LEMMA DerivedKey ==
    ASSUME CryptInv, alive, NEW v \in OpVals, NEW k \in ObjVals, NEW attrs \in AttrLists,
           ta_crypt_cmd_derive_key(v, k, attrs)
    PROVE  CryptInv' /\ strayed' = {} /\ alive' \in BOOLEAN
<1> DEFINE buf == pack_attrs(attrs)
<1>1. IsBuffer(buf)
  BY BuffersPassed
<1> HIDE DEF buf
<1>2. Learn(knownOps, [knownObjs EXCEPT ![k] = Generated])
  BY DEF ta_crypt_cmd_derive_key
<1>3. PICK r \in UnpackResults(buf) :
          /\ IF r = "SUCCESS" THEN TEE_DeriveKey(VAL2HANDLE(v), VAL2HANDLE(k)) /\ Answer(ret', 0)
                              ELSE UNCHANGED cryptoVars /\ Answer(r, 0)
          /\ strayed' = {area \in Touched(buf) : r = "SUCCESS" /\ area[2] > buf.len}
  BY DEF ta_crypt_cmd_derive_key, ta_entry_derive_key, WithAttributes, buf
<1>4. strayed' = {} /\ r \in {"SUCCESS", "BAD_PARAMETERS", "OUT_OF_MEMORY"}
  BY <1>1, <1>3, NoArea
<1>5. Dies \/ Refused \/ Done(knownOps, [knownObjs EXCEPT ![k] = Generated])
  <2>1. CASE r = "SUCCESS"
    <3>1. TEE_DeriveKey(VAL2HANDLE(v), VAL2HANDLE(k)) /\ reply'.res = ret'
      BY <1>3, <2>1 DEF Answer
    <3>2. \/ /\ VAL2HANDLE(k) \in DOMAIN objs /\ objs' = [objs EXCEPT ![VAL2HANDLE(k)] = Generated]
             /\ UNCHANGED <<ops, alive>> /\ reply'.res = "SUCCESS"
          \/ Dies
      BY <3>1 DEF TEE_DeriveKey, Checked, TEE_Panic, Dies
    <3>3. QED
      BY <3>2, ObjectFilled
  <2>2. CASE r # "SUCCESS"
    BY <1>3, <1>4, <2>2, RefusedAttributes
  <2>3. QED
    BY <2>1, <2>2
<1>6. QED
  BY <1>2, <1>4, <1>5, Learned

\* The asymmetric commands keep nothing of the attributes.
LEMMA UsedAsymmetric ==
    ASSUME CryptInv, alive, NEW v \in OpVals, NEW buf, IsBuffer(buf),
           ta_entry_asymmetric(v, buf), Learn(knownOps, knownObjs)
    PROVE  CryptInv' /\ strayed' = {} /\ alive' \in BOOLEAN
<1>1. PICK r \in UnpackResults(buf) :
          /\ IF r = "SUCCESS"
             THEN /\ UseAsymmetric(VAL2HANDLE(v), {"SHORT_BUFFER", "BAD_PARAMETERS"})
                  /\ Answer(ret', 0)
             ELSE UNCHANGED cryptoVars /\ Answer(r, 0)
          /\ strayed' = {area \in Touched(buf) : r = "SUCCESS" /\ area[2] > buf.len}
  BY DEF ta_entry_asymmetric, WithAttributes
<1>2. strayed' = {} /\ r \in {"SUCCESS", "BAD_PARAMETERS", "OUT_OF_MEMORY"}
  BY <1>1, NoArea
<1>3. Dies \/ Refused \/ Done(knownOps, knownObjs)
  <2>1. CASE r = "SUCCESS"
    <3>1. /\ UseAsymmetric(VAL2HANDLE(v), {"SHORT_BUFFER", "BAD_PARAMETERS"})
          /\ reply'.res = ret'
      BY <1>1, <2>1 DEF Answer
    <3>2. \/ UNCHANGED <<ops, objs, alive>> /\ ret' \in {"SUCCESS", "SHORT_BUFFER", "BAD_PARAMETERS"}
          \/ TEE_Panic /\ ret' = "TARGET_DEAD"
      BY <3>1 DEF UseAsymmetric, Checked, TEE_Panic
    <3>3. CASE TEE_Panic /\ ret' = "TARGET_DEAD"
      BY <3>1, <3>3 DEF Dies
    <3>4. CASE /\ UNCHANGED <<ops, objs, alive>>
               /\ ret' \in {"SUCCESS", "SHORT_BUFFER", "BAD_PARAMETERS"}
      BY <3>1, <3>4 DEF Refused, Done, CryptInv
    <3>5. QED
      BY <3>2, <3>3, <3>4
  <2>2. CASE r # "SUCCESS"
    BY <1>1, <1>2, <2>2, RefusedAttributes
  <2>3. QED
    BY <2>1, <2>2
<1>4. QED
  BY <1>2, <1>3, Learned

\* Every command of the crypt TA and its client library keeps their part of the invariant.
LEMMA CryptStep ==
    ASSUME CryptInv, alive, CryptCommand
    PROVE  CryptInv' /\ strayed' = {} /\ alive' \in BOOLEAN
<1>1. CASE OperationCommand
  BY <1>1, AllocatedOperation, FreedOperation, CopiedOperation, ReadyOperation, StartedOperation,
     FedOperation, FinishedOperation, NullValue DEF OperationCommand
<1>2. CASE ObjectCommand
  BY <1>2, AllocatedObject, FreedObject, EmptiedObject, CopiedObject DEF ObjectCommand
<1>3. CASE PackFails
  <2>1. UNCHANGED <<ops, objs, alive, knownOps, knownObjs>> /\ strayed' = {}
    BY <1>3 DEF PackFails, cryptoVars, clientVars
  <2>2. QED
    BY <2>1 DEF CryptInv
<1>4. ASSUME NEW attrs \in AttrLists, NEW v \in OpVals, ta_crypt_cmd_asymmetric(v, attrs)
      PROVE  CryptInv' /\ strayed' = {} /\ alive' \in BOOLEAN
  BY <1>4, BuffersPassed, UsedAsymmetric DEF ta_crypt_cmd_asymmetric
<1>5. ASSUME NEW v \in OpVals, NEW buf \in RawBuffers, RawBuffer(v, buf)
      PROVE  CryptInv' /\ strayed' = {} /\ alive' \in BOOLEAN
  BY <1>5, BuffersPassed, UsedAsymmetric DEF RawBuffer
<1>6. CASE AttributeCommand
  BY <1>3, <1>4, <1>5, <1>6, PopulatedObject, GeneratedKey, DerivedKey DEF AttributeCommand
<1>7. QED
  BY <1>1, <1>2, <1>6, LookedAt DEF CryptCommand, Vals

-----------------------------------------------------------------------------
(***************************************************************************)
(* Sessions.                                                               *)
(***************************************************************************)

\* The program starts without a session.
LEMMA InitInv == Init => SInv
BY DEF Init, CryptoInit, CryptTaInit, ClientInit, AesInit, ShaInit, SocketInit, SInv, AesFresh,
       ShaFresh, SocketFresh, TAs

\* A new instance satisfies the part of its TA.
LEMMA OpenStep ==
    ASSUME SInv, NEW ta \in TAs, OpenSession(ta)
    PROVE  SInv'
<1>1. /\ session = "none" /\ session' = ta /\ ta # "none"
      /\ ops = << >> /\ objs = << >> /\ alive
      /\ AesFresh /\ ShaFresh /\ SocketFresh /\ knownOps = << >> /\ knownObjs = << >>
      /\ UNCHANGED <<ops, objs, alive, strayed, knownOps, knownObjs>>
      /\ UNCHANGED <<crypto_op, algo, heldBack, prepared, failed, abused>>
      /\ UNCHANGED <<digest_op, digestPrepared, digestFailed, digestAbused>>
      /\ UNCHANGED <<sockets, handles, inUse, closedUsed, failedUsed>>
  BY DEF OpenSession, SInv, TAs, cryptoVars, clientVars, aesVars, shaVars, libSocketVars
<1>2. /\ session' \in TAs \cup {"none"} /\ alive' \in BOOLEAN /\ strayed' = {}
      /\ session' # "none"
  BY <1>1 DEF SInv
<1>3. DOMAIN << >> = {}
  BY EmptyFunction
<1>4. IF session' = "crypt" THEN CryptInv' ELSE knownOps' = << >> /\ knownObjs' = << >>
  <2>1. << >> \in [{} -> Operations]
    OBVIOUS
  <2>2. QED
    BY <1>1, <1>3, <2>1, KnownOfNothing DEF CryptInv
<1>5. IF session' = "aes_perf" THEN AesInv' ELSE AesFresh'
  <2>1. AesFresh'
    BY <1>1 DEF AesFresh
  <2>2. AesInv'
    BY <1>1, <1>3 DEF AesFresh, AesInv, Stale
  <2>3. QED
    BY <2>1, <2>2
<1>6. IF session' = "sha_perf" THEN ShaInv' ELSE ShaFresh'
  <2>1. ShaFresh'
    BY <1>1 DEF ShaFresh
  <2>2. ShaInv'
    BY <1>1, <1>3 DEF ShaFresh, ShaInv, FreedDigest
  <2>3. QED
    BY <2>1, <2>2
<1>7. IF session' = "socket" THEN SocketInv' ELSE SocketFresh'
  <2>1. SocketFresh'
    BY <1>1 DEF SocketFresh
  <2>2. ASSUME session' = "socket" PROVE SocketInv'
    <3>1. sock_size' \in SockSizes
      BY <1>1, <2>2 DEF OpenSession
    <3>2. Unused \in SockRecords /\ Unused.h = NoSocket /\ Unused.blen = 0
      BY DEF Unused, NoSocket, SockRecords
    <3>3. /\ handles' = [v \in SockHandles |-> Unused] /\ inUse' = [v \in SockHandles |-> "none"]
          /\ sockets' = << >> /\ closedUsed' = FALSE /\ failedUsed' = FALSE /\ alive'
      BY <1>1 DEF SocketFresh
    <3>4. /\ handles' \in [SockHandles -> SockRecords]
          /\ inUse' \in [SockHandles -> Protocols \cup {"none"}]
      BY <3>2, <3>3
    <3>5. Connected'
      BY <1>3, <3>3 DEF Connected
    <3>6. QED
      BY <1>3, <3>1, <3>2, <3>3, <3>4, <3>5 DEF SocketInv
  <2>3. QED
    BY <2>1, <2>2
<1>8. QED
  BY <1>2, <1>4, <1>5, <1>6, <1>7 DEF SInv

\* What is left behind by a session that ends is a new instance.
LEMMA CloseStep ==
    ASSUME CloseSession
    PROVE  SInv'
BY DEF CloseSession, Fresh, SInv, AesFresh, ShaFresh, SocketFresh, TAs

\* A command of one TA leaves the others as they are.
LEMMA InvokeStep ==
    ASSUME SInv, Invoke
    PROVE  SInv'
<1> DEFINE NoClient == knownOps = << >> /\ knownObjs = << >>
<1>1. UNCHANGED session /\ session # "none" /\ alive /\ session \in TAs
  BY DEF Invoke, SInv, TAs
<1>2. UNCHANGED aesVars /\ AesFresh => AesFresh'
  BY DEF aesVars, AesFresh
<1>3. UNCHANGED shaVars /\ ShaFresh => ShaFresh'
  BY DEF shaVars, ShaFresh
<1>4. UNCHANGED socketVars /\ SocketFresh => SocketFresh'
  BY DEF socketVars, libSocketVars, SocketFresh
<1>5. UNCHANGED clientVars /\ NoClient => NoClient'
  BY DEF clientVars
<1>6. CASE session = "crypt"
  <2>1. CryptInv /\ AesFresh /\ ShaFresh /\ SocketFresh
    BY <1>6 DEF SInv
  <2>2. CryptCommand /\ UNCHANGED aesVars /\ UNCHANGED shaVars /\ UNCHANGED socketVars
    BY <1>6 DEF Invoke
  <2>3. CryptInv' /\ strayed' = {} /\ alive' \in BOOLEAN
    BY <1>1, <2>1, <2>2, CryptStep
  <2>4. QED
    BY <1>1, <1>2, <1>3, <1>4, <1>6, <2>1, <2>2, <2>3 DEF SInv
<1>7. CASE session = "aes_perf"
  <2>1. AesInv /\ NoClient /\ ShaFresh /\ SocketFresh /\ strayed = {}
    BY <1>7 DEF SInv
  <2>2. /\ AesCommand /\ UNCHANGED strayed
        /\ UNCHANGED clientVars /\ UNCHANGED shaVars /\ UNCHANGED socketVars
    BY <1>7 DEF Invoke
  <2>3. AesInv' /\ alive' \in BOOLEAN
    BY <1>1, <2>1, <2>2, AesStep
  <2>4. QED
    BY <1>1, <1>3, <1>4, <1>5, <1>7, <2>1, <2>2, <2>3 DEF SInv
<1>8. CASE session = "sha_perf"
  <2>1. ShaInv /\ NoClient /\ AesFresh /\ SocketFresh /\ strayed = {}
    BY <1>8 DEF SInv
  <2>2. /\ ShaCommand /\ UNCHANGED strayed
        /\ UNCHANGED clientVars /\ UNCHANGED aesVars /\ UNCHANGED socketVars
    BY <1>8 DEF Invoke
  <2>3. ShaInv' /\ alive' \in BOOLEAN
    BY <1>1, <2>1, <2>2, ShaStep
  <2>4. QED
    BY <1>1, <1>2, <1>4, <1>5, <1>8, <2>1, <2>2, <2>3 DEF SInv
<1>9. CASE session = "socket"
  <2>1. SocketInv /\ NoClient /\ AesFresh /\ ShaFresh /\ strayed = {}
    BY <1>9 DEF SInv
  <2>2. /\ SocketCommand /\ UNCHANGED strayed
        /\ UNCHANGED clientVars /\ UNCHANGED aesVars /\ UNCHANGED shaVars
    BY <1>9 DEF Invoke
  <2>3. SocketInv' /\ alive' \in BOOLEAN
    BY <1>1, <2>1, <2>2, SocketStep
  <2>4. QED
    BY <1>1, <1>2, <1>3, <1>5, <1>9, <2>1, <2>2, <2>3 DEF SInv
<1>10. QED
  BY <1>1, <1>6, <1>7, <1>8, <1>9 DEF TAs

\* A step that changes nothing keeps the invariant.
LEMMA StutterStep ==
    ASSUME SInv, UNCHANGED vars
    PROVE  SInv'
<1>1. /\ UNCHANGED <<session, ops, objs, alive, strayed, knownOps, knownObjs>>
      /\ UNCHANGED <<crypto_op, algo, heldBack, prepared, failed, abused>>
      /\ UNCHANGED <<digest_op, digestPrepared, digestFailed, digestAbused>>
      /\ UNCHANGED <<sockets, sock_size, handles, inUse, closedUsed, failedUsed>>
  BY DEF vars, cryptoVars, clientVars, aesVars, shaVars, socketVars, libSocketVars
<1>2. (CryptInv => CryptInv') /\ (AesFresh => AesFresh') /\ (ShaFresh => ShaFresh')
      /\ (SocketFresh => SocketFresh')
  BY <1>1 DEF CryptInv, AesFresh, ShaFresh, SocketFresh
<1>3. (AesInv => AesInv') /\ (ShaInv => ShaInv')
  BY <1>1 DEF AesInv, ShaInv, InState, Stale, FreedDigest
<1>4. SocketInv => SocketInv'
  BY <1>1 DEF SocketInv, Connected
<1>5. QED
  BY <1>1, <1>2, <1>3, <1>4 DEF SInv

\* The invariant holds in every state of a client's sessions.
THEOREM ClientInvariant == Spec => []SInv
<1>1. Init => SInv
  BY InitInv
<1>2. ASSUME SInv, [Next]_vars PROVE SInv'
  BY <1>2, OpenStep, CloseStep, InvokeStep, StutterStep DEF Next
<1>3. QED
  BY <1>1, <1>2, PTL DEF Spec

-----------------------------------------------------------------------------
(***************************************************************************)
(* What the invariant gives.                                               *)
(***************************************************************************)

\* A function that is one to one relates sets of one size.
LEMMA SameSize ==
    ASSUME NEW S, NEW T, IsFiniteSet(S), NEW f \in [S -> T],
           \A x, y \in S : f[x] = f[y] => x = y, \A t \in T : \E x \in S : f[x] = t
    PROVE  Cardinality(T) = Cardinality(S)
<1>1. f \in Bijection(S, T)
  BY DEF Bijection, Injection, IsInjective, Surjection
<1>2. ExistsBijection(S, T)
  BY <1>1 DEF ExistsBijection
<1>3. QED
  BY <1>2, FS_Bijection

\* The client has as many entries as there are operations or objects.
LEMMA KnownSize ==
    ASSUME NEW live, DOMAIN live \subseteq Addrs
    PROVE  Cardinality(DOMAIN live) = Cardinality(DOMAIN Known(live))
<1> DEFINE S == DOMAIN live
           T == DOMAIN Known(live)
           f == [h \in S |-> HANDLE2VAL(h)]
<1>1. IsFiniteSet(S)
  BY TeeCryptoAssumption, FS_Subset DEF Addrs
<1>2. T = {HANDLE2VAL(h) : h \in S}
  BY DEF Known
<1>3. f \in [S -> T] /\ \A t \in T : \E x \in S : f[x] = t
  BY <1>2
<1>4. \A x, y \in S : f[x] = f[y] => x = y
  BY HandleFacts
<1> HIDE DEF S, T, f
<1>5. Cardinality(T) = Cardinality(S)
  BY <1>1, <1>3, <1>4, SameSize
<1>6. QED
  BY <1>5 DEF S, T

\* A client that only reads results knows the live operations and objects of the crypt TA,
\* their states and contents (helpers.c, cryp_taf.c).
THEOREM ClientKnows == Spec => []ClientKnowsState
<1>1. ASSUME SInv PROVE ClientKnowsState
  <2>1. SUFFICES ASSUME session = "crypt"
                 PROVE  /\ Cardinality(DOMAIN ops) = Cardinality(DOMAIN knownOps)
                        /\ \A v \in DOMAIN knownOps :
                              VAL2HANDLE(v) \in DOMAIN ops /\ ops[VAL2HANDLE(v)] = knownOps[v]
                        /\ Cardinality(DOMAIN objs) = Cardinality(DOMAIN knownObjs)
                        /\ \A v \in DOMAIN knownObjs :
                              VAL2HANDLE(v) \in DOMAIN objs /\ objs[VAL2HANDLE(v)] = knownObjs[v]
    BY DEF ClientKnowsState
  <2>2. /\ knownOps = Known(ops) /\ knownObjs = Known(objs)
        /\ DOMAIN ops \subseteq Addrs /\ DOMAIN objs \subseteq Addrs
    BY <1>1, <2>1 DEF SInv, CryptInv, Addrs
  <2>3. ASSUME NEW live, DOMAIN live \subseteq Addrs
        PROVE  \A v \in DOMAIN Known(live) :
                   VAL2HANDLE(v) \in DOMAIN live /\ live[VAL2HANDLE(v)] = Known(live)[v]
    BY <2>3, KnownFacts
  <2>4. QED
    BY <2>2, <2>3, KnownSize
<1>2. QED
  BY <1>1, ClientInvariant, PTL

\* The crypt TA reads nothing outside a buffer of attributes it accepts (cryp_taf.c).
THEOREM ReadsInBuffer == Spec => []AttributesInBuffer
<1>1. SInv => AttributesInBuffer
  BY DEF SInv, AttributesInBuffer
<1>2. QED
  BY <1>1, ClientInvariant, PTL

\* unpack_attrs takes what pack_attrs makes of any list of attributes, and gives back the
\* list (helpers.c, cryp_taf.c).
THEOREM PackedAccepted == Spec => []PackedIsAccepted
<1>1. PackedIsAccepted
  BY LibCryptAssumption, RoundTrip DEF PackedIsAccepted
<1>2. QED
  BY <1>1, PTL

\* The static handle of a performance TA is as good as the last prepare (ta_aes_perf.c,
\* ta_sha_perf.c).
THEOREM HandlesReliable == Spec => []PerfHandlesReliable
<1>1. SInv => PerfHandlesReliable
  BY DEF SInv, PerfHandlesReliable, AesInv, ShaInv
<1>2. QED
  BY <1>1, ClientInvariant, PTL

\* The performance TAs and the socket TA die only of what their code leaves open
\* (ta_aes_perf.c, ta_sha_perf.c, socket/ta_entry.c).
THEOREM DeathIsExplained == Spec => []DeathExplained
<1>1. SInv => DeathExplained
  BY DEF SInv, DeathExplained, AesInv, ShaInv, SocketInv
<1>2. QED
  BY <1>1, ClientInvariant, PTL

\* While a client passes no handle that it closed, its open handles and the open sockets
\* correspond (socket/ta_entry.c, libsocket/socket.c).
THEOREM SocketsAreAccounted == Spec => []SocketsAccounted
<1>1. ASSUME SInv PROVE SocketsAccounted
  <2>1. SUFFICES ASSUME session = "socket", alive, ~closedUsed
                 PROVE  /\ Cardinality({v \in SockHandles : inUse[v] # "none"})
                              = Cardinality(DOMAIN sockets)
                        /\ \A v \in SockHandles : inUse[v] # "none" =>
                              /\ handles[v].h.ctx \in DOMAIN sockets
                              /\ sockets[handles[v].h.ctx] = inUse[v]
    BY DEF SocketsAccounted
  <2> DEFINE S == {v \in SockHandles : inUse[v] # "none"}
             T == DOMAIN sockets
             f == [v \in S |-> handles[v].h.ctx]
  <2>2. Connected
    BY <1>1, <2>1 DEF SInv, SocketInv
  <2>3. IsFiniteSet(S)
    BY LibSocketAssumption, FS_Subset
  <2>4. f \in [S -> T] /\ (\A x, y \in S : f[x] = f[y] => x = y) /\ \A t \in T : \E x \in S : f[x] = t
    BY <2>2 DEF Connected
  <2> HIDE DEF S, T, f
  <2>5. Cardinality(T) = Cardinality(S)
    BY <2>3, <2>4, SameSize
  <2>6. QED
    BY <2>2, <2>5 DEF S, T, Connected
<1>2. QED
  BY <1>1, ClientInvariant, PTL
=============================================================================
