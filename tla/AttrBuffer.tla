----------------------------- MODULE AttrBuffer -----------------------------
(***************************************************************************)
(* The buffer in which libcrypt passes attributes to the crypt TA:         *)
(* pack_attrs of host/libcrypt/helpers.c and unpack_attrs of               *)
(* ta/crypt/cryp_taf.c.  A buffer is its length, the number and the array  *)
(* of packed attributes at its start, and the bytes after them.  The       *)
(* Makefile builds the TAs with the 64-bit kit (export-ta_arm64), so that  *)
(* size_t holds every sum and product below.                               *)
(***************************************************************************)
EXTENDS Integers, Sequences

\* A value attribute, and a reference to a buffer of bytes or, with no buffer, a length.
ValueAttr(id, a, b) == [id |-> id, value |-> TRUE, a |-> a, b |-> b]
RefAttr(id, bytes) == [id |-> id, value |-> FALSE, buffer |-> TRUE, length |-> Len(bytes), bytes |-> bytes]
NullAttr(id, length) == [id |-> id, value |-> FALSE, buffer |-> FALSE, length |-> length, bytes |-> << >>]

\* What the code has as a list of attributes, and as a buffer of packed ones.
IsAttr(x) ==
    IF x.value THEN x = ValueAttr(x.id, x.a, x.b)
    ELSE \/ x.bytes \in Seq(Nat) /\ x = RefAttr(x.id, x.bytes)
         \/ x.length \in Nat /\ x = NullAttr(x.id, x.length)
IsAttrList(attrs) ==
    /\ attrs \in Seq({attrs[n] : n \in DOMAIN attrs})
    /\ \A n \in DOMAIN attrs : attrs[n].value \in BOOLEAN /\ IsAttr(attrs[n])
IsBuffer(buf) ==
    /\ buf.len \in Nat /\ buf.count \in Nat
    /\ \A n \in 1..buf.count : ~buf.packed[n].value => buf.packed[n].a \in Nat /\ buf.packed[n].b \in Nat

HasBuffer(attr) == ~attr.value /\ attr.buffer

ROUNDUP(v, size) == ((v + size - 1) \div size) * size

\* sizeof(uint32_t) and sizeof(struct attr_packed).
CountSize == 4
PackedSize == 12

NoBuffer == [len |-> 0, count |-> 0, packed |-> << >>, bytes |-> << >>]

\* The bytes of an attribute take whole words.
Room(attr) == IF HasBuffer(attr) THEN ROUNDUP(attr.length, 4) ELSE 0

\* Where the bytes of every attribute end: after the array, in the attributes' order.
Ends(attrs) ==
    LET end[n \in 0..Len(attrs)] ==
            IF n = 0 THEN CountSize + PackedSize * Len(attrs)
            ELSE end[n - 1] + Room(attrs[n])
    IN  end

\* Mutant: the last attribute is given no padding.
BufferLengthUnpadded(attrs) ==
    LET last == attrs[Len(attrs)] IN
    Ends(attrs)[Len(attrs) - 1] + (IF HasBuffer(last) THEN (last.length \div 4) * 4 ELSE 0)

BufferLength(attrs) == Ends(attrs)[Len(attrs)]

\* The packed form of attribute n: a reference becomes an offset, 0 when it has no buffer.
Packed(attrs, n) ==
    LET x == attrs[n] IN
    IF x.value THEN [id |-> x.id, value |-> TRUE, a |-> x.a, b |-> x.b]
    ELSE [id |-> x.id, value |-> FALSE,
          a |-> IF x.buffer THEN Ends(attrs)[n - 1] ELSE 0, b |-> x.length]

pack_attrs(attrs) ==
    IF attrs = << >> THEN NoBuffer ELSE
    LET at == Ends(attrs)
        Holders(i) == {n \in 1..Len(attrs) : /\ HasBuffer(attrs[n])
                                             /\ i \in at[n - 1] .. at[n - 1] + attrs[n].length - 1}
    IN  [len    |-> BufferLength(attrs),
         count  |-> Len(attrs),
         packed |-> [n \in 1..Len(attrs) |-> Packed(attrs, n)],
         bytes  |-> [i \in at[0] .. at[Len(attrs)] - 1 |->
                        IF Holders(i) = {} THEN 0
                        ELSE LET n == CHOOSE n \in Holders(i) : TRUE
                             IN  attrs[n].bytes[i - at[n - 1] + 1]]]

-----------------------------------------------------------------------------
\* Mutant: the offset is checked and the length is not.
RefOutsideOffsetOnly(buf, p) == ~p.value /\ p.a # 0 /\ p.a > buf.len

\* The bytes that a reference names do not lie in the buffer.
RefOutside(buf, p) == ~p.value /\ p.a # 0 /\ p.a + p.b > buf.len

ArrayOutside(buf) == buf.len < CountSize \/ buf.len - CountSize < buf.count * PackedSize

\* The results unpack_attrs may have: TEE_Malloc fails or not.
UnpackResults(buf) ==
    IF buf.len = 0 THEN {"SUCCESS"}
    ELSE IF ArrayOutside(buf) THEN {"BAD_PARAMETERS"}
    ELSE IF buf.count = 0 THEN {"SUCCESS"}
    ELSE {"OUT_OF_MEMORY",
          IF \E n \in 1..buf.count : RefOutside(buf, buf.packed[n]) THEN "BAD_PARAMETERS" ELSE "SUCCESS"}

\* A byte of the buffer; what lies outside the part that pack_attrs filled is any byte.
ByteAt(buf, i) == IF i \in DOMAIN buf.bytes THEN buf.bytes[i] ELSE 0

\* The attributes of a buffer that is accepted.
unpack_attrs(buf) ==
    [n \in 1..buf.count |->
        LET p == buf.packed[n] IN
        IF p.value THEN ValueAttr(p.id, p.a, p.b)
        ELSE IF p.a = 0 THEN NullAttr(p.id, p.b)
        ELSE RefAttr(p.id, [i \in 1..p.b |-> ByteAt(buf, p.a + i - 1)])]

\* What the TA touches when it reads an accepted buffer: [first, end) of every area.
Touched(buf) ==
    IF buf.len = 0 THEN {}
    ELSE {<<0, CountSize + buf.count * PackedSize>>}
            \cup {<<p.a, p.a + p.b>> : p \in {buf.packed[n] : n \in {m \in 1..buf.count :
                                            ~buf.packed[m].value /\ buf.packed[m].a # 0}}}
=============================================================================
