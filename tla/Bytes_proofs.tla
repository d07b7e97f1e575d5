---------------------------- MODULE Bytes_proofs ----------------------------
(***************************************************************************)
(* Proofs about bytes: the buffers of a connection (ByteBuffer) and the    *)
(* packages of the binary protocol (ProtocolStream).  The modules share no *)
(* variable; each part stands for itself.                                  *)
(***************************************************************************)
EXTENDS ByteBuffer, ProtocolStream, TLAPS
-----------------------------------------------------------------------------
(***************************************************************************)
(* ProtocolStream: for every package, cut anywhere, and every sequence of  *)
(* reads, the reader's cursor stays in the package.  What the fields are,  *)
(* and what the lengths of strings in the package say, does not matter;    *)
(* the widths of the encodings may be any.                                 *)
(***************************************************************************)
\* Between the head and the end, or, without a whole head, still behind the head.
Inside(c) ==
    IF HeadLen <= Len(pkg) THEN HeadLen <= c /\ c <= Len(pkg) ELSE c = HeadLen

\* The inductive invariant: before the first read nothing was seen; CursorInPackage,
\* and the types its arithmetic needs.
CursorInv ==
    /\ phase # "read" => got = <<>>
    /\ phase = "read" => Len(pkg) \in Nat /\ cur \in Nat /\ CursorInPackage

\* What a read may return: a place in the package, and no success without a head.
ReadOk(r) == r.cur \in Nat /\ Inside(r.cur) /\ (r.ok => HeadLen <= Len(pkg))

LEMMA HeadType == HeadLen \in Nat
BY StreamAssumption, SMT DEF HeadLen

LEMMA InsideCur == CursorInv /\ phase = "read" => ReadOk(Bad(cur))
BY DEF CursorInv, CursorInPackage, ReadOk, Inside, Bad

\* Moving on over bytes that are there stays inside, and they are there only in a
\* package with a whole head.
LEMMA MoveOn ==
  ASSUME NEW c \in Nat, Inside(c), NEW n \in Nat, Len(pkg) \in Nat,
         n > 0 \/ HeadLen <= Len(pkg), Fits(c, n)
  PROVE  c + n \in Nat /\ Inside(c + n) /\ HeadLen <= Len(pkg)
BY HeadType, SMT DEF Inside, Fits

LEMMA BytesOk ==
  ASSUME CursorInv, phase = "read", NEW n \in Nat \ {0}, NEW r \in ReadBytes(n)
  PROVE  ReadOk(r)
<1>1. cur \in Nat /\ Inside(cur) /\ Len(pkg) \in Nat
  BY DEF CursorInv, CursorInPackage, Inside
<1>2. CASE Fits(cur, n)
  <2>1. r.cur = cur + n /\ r.ok BY <1>2 DEF ReadBytes, Good
  <2> QED BY <1>1, <1>2, <2>1, MoveOn, SMT DEF ReadOk
<1>3. CASE ~Fits(cur, n) BY <1>3, InsideCur DEF ReadBytes
<1> QED BY <1>2, <1>3

\* The head of a string: the cursor behind it, and its length as it is read, whatever
\* bytes it consists of.
LEMMA LengthOk ==
  ASSUME CursorInv, phase = "read", NEW r \in ReadLengthWithoutOffset
  PROVE  ReadOk(r) /\ (r.ok => r.value[1] \in Nat)
<1>1. cur \in Nat /\ Inside(cur) /\ Len(pkg) \in Nat
  BY DEF CursorInv, CursorInPackage, Inside
<1>2. PICK h \in Heads :
          r \in IF Fits(cur, h) THEN {Good(cur + h, <<n>>) : n \in read7BitEncoded(At(cur, h))}
                ELSE {Bad(cur)}
  BY DEF ReadLengthWithoutOffset
<1>3. h \in Nat /\ h > 0 BY <1>2, StreamAssumption, SMT DEF Heads, Ends
<1>4. CASE Fits(cur, h)
  <2>1. PICK n \in read7BitEncoded(At(cur, h)) : r = Good(cur + h, <<n>>) BY <1>2, <1>4
  <2>2. n \in Nat BY <2>1, StreamAssumption, SMT DEF read7BitEncoded
  <2>3. r.cur = cur + h /\ r.ok /\ r.value[1] = n BY <2>1 DEF Good
  <2> QED BY <1>1, <1>3, <1>4, <2>2, <2>3, MoveOn, Zenon DEF ReadOk
<1>5. CASE ~Fits(cur, h)
  <2>1. r = Bad(cur) BY <1>2, <1>5
  <2>2. ~r.ok BY <2>1 DEF Bad
  <2> QED BY <2>1, <2>2, InsideCur
<1> QED BY <1>4, <1>5

LEMMA StringOk ==
  ASSUME CursorInv, phase = "read", NEW maxlen, NEW r \in ReadString(maxlen)
  PROVE  ReadOk(r)
<1>1. PICK q \in ReadLengthWithoutOffset :
          r = IF ~q.ok \/ (maxlen # 0 /\ q.value[1] > maxlen) THEN Bad(cur)
              ELSE IF ~FitsBody(q.cur, q.value[1]) THEN Bad(q.cur)
              ELSE Good(q.cur + q.value[1], At(q.cur, q.value[1]))
  BY DEF ReadString
<1>2. ReadOk(q) /\ (q.ok => q.value[1] \in Nat) /\ Len(pkg) \in Nat
  BY <1>1, LengthOk DEF CursorInv
<1>3. CASE r = Bad(cur) BY <1>3, InsideCur
<1>4. CASE q.ok /\ r = Bad(q.cur)
  <2>1. r.cur = q.cur /\ ~r.ok BY <1>4 DEF Bad
  <2> QED BY <1>2, <2>1 DEF ReadOk
<1>5. CASE q.ok /\ FitsBody(q.cur, q.value[1]) /\ r = Good(q.cur + q.value[1], At(q.cur, q.value[1]))
  <2>1. r.cur = q.cur + q.value[1] /\ r.ok BY <1>5 DEF Good
  <2>2. Fits(q.cur, q.value[1]) BY <1>5 DEF FitsBody
  <2> QED BY <1>2, <1>5, <2>1, <2>2, MoveOn, Zenon DEF ReadOk
<1> QED BY <1>1, <1>3, <1>4, <1>5

LEMMA Int64Ok ==
  ASSUME CursorInv, phase = "read", NEW r \in ReadInt64
  PROVE  ReadOk(r)
<1>1. PICK q \in ReadString(Int64Buf) : r = IF q.ok THEN Good(q.cur, <<atoll(q.value)>>) ELSE q
  BY DEF ReadInt64
<1>2. ReadOk(q) BY <1>1, StringOk
<1>3. CASE q.ok
  <2>1. r.cur = q.cur BY <1>1, <1>3 DEF Good
  <2> QED BY <1>2, <1>3, <2>1 DEF ReadOk
<1>4. CASE ~q.ok BY <1>1, <1>2, <1>4
<1> QED BY <1>3, <1>4

\* A step of the reader.
LEMMA ReadStep ==
  ASSUME CursorInv, NEW type, NEW results, Reading(type, results),
         phase = "read" => \A r \in results : ReadOk(r)
  PROVE  CursorInv'
<1>1. PICK r \in results : cur' = r.cur /\ got' = Seen(type, r) BY DEF Reading
<1>2. phase = "read" /\ phase' = "read" /\ pkg' = pkg BY DEF Reading
<1>3. ReadOk(r) BY <1>1, <1>2
<1>4. ~(HeadLen <= Len(pkg)) => got' = Lost BY <1>1, <1>3 DEF ReadOk, Seen
<1> QED BY <1>1, <1>2, <1>3, <1>4 DEF CursorInv, CursorInPackage, ReadOk, Inside

\* For every width of the encodings, every package whatever its bytes, every place it
\* was cut at and every sequence of reads: the cursor of a BinaryStreamReader stays in
\* the package, as the assertion in IsEnd expects.
THEOREM CursorCorrect == Spec => []CursorInPackage
<1>1. Init => CursorInv BY DEF Init, CursorInv
<1>2. CursorInv /\ [Next]_vars => CursorInv'
  <2> SUFFICES ASSUME CursorInv, [Next]_vars PROVE CursorInv' OBVIOUS
  <2>1. ASSUME NEW f, Write(f) PROVE CursorInv' BY <2>1 DEF Write, CursorInv
  <2>2. ASSUME NEW junk, Clear(junk) PROVE CursorInv' BY <2>2 DEF Clear, CursorInv
  <2>3. CASE SendOutbuf BY <2>3 DEF SendOutbuf, send_pkg, CursorInv
  <2>4. ASSUME NEW junk, NEW cmd, NEW seq, NEW data, Send(junk, cmd, seq, data) PROVE CursorInv'
    BY <2>4, Zenon DEF Send, send_pkg, CursorInv
  <2>5. ASSUME NEW len \in 0 .. MAX_COMPRESS_BUF_SIZE, BinaryStreamReader(len) PROVE CursorInv'
    <3>1. len \in Nat BY StreamAssumption, SMT
    <3>2. Len(pkg') = len BY <2>5, <3>1, SMT DEF BinaryStreamReader
    <3>3. cur' = HeadLen /\ got' = <<>> BY <2>5 DEF BinaryStreamReader, CursorInv
    <3>4. HeadLen <= HeadLen BY HeadType, SMT
    <3> QED BY <2>5, <3>1, <3>2, <3>3, <3>4, HeadType DEF BinaryStreamReader, CursorInv, CursorInPackage
  <2>6. CASE \/ Reading("int32", ReadInt32) \/ Reading("short", ReadShort) \/ Reading("char", ReadChar)
    <3>1. IntSize \in Nat \ {0} /\ ShortSize \in Nat \ {0} /\ 1 \in Nat \ {0} BY StreamAssumption, SMT
    <3>2. phase = "read" => /\ \A r \in ReadInt32 : ReadOk(r)
                            /\ \A r \in ReadShort : ReadOk(r)
                            /\ \A r \in ReadChar : ReadOk(r)
      BY <3>1, BytesOk DEF ReadInt32, ReadShort, ReadChar
    <3> QED BY <2>6, <3>2, ReadStep
  <2>7. CASE Reading("int64", ReadInt64) BY <2>7, Int64Ok, ReadStep, Zenon
  <2>8. ASSUME NEW maxlen, Reading("text", ReadString(maxlen)) PROVE CursorInv'
    BY <2>8, StringOk, ReadStep, Zenon
  <2>9. CASE Reading("length", ReadLength) BY <2>9, LengthOk, ReadStep DEF ReadLength
  <2>10. CASE UNCHANGED vars BY <2>10 DEF vars, CursorInv, CursorInPackage
  <2> QED BY <2>1, <2>2, <2>3, <2>4, <2>5, <2>6, <2>7, <2>8, <2>9, <2>10 DEF Next
<1>3. CursorInv => CursorInPackage BY DEF CursorInv, CursorInPackage
<1> QED BY <1>1, <1>2, <1>3, PTL DEF Spec
-----------------------------------------------------------------------------
(***************************************************************************)
(* ByteBuffer, for every size of the reserved prefix, of the vector and of *)
(* the blocks.                                                             *)
(***************************************************************************)
\* A well-formed buffer: IndexInv and the types, of any buffer b.  The
\* vector always keeps room for the reserved prefix, which bb_retrieve_all
\* relies on when it resets both indices to cheap_prepend.
BufOK(b) ==
    /\ b.size \in Nat
    /\ cheap_prepend <= b.size
    /\ b.r \in Nat
    /\ b.w \in Nat
    /\ b.r <= b.w
    /\ b.w <= b.size
    /\ b.mem \in [0 .. (b.size - 1) -> Char]

\* The readable bytes of b are the sequence s.
Holds(b, s) ==
    /\ Len(s) = bb_bytes_readable(b)
    /\ \A i \in 1 .. Len(s) : s[i] = b.mem[b.r + i - 1]

LEMMA DataIsSeq == Data \subseteq Seq(Char)
BY BufferAssumption DEF Data

\* The fields of a buffer built by Buf.
LEMMA BufFields ==
    ASSUME NEW size, NEW mem, NEW r, NEW w
    PROVE  LET b == Buf(size, mem, r, w)
           IN  b.size = size /\ b.mem = mem /\ b.r = r /\ b.w = w
BY DEF Buf

\* A new buffer is well formed and empty.
LEMMA NewBufferOK == BufOK(NewBuffer) /\ Holds(NewBuffer, <<>>) /\ NewBuffer.r = cheap_prepend
<1>1. /\ NewBuffer.size = cheap_prepend + initial_size
      /\ NewBuffer.mem = [i \in 0 .. (cheap_prepend + initial_size - 1) |-> Zero]
      /\ NewBuffer.r = cheap_prepend
      /\ NewBuffer.w = cheap_prepend
  BY BufFields DEF NewBuffer
<1> QED BY <1>1, BufferAssumption DEF BufOK, Holds, bb_bytes_readable

\* The readable bytes of a well-formed buffer are a sequence of bytes.
LEMMA ReadableOK ==
    ASSUME NEW b, BufOK(b)
    PROVE  /\ Unread(b) \in Seq(Char)
           /\ Len(Unread(b)) = b.w - b.r
           /\ \A i \in 1 .. (b.w - b.r) : Unread(b)[i] = b.mem[b.r + i - 1]
<1>1. b.w - b.r \in Nat
  BY DEF BufOK
<1>2. \A i \in 1 .. (b.w - b.r) : b.r + i - 1 \in 0 .. (b.size - 1)
  BY DEF BufOK
<1>3. \A i \in 1 .. (b.w - b.r) : b.mem[b.r + i - 1] \in Char
  BY <1>2 DEF BufOK
<1> QED BY <1>1, <1>3 DEF Unread, bb_bytes_readable

\* m is the memory of n bytes with the block data copied to position at.
Copied(m, n, mem, data, at) ==
    /\ m \in [0 .. (n - 1) -> Char]
    /\ \A i \in 0 .. (n - 1) :
          m[i] = IF at <= i /\ i < at + Len(data) THEN data[i - at + 1] ELSE mem[i]

\* A copy that fits changes exactly the bytes it covers.
LEMMA CopyToOK ==
    ASSUME NEW n \in Nat, NEW mem \in [0 .. (n - 1) -> Char], NEW data \in Seq(Char),
           NEW at \in Nat, at + Len(data) <= n
    PROVE  Copied(CopyTo(mem, data, at), n, mem, data, at)
<1>1. Len(data) \in Nat
  OBVIOUS
<1>2. DOMAIN mem \cup at .. (at + Len(data) - 1) = 0 .. (n - 1)
  BY <1>1
<1>3. CopyTo(mem, data, at) = [i \in 0 .. (n - 1) |->
            IF i \in at .. (at + Len(data) - 1) THEN data[i - at + 1] ELSE mem[i]]
  BY <1>2 DEF CopyTo
<1>4. \A i \in at .. (at + Len(data) - 1) : data[i - at + 1] \in Char
  BY <1>1
<1> QED BY <1>1, <1>3, <1>4 DEF Copied

\* Growing the vector keeps its bytes.
LEMMA ResizeOK ==
    ASSUME NEW b, BufOK(b), NEW n \in Nat, n >= b.w
    PROVE  LET z == Resize(b, n)
           IN  /\ z.size = n /\ z.r = b.r /\ z.w = b.w
               /\ z.mem \in [0 .. (n - 1) -> Char]
               /\ \A i \in 0 .. (b.w - 1) : z.mem[i] = b.mem[i]
<1> DEFINE m == [i \in 0 .. (n - 1) |-> IF i < b.size THEN b.mem[i] ELSE Zero]
<1>1. m \in [0 .. (n - 1) -> Char]
  BY BufferAssumption DEF BufOK
<1>2. \A i \in 0 .. (b.w - 1) : m[i] = b.mem[i]
  BY DEF BufOK
<1>3. Resize(b, n) = Buf(n, m, b.r, b.w)
  BY DEF Resize
<1> HIDE DEF m
<1> QED BY <1>1, <1>2, <1>3, BufFields

\* _make_zoom keeps the readable bytes and leaves room for len bytes: its
\* early return is not reached when the room was too small.
LEMMA MakeZoomOK ==
    ASSUME NEW b, BufOK(b), NEW len \in Nat, bb_bytes_writeable(b) < len,
           NEW s \in Seq(Char), Holds(b, s)
    PROVE  LET z == _make_zoom(b, len)
           IN  BufOK(z) /\ bb_bytes_writeable(z) >= len /\ Holds(z, s)
<1> USE BufferAssumption DEF bb_bytes_writeable, bb_bytes_readable, bb_bytes_prependable
<1>1. CASE b.size - b.w + b.r < len + cheap_prepend
  <2> DEFINE n == b.w + len
             z == Resize(b, n)
  <2>1. _make_zoom(b, len) = z
    BY <1>1 DEF _make_zoom
  <2>2. n \in Nat /\ n >= b.w /\ n - b.w = len
    BY DEF BufOK
  <2> HIDE DEF n
  <2>3. /\ z.size = n /\ z.r = b.r /\ z.w = b.w
        /\ z.mem \in [0 .. (n - 1) -> Char]
        /\ \A i \in 0 .. (b.w - 1) : z.mem[i] = b.mem[i]
    BY <2>2, ResizeOK, Zenon
  <2> HIDE DEF z
  <2>4. BufOK(z) /\ z.size - z.w >= len
    <3>1. cheap_prepend <= n
      BY DEF BufOK, n
    <3> QED BY <2>2, <2>3, <3>1 DEF BufOK
  <2>5. Holds(z, s)
    <3>1. Len(s) = z.w - z.r
      BY <2>3 DEF Holds
    <3>2. ASSUME NEW i \in 1 .. Len(s) PROVE s[i] = z.mem[z.r + i - 1]
      <4>1. b.r + i - 1 \in 0 .. (b.w - 1)
        BY DEF BufOK, Holds
      <4>2. z.mem[b.r + i - 1] = b.mem[b.r + i - 1]
        BY <4>1, <2>3
      <4> QED BY <4>2, <2>3, Zenon DEF Holds
    <3> QED BY <3>1, <3>2, Zenon DEF Holds
  <2> QED BY <2>1, <2>4, <2>5, Zenon
<1>2. CASE ~(b.size - b.w + b.r < len + cheap_prepend)
  <2> DEFINE m == CopyTo(b.mem, Unread(b), cheap_prepend)
             z == Buf(b.size, m, cheap_prepend, cheap_prepend + (b.w - b.r))
  <2>1. cheap_prepend < b.r
    BY <1>2 DEF BufOK
  <2>2. _make_zoom(b, len) = z
    BY <1>2, <2>1 DEF _make_zoom, BufOK
  <2>3. /\ m \in [0 .. (b.size - 1) -> Char]
        /\ \A i \in 0 .. (b.size - 1) : m[i] =
              IF cheap_prepend <= i /\ i < cheap_prepend + (b.w - b.r)
              THEN Unread(b)[i - cheap_prepend + 1] ELSE b.mem[i]
    <3>1. /\ Unread(b) \in Seq(Char)
          /\ Len(Unread(b)) = b.w - b.r
      BY ReadableOK
    <3>2. cheap_prepend + Len(Unread(b)) <= b.size
      BY <2>1, <3>1 DEF BufOK
    <3>3. b.size \in Nat /\ b.mem \in [0 .. (b.size - 1) -> Char]
      BY DEF BufOK
    <3>4. Copied(m, b.size, b.mem, Unread(b), cheap_prepend)
      BY <3>1, <3>2, <3>3, CopyToOK, Zenon
    <3> QED BY <3>1, <3>4, Zenon DEF Copied
  <2> HIDE DEF m
  <2>4. \A i \in 1 .. (b.w - b.r) : m[cheap_prepend + i - 1] = b.mem[b.r + i - 1]
    <3> TAKE i \in 1 .. (b.w - b.r)
    <3> DEFINE j == cheap_prepend + i - 1
    <3>1. /\ j \in 0 .. (b.size - 1)
          /\ cheap_prepend <= j /\ j < cheap_prepend + (b.w - b.r)
          /\ j - cheap_prepend + 1 = i
      BY <2>1, SMTT(30) DEF BufOK
    <3> HIDE DEF j
    <3>2. m[j] = Unread(b)[i]
      BY <3>1, <2>3, Zenon
    <3> QED BY <3>2, ReadableOK DEF j
  <2>5. z.size = b.size /\ z.mem = m /\ z.r = cheap_prepend
        /\ z.w = cheap_prepend + (b.w - b.r)
    BY BufFields
  <2> HIDE DEF z
  <2>6. BufOK(z) /\ z.size - z.w >= len
    BY <1>2, <2>1, <2>3, <2>5 DEF BufOK
  <2>7. Holds(z, s)
    <3>1. Len(s) = z.w - z.r /\ Len(s) = b.w - b.r
      BY <2>5 DEF BufOK, Holds
    <3>2. \A i \in 1 .. Len(s) : s[i] = z.mem[z.r + i - 1]
      BY <2>4, <2>5, <3>1, Zenon DEF Holds
    <3> QED BY <3>1, <3>2, Zenon DEF Holds
  <2> QED BY <2>2, <2>6, <2>7
<1> QED BY <1>1, <1>2, Zenon

\* A well-formed buffer whose readable bytes are the sequence s.
Sound(b, s) ==
    /\ BufOK(b)
    /\ s \in Seq(Char)
    /\ Holds(b, s)

\* Every well-formed buffer holds its own readable bytes.
LEMMA SoundReadable ==
    ASSUME NEW b, BufOK(b)
    PROVE  Sound(b, Unread(b))
BY ReadableOK DEF Sound, Holds, bb_bytes_readable

LEMMA CheckWritableOK ==
    ASSUME NEW b, NEW s, Sound(b, s), NEW len \in Nat
    PROVE  LET z == bb_bytes_check_writable(b, len)
           IN  Sound(z, s) /\ z.size - z.w >= len
<1>1. CASE bb_bytes_writeable(b) < len
  BY <1>1, MakeZoomOK, Zenon DEF bb_bytes_check_writable, Sound, bb_bytes_writeable
<1>2. CASE ~(bb_bytes_writeable(b) < len)
  BY <1>2 DEF bb_bytes_check_writable, bb_bytes_writeable, Sound, BufOK
<1> QED BY <1>1, <1>2, Zenon

\* bb_append puts the block behind the content and stays inside the vector.
LEMMA AppendOK ==
    ASSUME NEW b, NEW s, Sound(b, s), NEW data \in Seq(Char)
    PROVE  Sound(bb_append(b, data), s \o data)
<1> DEFINE room == bb_bytes_check_writable(b, Len(data))
           m == CopyTo(room.mem, data, room.w)
           c == Buf(room.size, m, room.r, room.w)
           z == Buf(room.size, m, room.r, room.w + Len(data))
<1>1. Len(data) \in Nat
  OBVIOUS
<1>2. Sound(room, s) /\ room.size - room.w >= Len(data)
  BY <1>1, CheckWritableOK
<1>3. bb_append(b, data) = bb_bytes_written(c, Len(data))
  BY DEF bb_append
<1> HIDE DEF room
<1>4. /\ room.size \in Nat /\ cheap_prepend <= room.size /\ room.r \in Nat /\ room.w \in Nat
      /\ room.r <= room.w /\ room.w <= room.size
      /\ room.mem \in [0 .. (room.size - 1) -> Char]
      /\ room.w + Len(data) <= room.size
  BY <1>1, <1>2 DEF Sound, BufOK
<1>5. Copied(m, room.size, room.mem, data, room.w)
  BY <1>4, CopyToOK, Zenon
<1> HIDE DEF m
<1>6. c.size = room.size /\ c.mem = m /\ c.r = room.r /\ c.w = room.w
  BY BufFields
<1> HIDE DEF c
<1>7. bb_append(b, data) = z
  BY <1>1, <1>3, <1>4, <1>6 DEF bb_bytes_written, bb_bytes_writeable
<1>8. z.size = room.size /\ z.mem = m /\ z.r = room.r /\ z.w = room.w + Len(data)
  BY BufFields
<1> HIDE DEF z
<1>9. BufOK(z)
  BY <1>1, <1>4, <1>5, <1>8 DEF BufOK, Copied
<1>10. /\ s \in Seq(Char)
       /\ s \o data \in Seq(Char)
       /\ Len(s) \in Nat
       /\ Len(s) = room.w - room.r
       /\ Len(s \o data) = Len(s) + Len(data)
       /\ Len(s \o data) = z.w - z.r
  <2>1. s \in Seq(Char) /\ Len(s) = room.w - room.r
    BY <1>2 DEF Sound, Holds, bb_bytes_readable
  <2>2. s \o data \in Seq(Char) /\ Len(s) \in Nat /\ Len(s \o data) = Len(s) + Len(data)
    BY <2>1
  <2>3. Len(s) + Len(data) = z.w - z.r
    BY <1>1, <1>4, <1>8, <2>1
  <2> QED BY <2>1, <2>2, <2>3, Zenon
<1>11. ASSUME NEW i \in 1 .. Len(s \o data)
       PROVE  (s \o data)[i] = z.mem[z.r + i - 1]
  <2>1. room.r + i - 1 \in 0 .. (room.size - 1)
    <3>1. i \in Nat /\ 1 <= i /\ i <= Len(s) + Len(data)
      BY <1>1, <1>10
    <3>2. room.r + i - 1 <= room.size - 1 /\ room.r + i - 1 >= 0
      <4> DEFINE rr == room.r  ww == room.w  sz == room.size  k == Len(data)  l == Len(s)
      <4>1. rr \in Nat /\ ww \in Nat /\ sz \in Nat /\ k \in Nat /\ l \in Nat
            /\ ww + k <= sz /\ l = ww - rr /\ i \in Nat /\ 1 <= i /\ i <= l + k
        BY <3>1, <1>1, <1>4, <1>10, Zenon
      <4> HIDE DEF rr, ww, sz, k, l
      <4>2. rr + i - 1 <= sz - 1 /\ rr + i - 1 >= 0
        BY <4>1
      <4> QED BY <4>2 DEF rr, sz
    <3>3. room.r \in Int /\ room.size \in Int
      BY <1>4
    <3> QED BY <3>1, <3>2, <3>3
  <2>2. CASE i <= Len(s)
    <3>1. (s \o data)[i] = s[i]
      BY <2>2 DEF Sound
    <3>2. s[i] = room.mem[room.r + i - 1]
      BY <1>2, <1>10, <2>2 DEF Sound, Holds
    <3>3. ~(room.w <= room.r + i - 1)
      BY <1>4, <1>10, <2>2
    <3>4. m[room.r + i - 1] = room.mem[room.r + i - 1]
      BY <1>5, <2>1, <3>3 DEF Copied
    <3> QED BY <1>8, <3>1, <3>2, <3>4, Zenon
  <2>3. CASE i > Len(s)
    <3>1. (s \o data)[i] = data[i - Len(s)]
      BY <1>2, <2>3 DEF Sound
    <3>3. room.w <= room.r + i - 1 /\ room.r + i - 1 < room.w + Len(data)
      <4> DEFINE rr == room.r  ww == room.w  k == Len(data)  l == Len(s)
      <4>1. rr \in Nat /\ ww \in Nat /\ k \in Nat /\ l \in Nat
            /\ l = ww - rr /\ i \in Nat /\ i > l /\ i <= l + k
        BY <1>1, <1>4, <1>10, <2>3
      <4> HIDE DEF rr, ww, k, l
      <4>2. ww <= rr + i - 1 /\ rr + i - 1 < ww + k
        BY <4>1
      <4> QED BY <4>2 DEF rr, ww, k
    <3>4. m[room.r + i - 1] = data[i - Len(s)]
      <4> DEFINE x == room.r + i - 1
      <4>1. x \in 0 .. (room.size - 1) /\ room.w <= x /\ x < room.w + Len(data)
        BY <2>1, <3>3
      <4>2. x - room.w + 1 = i - Len(s)
        <5> DEFINE rr == room.r  ww == room.w  l == Len(s)
        <5>1. rr \in Nat /\ ww \in Nat /\ l \in Nat /\ l = ww - rr /\ i \in Nat
          BY <1>1, <1>4, <1>10
        <5> HIDE DEF rr, ww, l
        <5>2. (rr + i - 1) - ww + 1 = i - l
          BY <5>1
        <5> QED BY <5>2 DEF rr, ww, l
      <4> HIDE DEF x
      <4>3. m[x] = data[x - room.w + 1]
        BY <1>5, <4>1 DEF Copied
      <4> QED BY <4>2, <4>3 DEF x
    <3> QED BY <1>8, <3>1, <3>4
  <2> QED BY <1>10, <2>2, <2>3
<1> QED BY <1>7, <1>9, <1>10, <1>11, Zenon DEF Sound, Holds, bb_bytes_readable

\* bb_retrieve drops the first len bytes of the content, or nothing.
LEMMA RetrieveOK ==
    ASSUME NEW b, NEW s, Sound(b, s), NEW len \in Nat
    PROVE  Sound(bb_retrieve(b, len),
                 IF len > Len(s) THEN s ELSE SubSeq(s, len + 1, Len(s)))
<1> USE BufferAssumption
<1>1. /\ b.size \in Nat /\ b.r \in Nat /\ b.w \in Nat /\ s \in Seq(Char)
      /\ Len(s) \in Nat /\ Len(s) = b.w - b.r
  BY DEF Sound, BufOK, Holds, bb_bytes_readable
<1>2. CASE len > Len(s)
  BY <1>1, <1>2 DEF bb_retrieve, bb_bytes_readable
<1>3. CASE len = Len(s)
  <2>1. bb_retrieve(b, len) = Buf(b.size, b.mem, cheap_prepend, cheap_prepend)
    BY <1>1, <1>3 DEF bb_retrieve, bb_retrieve_all, bb_bytes_readable
  <2>2. SubSeq(s, len + 1, Len(s)) = <<>>
    BY <1>1, <1>3
  <2>3. Sound(Buf(b.size, b.mem, cheap_prepend, cheap_prepend), <<>>)
    BY <1>1, BufFields DEF Sound, BufOK, Holds, bb_bytes_readable
  <2>4. ~(len > Len(s))
    BY <1>1, <1>3
  <2> QED BY <2>1, <2>2, <2>3, <2>4, Zenon
<1>4. CASE len < Len(s)
  <2> DEFINE t == SubSeq(s, len + 1, Len(s))
             z == Buf(b.size, b.mem, b.r + len, b.w)
  <2>1. bb_retrieve(b, len) = z
    BY <1>1, <1>4 DEF bb_retrieve, bb_bytes_readable
  <2>2. z.size = b.size /\ z.mem = b.mem /\ z.r = b.r + len /\ z.w = b.w
    BY BufFields
  <2>3. t \in Seq(Char) /\ Len(t) = Len(s) - len
        /\ \A i \in 1 .. (Len(s) - len) : t[i] = s[len + i]
    BY <1>1, <1>4
  <2> HIDE DEF z, t
  <2>4. BufOK(z)
    BY <1>1, <1>4, <2>2 DEF Sound, BufOK
  <2>5. \A i \in 1 .. (Len(s) - len) : s[len + i] = b.mem[b.r + (len + i) - 1]
    BY <1>1, <1>4 DEF Sound, Holds
  <2>6. ASSUME NEW i \in 1 .. Len(t) PROVE t[i] = z.mem[z.r + i - 1]
    <3>1. b.r + (len + i) - 1 = z.r + i - 1 /\ i \in 1 .. (Len(s) - len)
      BY <1>1, <2>2, <2>3
    <3> QED BY <2>2, <2>3, <2>5, <3>1, Zenon
  <2>7. Len(t) = z.w - z.r
    BY <1>1, <2>2, <2>3
  <2>8. Sound(z, t)
    BY <2>3, <2>4, <2>6, <2>7, Zenon DEF Sound, Holds, bb_bytes_readable
  <2> QED BY <1>1, <1>4, <2>1, <2>8 DEF t
<1> QED BY <1>1, <1>2, <1>3, <1>4

\* bb_bytes_unwrite takes the last len bytes of the content back, or nothing.
LEMMA UnwriteOK ==
    ASSUME NEW b, NEW s, Sound(b, s), NEW len \in Nat
    PROVE  Sound(bb_bytes_unwrite(b, len),
                 IF len > Len(s) THEN s ELSE SubSeq(s, 1, Len(s) - len))
<1>1. /\ b.size \in Nat /\ b.r \in Nat /\ b.w \in Nat /\ s \in Seq(Char)
      /\ Len(s) \in Nat /\ Len(s) = b.w - b.r
  BY DEF Sound, BufOK, Holds, bb_bytes_readable
<1>2. CASE len > Len(s)
  BY <1>1, <1>2 DEF bb_bytes_unwrite, bb_bytes_readable
<1>3. CASE len <= Len(s)
  <2> DEFINE t == SubSeq(s, 1, Len(s) - len)
             z == Buf(b.size, b.mem, b.r, b.w - len)
  <2>1. bb_bytes_unwrite(b, len) = z
    BY <1>1, <1>3 DEF bb_bytes_unwrite, bb_bytes_readable
  <2>2. z.size = b.size /\ z.mem = b.mem /\ z.r = b.r /\ z.w = b.w - len
    BY BufFields
  <2>3. t \in Seq(Char) /\ Len(t) = Len(s) - len
        /\ \A i \in 1 .. (Len(s) - len) : t[i] = s[i]
    BY <1>1, <1>3
  <2> HIDE DEF z, t
  <2>4. BufOK(z)
    BY <1>1, <1>3, <2>2 DEF Sound, BufOK
  <2>5. \A i \in 1 .. Len(t) : t[i] = z.mem[z.r + i - 1]
    BY <1>1, <2>2, <2>3 DEF Sound, Holds
  <2>6. Len(t) = z.w - z.r
    BY <1>1, <2>2, <2>3
  <2>7. Sound(z, t)
    BY <2>3, <2>4, <2>5, <2>6, Zenon DEF Sound, Holds, bb_bytes_readable
  <2> QED BY <1>1, <1>3, <2>1, <2>7 DEF t
<1> QED BY <1>1, <1>2, <1>3

\* bb_prepend puts the block before the content when it fits there.
LEMMA PrependOK ==
    ASSUME NEW b, NEW s, Sound(b, s), NEW data \in Seq(Char)
    PROVE  Sound(bb_prepend(b, data),
                 IF Len(data) > bb_bytes_prependable(b) THEN s ELSE data \o s)
<1> DEFINE k == Len(data)
           at == b.r - k
           m == CopyTo(b.mem, data, at)
           z == Buf(b.size, m, at, b.w)
           t == data \o s
<1>1. /\ b.size \in Nat /\ b.r \in Nat /\ b.w \in Nat /\ s \in Seq(Char)
      /\ b.r <= b.w /\ b.w <= b.size /\ cheap_prepend <= b.size
      /\ b.mem \in [0 .. (b.size - 1) -> Char]
      /\ Len(s) \in Nat /\ Len(s) = b.w - b.r /\ k \in Nat
  BY DEF Sound, BufOK, Holds, bb_bytes_readable
<1>2. CASE k > b.r
  BY <1>2 DEF bb_prepend, bb_bytes_prependable
<1>3. CASE k <= b.r
  <2>1. bb_prepend(b, data) = z
    BY <1>1, <1>3 DEF bb_prepend, bb_bytes_prependable
  <2>2. at \in Nat /\ at + k <= b.size /\ at + k = b.r
    BY <1>1, <1>3
  <2>3. t \in Seq(Char) /\ Len(t) = k + Len(s)
        /\ (\A i \in 1 .. k : t[i] = data[i])
        /\ (\A i \in 1 .. Len(t) : i > k => t[i] = s[i - k])
    BY <1>1
  <2> HIDE DEF at, t
  <2>4. Copied(m, b.size, b.mem, data, at)
    BY <1>1, <2>2, CopyToOK, Zenon
  <2> HIDE DEF m, k
  <2>5. z.size = b.size /\ z.mem = m /\ z.r = at /\ z.w = b.w
    BY BufFields
  <2> HIDE DEF z
  <2>6. BufOK(z)
    BY <1>1, <2>2, <2>4, <2>5 DEF BufOK, Copied
  <2>7. Len(t) = z.w - z.r
    BY <1>1, <2>2, <2>3, <2>5
  <2>8. ASSUME NEW i \in 1 .. Len(t)
        PROVE  t[i] = z.mem[z.r + i - 1]
    <3> DEFINE x == at + i - 1
    <3> DEFINE rr == b.r  ww == b.w  sz == b.size  l == Len(s)
    <3>0. /\ rr \in Nat /\ ww \in Nat /\ sz \in Nat /\ l \in Nat /\ k \in Nat /\ at \in Nat
          /\ ww <= sz /\ l = ww - rr /\ at + k = rr
          /\ i \in Nat /\ 1 <= i /\ i <= k + l
      BY <1>1, <2>2, <2>3
    <3> HIDE DEF rr, ww, sz, l
    <3>1. x \in 0 .. (sz - 1) /\ x - at + 1 = i /\ at <= x
          /\ (x < at + k <=> i <= k) /\ i \in Nat
      BY <3>0
    <3>2. i > k => i - k \in 1 .. l /\ rr + (i - k) - 1 = x
      BY <3>0
    <3> USE DEF rr, sz, l
    <3> HIDE DEF x
    <3>3. m[x] = IF x < at + k THEN data[x - at + 1] ELSE b.mem[x]
      BY <2>4, <3>1 DEF Copied, k
    <3>4. CASE i <= k
      BY <2>3, <2>5, <3>1, <3>3, <3>4 DEF x
    <3>5. CASE i > k
      <4>1. s[i - k] = b.mem[b.r + (i - k) - 1]
        BY <3>2, <3>5 DEF Sound, Holds
      <4>2. ~(x < at + k)
        BY <1>1, <3>1, <3>5
      <4>3. t[i] = s[i - k]
        BY <2>3, <3>5
      <4>4. t[i] = m[x]
        BY <4>1, <4>2, <4>3, <3>2, <3>3, <3>5
      <4> QED BY <4>4, <2>5 DEF x
    <3> QED BY <1>1, <3>1, <3>4, <3>5
  <2>9. Sound(z, t)
    BY <2>3, <2>6, <2>7, <2>8, Zenon DEF Sound, Holds, bb_bytes_readable
  <2>10. ~(Len(data) > bb_bytes_prependable(b))
    BY <1>1, <1>3 DEF bb_bytes_prependable, k
  <2> QED BY <2>1, <2>9, <2>10, Zenon DEF t
<1> QED BY <1>1, <1>2, <1>3

\* bb_shrink moves the content to a new vector and loses nothing.
LEMMA ShrinkOK ==
    ASSUME NEW b, NEW s, Sound(b, s), NEW reserve \in Nat
    PROVE  Sound(bb_shrink(b, reserve), s)
<1> DEFINE len == bb_bytes_readable(b) + reserve
           fresh == bb_bytes_check_writable(NewBuffer, len)
<1>1. Unread(b) = s
  <2>1. Len(s) = b.w - b.r /\ s = [i \in 1 .. Len(s) |-> s[i]]
    BY DEF Sound, Holds, bb_bytes_readable
  <2>2. \A i \in 1 .. Len(s) : s[i] = b.mem[b.r + i - 1]
    BY DEF Sound, Holds
  <2>3. Unread(b) = [i \in 1 .. Len(s) |-> b.mem[b.r + i - 1]]
    BY <2>1 DEF Unread, bb_bytes_readable
  <2> QED BY <2>1, <2>2, <2>3
<1>2. len \in Nat
  BY DEF Sound, BufOK, bb_bytes_readable
<1>3. Sound(NewBuffer, <<>>)
  BY NewBufferOK DEF Sound
<1> HIDE DEF len
<1>4. Sound(fresh, <<>>)
  BY <1>2, <1>3, CheckWritableOK
<1> HIDE DEF fresh
<1>5. s \in Seq(Char) /\ <<>> \o s = s
  BY DEF Sound
<1>6. Sound(bb_append(fresh, s), s)
  BY <1>4, <1>5, AppendOK, Zenon
<1> QED BY <1>1, <1>6 DEF bb_shrink, fresh, len

\* A socket read leaves the buffer well formed, whatever bytes it holds then.
LEMMA ReadFdOK ==
    ASSUME NEW b, BufOK(b), NEW data \in Seq(Char)
    PROVE  BufOK(bb_read_fd(b, data))
<1> DEFINE n == Len(data)
           full == Buf(b.size, b.mem, b.r, b.size)
           rest == SubSeq(data, 1, n - (b.size - b.w))
<1>1. CASE n <= b.size - b.w
  <2>1. bb_read_fd(b, data) = Buf(b.size, b.mem, b.r, b.w + n)
    BY <1>1 DEF bb_read_fd, bb_bytes_writeable
  <2>2. n \in Nat
    OBVIOUS
  <2> HIDE DEF n
  <2> DEFINE z == Buf(b.size, b.mem, b.r, b.w + n)
  <2>3. z.size = b.size /\ z.mem = b.mem /\ z.r = b.r /\ z.w = b.w + n
    BY BufFields
  <2> HIDE DEF z
  <2>4. BufOK(z)
    BY <1>1, <2>2, <2>3 DEF BufOK
  <2> QED BY <2>1, <2>4 DEF z
<1>2. CASE ~(n <= b.size - b.w)
  <2>1. bb_read_fd(b, data) = bb_append(full, rest)
    BY <1>2 DEF bb_read_fd, bb_bytes_writeable
  <2>2. rest \in Seq(Char)
    BY <1>2 DEF BufOK
  <2>3. BufOK(full)
    BY BufFields DEF BufOK
  <2> HIDE DEF full, rest
  <2> QED BY <2>1, <2>2, <2>3, SoundReadable, AppendOK, Zenon DEF Sound
<1> QED BY <1>1, <1>2
-----------------------------------------------------------------------------
(***************************************************************************)
(* The buffer filled with bb_append: Sound(buf, content) is inductive.     *)
(***************************************************************************)

\* bb_retrieve_all leaves a well-formed, empty buffer.
LEMMA RetrieveAllOK ==
    ASSUME NEW b, BufOK(b)
    PROVE  Sound(bb_retrieve_all(b), <<>>)
<1> DEFINE z == Buf(b.size, b.mem, cheap_prepend, cheap_prepend)
<1>1. z.size = b.size /\ z.mem = b.mem /\ z.r = cheap_prepend /\ z.w = cheap_prepend
  BY BufFields
<1> HIDE DEF z
<1>2. Sound(z, <<>>)
  BY <1>1, BufferAssumption DEF Sound, BufOK, Holds, bb_bytes_readable
<1> QED BY <1>2 DEF bb_retrieve_all, z

\* The step of the induction, one case per operation of the buffer.
LEMMA SoundStep ==
    ASSUME Sound(buf, content), BufferNext
    PROVE  Sound(buf', content')
<1> USE BufferAssumption
<1>1. ASSUME NEW data \in Data, Append_(data) PROVE Sound(buf', content')
  BY <1>1, AppendOK, DataIsSeq, Zenon DEF Append_
<1>2. ASSUME NEW data \in Data, Prepend(data) PROVE Sound(buf', content')
  BY <1>2, PrependOK, DataIsSeq DEF Prepend
<1>3. ASSUME NEW len \in 0 .. MaxLen, CheckWritable(len) PROVE Sound(buf', content')
  BY <1>3, CheckWritableOK DEF CheckWritable
<1>4. ASSUME NEW len \in Nat, Retrieve(len) PROVE Sound(buf', content')
  BY <1>4, RetrieveOK DEF Retrieve
<1>5. ASSUME NEW len \in 0 .. MaxLen, Unwrite(len) PROVE Sound(buf', content')
  BY <1>5, UnwriteOK DEF Unwrite
<1>6. ASSUME NEW len \in 0 .. MaxLen, Shrink(len) PROVE Sound(buf', content')
  BY <1>6, ShrinkOK DEF Shrink
<1>7. ASSUME NEW end \in 0 .. MaxSize, RetrieveUntil(end) PROVE Sound(buf', content')
  <2>1. end - buf.r \in Nat
    BY <1>7 DEF RetrieveUntil, Sound, BufOK
  <2> QED BY <1>4, <1>7, <2>1, Zenon DEF RetrieveUntil
<1>8. ASSUME RetrieveAll PROVE Sound(buf', content')
  BY <1>8, RetrieveAllOK DEF RetrieveAll, Sound
<1>9. \A len \in 0 .. MaxLen : len \in Nat
  OBVIOUS
<1> QED BY <1>1, <1>2, <1>3, <1>4, <1>5, <1>6, <1>7, <1>8, <1>9 DEF BufferNext

LEMMA SoundInit ==
    ASSUME BufferInit
    PROVE  Sound(buf, content)
BY NewBufferOK DEF BufferInit, Sound

\* What a user reads from output_buffer_ is what was appended or prepended
\* and not yet taken out, in order, whatever the sequence of operations:
\* the growth, the move to the front and bb_shrink lose nothing.
THEOREM ContentCorrect == BufferSpec => []ContentInv
<1>1. BufferInit => Sound(buf, content)
  BY SoundInit
<1>2. Sound(buf, content) /\ [BufferNext]_bufferVars => Sound(buf, content)'
  <2> SUFFICES ASSUME Sound(buf, content), [BufferNext]_bufferVars PROVE Sound(buf, content)'
    OBVIOUS
  <2>1. CASE BufferNext
    BY <2>1, SoundStep
  <2>2. CASE UNCHANGED bufferVars
    BY <2>2 DEF bufferVars
  <2> QED BY <2>1, <2>2
<1>3. Sound(buf, content) => ContentInv
  BY DEF Sound, Holds, ContentInv
<1> QED BY <1>1, <1>2, <1>3, PTL DEF BufferSpec

(***************************************************************************)
(* The buffer that is also filled from a socket: the content is not kept   *)
(* by bb_read_fd, but the indices and the vector are.                      *)
(***************************************************************************)
IndexIndInv == BufOK(buf) /\ content \in Seq(Char)

LEMMA IndexStep ==
    ASSUME IndexIndInv, BufferNextIn
    PROVE  IndexIndInv'
<1> USE BufferAssumption
<1> DEFINE s == Unread(buf)
<1>0. Sound(buf, s) /\ content \in Seq(Char) /\ BufOK(buf)
  BY SoundReadable DEF IndexIndInv
<1> HIDE DEF s
<1>1. ASSUME NEW data \in Data, Append_(data) PROVE IndexIndInv'
  BY <1>0, <1>1, AppendOK, DataIsSeq DEF Append_, IndexIndInv, Sound
<1>2. ASSUME NEW data \in Data, Prepend(data) PROVE IndexIndInv'
  BY <1>0, <1>2, PrependOK, DataIsSeq DEF Prepend, IndexIndInv, Sound
<1>3. ASSUME NEW len \in 0 .. MaxLen, CheckWritable(len) PROVE IndexIndInv'
  BY <1>0, <1>3, CheckWritableOK DEF CheckWritable, IndexIndInv, Sound
<1>4. ASSUME NEW len \in Nat, Retrieve(len) PROVE IndexIndInv'
  <2>1. BufOK(buf')
    BY <1>0, <1>4, RetrieveOK DEF Retrieve, Sound
  <2>2. content' \in Seq(Char)
    BY <1>0, <1>4 DEF Retrieve
  <2> QED BY <2>1, <2>2 DEF IndexIndInv
<1>5. ASSUME NEW len \in 0 .. MaxLen, Unwrite(len) PROVE IndexIndInv'
  <2>1. BufOK(buf')
    BY <1>0, <1>5, UnwriteOK DEF Unwrite, Sound
  <2>2. content' \in Seq(Char)
    BY <1>0, <1>5 DEF Unwrite
  <2> QED BY <2>1, <2>2 DEF IndexIndInv
<1>6. ASSUME NEW len \in 0 .. MaxLen, Shrink(len) PROVE IndexIndInv'
  BY <1>0, <1>6, ShrinkOK DEF Shrink, IndexIndInv, Sound
<1>7. ASSUME NEW end \in 0 .. MaxSize, RetrieveUntil(end) PROVE IndexIndInv'
  <2>1. end - buf.r \in Nat
    BY <1>0, <1>7 DEF RetrieveUntil, BufOK
  <2> QED BY <1>4, <1>7, <2>1, Zenon DEF RetrieveUntil
<1>8. ASSUME RetrieveAll PROVE IndexIndInv'
  BY <1>0, <1>8, RetrieveAllOK, Zenon DEF RetrieveAll, IndexIndInv, Sound
<1>9. ASSUME NEW data \in Data, ReadFd(data) PROVE IndexIndInv'
  BY <1>0, <1>9, ReadFdOK, DataIsSeq DEF ReadFd, IndexIndInv
<1>10. \A len \in 0 .. MaxLen : len \in Nat
  OBVIOUS
<1> QED BY <1>1, <1>2, <1>3, <1>4, <1>5, <1>6, <1>7, <1>8, <1>9, <1>10 DEF BufferNextIn, BufferNext

\* IndexIndInv holds in every state of a buffer that is filled both ways.
LEMMA IndexInductive == BufferSpecIn => []IndexIndInv
<1>1. BufferInit => IndexIndInv
  BY SoundInit DEF IndexIndInv, Sound
<1>2. IndexIndInv /\ [BufferNextIn]_bufferVars => IndexIndInv'
  <2> SUFFICES ASSUME IndexIndInv, [BufferNextIn]_bufferVars PROVE IndexIndInv'
    OBVIOUS
  <2>1. CASE BufferNextIn
    BY <2>1, IndexStep
  <2>2. CASE UNCHANGED bufferVars
    BY <2>2 DEF bufferVars, IndexIndInv
  <2> QED BY <2>1, <2>2
<1> QED BY <1>1, <1>2, PTL DEF BufferSpecIn

\* The index order of the class comment of byte_buffer.h holds and no copy
\* leaves the vector, for input_buffer_ and so for output_buffer_ too.
THEOREM IndexCorrect == BufferSpecIn => []IndexInv
<1>1. IndexIndInv => IndexInv
  BY Zenon DEF IndexIndInv, BufOK, IndexInv
<1> QED BY <1>1, IndexInductive, PTL

\* The fields of the buffer keep their types.
THEOREM BufferTypeCorrect == BufferSpecIn => []BufferTypeOK
<1>1. IndexIndInv => BufferTypeOK
  BY DEF IndexIndInv, BufOK, BufferTypeOK
<1> QED BY <1>1, IndexInductive, PTL
=============================================================================
