--------------------------- MODULE ProtocolStream ---------------------------
(***************************************************************************)
(* network/protocol_stream.cpp and network/tcp_session.cpp: a package is   *)
(* written field by field, framed, compressed and sent, and the receiver   *)
(* reads the fields back.  The package may have been cut short, and the    *)
(* reader may ask for other fields than were written.                      *)
(*                                                                         *)
(* Widths are parameters: a length is written in groups of Radix values    *)
(* (the code: 7 bits), so that a byte is a digit and a bit that says that  *)
(* more follow; a length field is read modulo Modulus (2^32) from at most  *)
(* MaxHead bytes (5).  Integers are taken unsigned, as their bytes.        *)
(***************************************************************************)
EXTENDS Integers, Sequences

CONSTANTS
    Radix, MaxHead, Modulus,
    IntSize, ShortSize,      \* sizeof(int32_t), sizeof(short)
    BINARY_PACKLEN_LEN_2, CHECKSUM_LEN,
    MAX_COMPRESS_BUF_SIZE,
    Int64Buf,                \* the buffer ReadInt64 reads its text into, 128
    Limits,                  \* the maxlen of a string read, 0 for none
    NullInt,                 \* 999999999
    Ints, Longs, Shorts, Chars, Texts,   \* what is written
    MaxFields                \* bound: how many fields a package has

Base == 2 * Radix

Byte == 0 .. Base - 1

HeadLen == BINARY_PACKLEN_LEN_2 + CHECKSUM_LEN

ASSUME StreamAssumption ==
    /\ Int64Buf \in Nat /\ Limits \subseteq Nat
    /\ {Radix, MaxHead, Modulus, IntSize, ShortSize, BINARY_PACKLEN_LEN_2} \subseteq Nat \ {0}
    /\ {CHECKSUM_LEN, MAX_COMPRESS_BUF_SIZE, NullInt, MaxFields} \subseteq Nat
    /\ Ints \subseteq Nat /\ Longs \subseteq Int /\ Shorts \subseteq Nat /\ Chars \subseteq Byte
    /\ Texts \subseteq Seq(Byte)

VARIABLES
    phase,     \* "write", "wire" or "read"
    data_,     \* of the writer
    wire,      \* external: the header and body that were sent
    pkg,       \* ptr and len of the reader
    cur,       \* of the reader, from 0
    written,   \* history: the fields written
    got        \* history: the values read, while the reads match what was written

vars == <<phase, data_, wire, pkg, cur, written, got>>
-----------------------------------------------------------------------------
(***************************************************************************)
(* Bytes.                                                                  *)
(***************************************************************************)
HostBytes(v, n) == [i \in 1 .. n |-> (v \div Base^(i - 1)) % Base]

\* htonl, htons: the most significant byte first; the host has it last.
Hton(v, n) == [i \in 1 .. n |-> (v \div Base^(n - i)) % Base]

Ntoh(b) ==
    LET v[i \in 0 .. Len(b)] == IF i = 0 THEN 0 ELSE v[i - 1] * Base + b[i]
    IN v[Len(b)]

\* The variant with the limit off by one.
MoreThanRadix(n) == n > Radix

MoreGroups(n) == n >= Radix

write7BitEncoded[n \in Nat] ==
    IF MoreGroups(n) THEN <<(n % Radix) + Radix>> \o write7BitEncoded[n \div Radix] ELSE <<n>>

\* The values read from a head: a head whose last byte says that more follow is
\* read on behind the local array.
read7BitEncoded(buf) ==
    LET v[i \in 0 .. Len(buf)] ==
            IF i = 0 THEN 0 ELSE (v[i - 1] + (buf[i] % Radix) * Radix^(i - 1)) % Modulus
    IN {n \in 0 .. Modulus - 1 : buf[Len(buf)] < Radix => n = v[Len(buf)]}

\* sprintf("%ld") and atoll; digits are the bytes from 1, the sign is the last byte.
Digits == Base - 3

Decimal[n \in Nat] ==
    (IF n < Digits THEN <<>> ELSE Decimal[n \div Digits]) \o <<(n % Digits) + 1>>

ToText(v) == IF v < 0 THEN <<Base - 1>> \o Decimal[-v] ELSE Decimal[v]

atoll(s) ==
    LET sign   == s # <<>> /\ s[1] = Base - 1
        digits == IF sign THEN Tail(s) ELSE s
        IsDigit(i) == digits[i] \in 1 .. Digits
        n      == CHOOSE n \in 0 .. Len(digits) :
                      /\ \A i \in 1 .. n : IsDigit(i)
                      /\ n = Len(digits) \/ ~IsDigit(n + 1)
        v[i \in 0 .. n] == IF i = 0 THEN 0 ELSE v[i - 1] * Digits + digits[i] - 1
    IN IF sign THEN -v[n] ELSE v[n]

(***************************************************************************)
(* BinaryStreamWriter: what a field adds to data_.                         *)
(***************************************************************************)
WriteCString(s) == write7BitEncoded[Len(s)] \o s

WriteInt32(v, isNULL) == IF isNULL THEN HostBytes(NullInt, IntSize) ELSE Hton(v, IntSize)

WriteInt64(v, isNULL) == WriteCString(IF isNULL THEN <<>> ELSE ToText(v))

WriteShort(v, isNULL) == IF isNULL THEN Hton(0, ShortSize) ELSE Hton(v, ShortSize)

WriteChar(v, isNULL) == <<IF isNULL THEN 0 ELSE v>>

WriteDouble(s, isNULL) == WriteCString(IF isNULL THEN <<>> ELSE s)

\* The head of a new package is not initialised.
Blank(junk) == [i \in 1 .. HeadLen |-> junk]

\* Flush: the length over the first bytes; the checksum is never written.
Flush(d) ==
    [i \in DOMAIN d |-> IF i <= BINARY_PACKLEN_LEN_2
                        THEN Hton(Len(d), BINARY_PACKLEN_LEN_2)[i] ELSE d[i]]

Field(type, value, bytes) == [type |-> type, value |-> value, bytes |-> bytes]

\* The fields that are written, with the value a reader is to get for them, a number
\* as a sequence of one.  A null int32 is stored in host order, and read as another
\* number.
Fields ==
    {Field("int32", <<v>>, WriteInt32(v, FALSE)) : v \in Ints}
    \cup {Field("int32", <<Ntoh(HostBytes(NullInt, IntSize))>>, WriteInt32(0, TRUE))}
    \cup {Field("int64", <<v>>, WriteInt64(v, FALSE)) : v \in Longs}
    \cup {Field("int64", <<0>>, WriteInt64(0, TRUE))}
    \cup {Field("short", <<v>>, WriteShort(v, FALSE)) : v \in Shorts}
    \cup {Field("short", <<0>>, WriteShort(0, TRUE))}
    \cup {Field("char", <<v>>, WriteChar(v, FALSE)) : v \in Chars}
    \cup {Field("char", <<0>>, WriteChar(0, TRUE))}
    \cup {Field("text", s, WriteCString(s)) : s \in Texts}
    \cup {Field("text", s, WriteDouble(s, FALSE)) : s \in Texts}
    \cup {Field("text", <<>>, WriteDouble(<<>>, TRUE))}
-----------------------------------------------------------------------------
(***************************************************************************)
(* The writer, and TcpSession.                                             *)
(***************************************************************************)
NoWire == [origin |-> 0, body |-> <<>>]

BinaryStreamWriter(junk) == data_' = Blank(junk) /\ written' = <<>>

Init ==
    /\ phase = "write" /\ wire = NoWire /\ pkg = <<>> /\ cur = 0
    /\ data_ \in {Blank(junk) : junk \in {0, Base - 1}} /\ written = <<>> /\ got = <<>>

Write(f) ==
    /\ phase = "write" /\ Len(written) < MaxFields
    /\ data_' = data_ \o f.bytes
    /\ written' = Append(written, f)
    /\ UNCHANGED <<phase, wire, pkg, cur, got>>

Clear(junk) ==
    /\ phase = "write" /\ written # <<>>
    /\ BinaryStreamWriter(junk)
    /\ UNCHANGED <<phase, wire, pkg, cur, got>>

\* compressBuf refuses an empty and a very long string.  The compressed bytes are
\* abstracted to what they stand for.
compressBuf(src) == src # <<>> /\ Len(src) <= MAX_COMPRESS_BUF_SIZE

Header(p) == [origin |-> Len(p), body |-> p]

\* A package is dropped, with a line in the log, when it cannot be compressed, when
\* compress runs out of memory and when the connection is gone.
send_pkg(p) ==
    \/ compressBuf(p) /\ wire' = Header(p) /\ phase' = "wire"
    \/ UNCHANGED wire /\ phase' = "dropped"

\* A caller writes the fields itself, calls Flush and sends what is in the buffer.
SendOutbuf ==
    /\ phase = "write"
    /\ data_' = Flush(data_)
    /\ send_pkg(Flush(data_))
    /\ UNCHANGED <<pkg, cur, written, got>>

\* send(cmd, seq, data, data_len)
Send(junk, cmd, seq, data) ==
    LET fields == <<Field("int32", <<cmd>>, WriteInt32(cmd, FALSE)),
                    Field("int32", <<seq>>, WriteInt32(seq, FALSE)),
                    Field("text", data, WriteCString(data))>>
        outbuf == Flush(Blank(junk) \o fields[1].bytes \o fields[2].bytes \o fields[3].bytes)
    IN /\ phase = "write" /\ written = <<>>
       /\ data_' = outbuf /\ written' = fields
       /\ send_pkg(outbuf)
       /\ UNCHANGED <<pkg, cur, got>>
-----------------------------------------------------------------------------
(***************************************************************************)
(* BinaryStreamReader.  A read gives a set of outcomes, of which there are *)
(* several only where the code reads behind an array.                      *)
(***************************************************************************)
\* uncompress fails when the buffer made for the announced length is too small.
uncompressBuf(w) == Len(w.body) <= w.origin

\* The receiver uncompresses the package and reads it, or a package that was cut
\* short, if need be within its head.
BinaryStreamReader(len) ==
    /\ phase = "wire" /\ uncompressBuf(wire)
    /\ len <= Len(wire.body)
    /\ phase' = "read"
    /\ pkg' = [i \in 1 .. len |-> wire.body[i]]
    /\ cur' = HeadLen
    /\ UNCHANGED <<data_, wire, written, got>>

Good(at, value) == [ok |-> TRUE, cur |-> at, value |-> value]

Bad(at) == [ok |-> FALSE, cur |-> at, value |-> <<>>]

Fits(from, n) == from + n <= Len(pkg)

\* n bytes of the package; there is other memory behind it.
At(from, n) == [i \in 1 .. n |-> IF Fits(from, i) THEN pkg[from + i] ELSE 0]

\* The bytes at cur that end a length, and how long the head is: the loop looks at
\* MaxHead bytes, also behind the package, whose bytes may end the head or not.
Ends == {i \in 1 .. MaxHead : Fits(cur, i) /\ pkg[cur + i] < Radix}

Heads ==
    IF Ends # {} THEN {i \in Ends : \A j \in Ends : i <= j}
    ELSE {i \in 1 .. MaxHead : ~Fits(cur, i) \/ i = MaxHead}

ReadLengthWithoutOffset ==
    UNION {IF Fits(cur, h) THEN {Good(cur + h, <<n>>) : n \in read7BitEncoded(At(cur, h))}
           ELSE {Bad(cur)} : h \in Heads}

\* The variant that tests the body against the cursor before the head.
FitsFromHead(from, n) == Fits(cur, n)

FitsBody(from, n) == Fits(from, n)

\* ReadCString, ReadString and ReadCCString: a field that is too long for the caller
\* leaves the cursor alone, one that is too long for the package leaves it behind
\* the head.
ReadString(maxlen) ==
    {IF ~r.ok \/ (maxlen # 0 /\ r.value[1] > maxlen) THEN Bad(cur)
     ELSE IF ~FitsBody(r.cur, r.value[1]) THEN Bad(r.cur)
     ELSE Good(r.cur + r.value[1], At(r.cur, r.value[1])) : r \in ReadLengthWithoutOffset}

\* A text that fills the buffer has no end for atoll: no writer makes one.
ReadInt64 ==
    {IF r.ok THEN Good(r.cur, <<atoll(r.value)>>) ELSE r : r \in ReadString(Int64Buf)}

ReadBytes(n) == IF Fits(cur, n) THEN {Good(cur + n, <<Ntoh(At(cur, n))>>)} ELSE {Bad(cur)}

ReadInt32 == ReadBytes(IntSize)

ReadShort == ReadBytes(ShortSize)

ReadChar == ReadBytes(1)

\* The cursor is moved behind the head: the body is the next thing read.
ReadLength == ReadLengthWithoutOffset

IsEnd == cur = Len(pkg)
-----------------------------------------------------------------------------
Lost == <<[type |-> "lost", value |-> <<>>]>>

\* What the history becomes: the values, while the reads are those of the fields
\* written and succeed.
Seen(type, r) ==
    IF /\ got # Lost /\ r.ok
       /\ Len(got) < Len(written) /\ written[Len(got) + 1].type = type
    THEN Append(got, [type |-> type, value |-> r.value])
    ELSE Lost

Reading(type, results) ==
    /\ phase = "read"
    /\ \E r \in results : cur' = r.cur /\ got' = Seen(type, r)
    /\ UNCHANGED <<phase, data_, wire, pkg, written>>

Next ==
    \/ \E f \in Fields : Write(f)
    \/ \E junk \in {0, Base - 1} : Clear(junk)
    \/ SendOutbuf
    \/ \E cmd, seq \in Ints, data \in Texts : Send(0, cmd, seq, data)
    \/ \E len \in 0 .. MAX_COMPRESS_BUF_SIZE : BinaryStreamReader(len)
    \/ Reading("int32", ReadInt32)
    \/ Reading("int64", ReadInt64)
    \/ Reading("short", ReadShort)
    \/ Reading("char", ReadChar)
    \/ \E maxlen \in Limits : Reading("text", ReadString(maxlen))
    \/ Reading("length", ReadLength)

Spec == Init /\ [][Next]_vars
-----------------------------------------------------------------------------
\* The type of the variables: what is written, sent and received are bytes.
TypeOK ==
    /\ phase \in {"write", "wire", "dropped", "read"}
    /\ data_ \in Seq(Byte) /\ pkg \in Seq(Byte)
    /\ wire.origin \in Nat /\ wire.body \in Seq(Byte)
    /\ cur \in Nat
    /\ Len(written) <= MaxFields \/ Len(written) = 3

\* IsEnd asserts that the cursor is not behind the package: whatever the package
\* holds, wherever it was cut and whatever the reader asks for, in any order and
\* also after a read that failed, the cursor stays between the head and the end.  In
\* a package without a whole head nothing can be read.
CursorInPackage ==
    phase = "read" =>
        IF HeadLen <= Len(pkg) THEN HeadLen <= cur /\ cur <= Len(pkg)
        ELSE cur = HeadLen /\ got \in {<<>>, Lost}

\* What a reader that reads the fields in the order they were written gets is what
\* was written, also from a package that was cut; and IsEnd says so exactly when it
\* has had everything of a whole package.
RoundTrip ==
    got # Lost =>
        /\ \A i \in DOMAIN got : got[i].value = written[i].value
        /\ phase = "read" /\ pkg = wire.body => (IsEnd <=> Len(got) = Len(written))

\* A reader that is at a field of a whole package can read it: with room for it, the
\* read gives the field and nothing else; a string the caller has no room for leaves
\* the cursor where it is, so that it can be read again with more room.
Readable ==
    phase = "read" /\ got # Lost /\ pkg = wire.body /\ Len(got) < Len(written) =>
        LET f    == written[Len(got) + 1]
            read == {Good(cur + Len(f.bytes), f.value)}
        IN CASE f.type = "int32" -> ReadInt32 = read
             [] f.type = "int64" -> ReadInt64 = read
             [] f.type = "short" -> ReadShort = read
             [] f.type = "char"  -> ReadChar = read
             [] f.type = "text"  ->
                    \A maxlen \in Limits :
                        ReadString(maxlen) = IF maxlen # 0 /\ Len(f.value) > maxlen THEN {Bad(cur)} ELSE read
=============================================================================
