----------------------------- MODULE ByteBuffer -----------------------------
(***************************************************************************)
(* network/byte_buffer.h, network/byte_buffer.cpp: the byte buffer between *)
(* a socket and its user.  A vector of bytes with a reader and a writer    *)
(* index:                                                                  *)
(*                                                                         *)
(*   0 .. read_idx_-1          prependable                                 *)
(*   read_idx_ .. write_idx_-1 readable (the content)                      *)
(*   write_idx_ .. size-1      writable                                    *)
(*                                                                         *)
(* A buffer is a record [size, mem, r, w].  A copy that ran past the end   *)
(* of the vector would leave mem with a domain larger than 0..size-1; the  *)
(* invariants say that none does.  The history variable `content' is the   *)
(* byte sequence the user of the buffer put in and did not yet take out.   *)
(***************************************************************************)
EXTENDS Integers, Sequences

CONSTANTS
    Char,           \* the values of a byte
    Zero,           \* what vector::resize fills new bytes with
    cheap_prepend,  \* 8 in the code
    initial_size,   \* 1024 in the code
    MaxSize,        \* bound: the vector grows to at most MaxSize bytes
    MaxLen          \* bound: the longest block given to one operation

ASSUME BufferAssumption ==
    /\ cheap_prepend \in Nat
    /\ initial_size \in Nat
    /\ MaxSize \in Nat
    /\ MaxLen \in Nat
    /\ Zero \in Char

VARIABLES
    buf,      \* the ByteBuffer object
    content   \* history: the bytes put in and not yet taken out

bufferVars == <<buf, content>>

Data == UNION {[1 .. n -> Char] : n \in 0 .. MaxLen}

(***************************************************************************)
(* The queries and the memory operations.                                  *)
(***************************************************************************)
bb_bytes_readable(b) == b.w - b.r

bb_bytes_writeable(b) == b.size - b.w

bb_bytes_prependable(b) == b.r

Buf(size, mem, r, w) == [size |-> size, mem |-> mem, r |-> r, w |-> w]

NewBuffer ==
    Buf(cheap_prepend + initial_size,
        [i \in 0 .. (cheap_prepend + initial_size - 1) |-> Zero],
        cheap_prepend, cheap_prepend)

\* std::vector::resize: the kept bytes keep their values, new ones are zero.
Resize(b, n) ==
    Buf(n, [i \in 0 .. (n - 1) |-> IF i < b.size THEN b.mem[i] ELSE Zero], b.r, b.w)

\* std::copy of a block of bytes to position `at' of the vector.
CopyTo(mem, data, at) ==
    [i \in DOMAIN mem \cup at .. (at + Len(data) - 1) |->
        IF i \in at .. (at + Len(data) - 1) THEN data[i - at + 1] ELSE mem[i]]

\* The readable bytes as a sequence: bb_2_string_piece.
Unread(b) == [i \in 1 .. bb_bytes_readable(b) |-> b.mem[b.r + i - 1]]

bb_retrieve_all(b) == Buf(b.size, b.mem, cheap_prepend, cheap_prepend)

bb_retrieve(b, len) ==
    IF len > bb_bytes_readable(b) THEN b
    ELSE IF len < bb_bytes_readable(b) THEN Buf(b.size, b.mem, b.r + len, b.w)
    ELSE bb_retrieve_all(b)

\* The variant that moves the indices and forgets to move the bytes.
MakeZoomNoMove(b, len) ==
    IF bb_bytes_writeable(b) + bb_bytes_prependable(b) < len + cheap_prepend
    THEN Resize(b, b.w + len)
    ELSE IF cheap_prepend >= b.r THEN b
    ELSE Buf(b.size, b.mem, cheap_prepend, cheap_prepend + bb_bytes_readable(b))

_make_zoom(b, len) ==
    IF bb_bytes_writeable(b) + bb_bytes_prependable(b) < len + cheap_prepend
    THEN Resize(b, b.w + len)
    ELSE IF cheap_prepend >= b.r THEN b
    ELSE Buf(b.size, CopyTo(b.mem, Unread(b), cheap_prepend),
             cheap_prepend, cheap_prepend + bb_bytes_readable(b))

bb_bytes_check_writable(b, len) ==
    IF bb_bytes_writeable(b) < len THEN _make_zoom(b, len) ELSE b

bb_bytes_written(b, len) ==
    IF len > bb_bytes_writeable(b) THEN b ELSE Buf(b.size, b.mem, b.r, b.w + len)

\* The copy goes to the write position, which bb_bytes_written then moves
\* behind the copied block.
bb_append(b, data) ==
    LET room == bb_bytes_check_writable(b, Len(data))
    IN  bb_bytes_written(Buf(room.size, CopyTo(room.mem, data, room.w), room.r, room.w),
                         Len(data))

bb_bytes_unwrite(b, len) ==
    IF len > bb_bytes_readable(b) THEN b ELSE Buf(b.size, b.mem, b.r, b.w - len)

bb_prepend(b, data) ==
    IF Len(data) > bb_bytes_prependable(b) THEN b
    ELSE Buf(b.size, CopyTo(b.mem, data, b.r - Len(data)), b.r - Len(data), b.w)

bb_shrink(b, reserve) ==
    bb_append(bb_bytes_check_writable(NewBuffer, bb_bytes_readable(b) + reserve), Unread(b))

\* On Linux socks_read puts the n received bytes into extrabuf; the branches
\* then move the write index, and only what did not fit is appended, taken
\* from the front of extrabuf.
bb_read_fd(b, data) ==
    LET n == Len(data)
        writable == bb_bytes_writeable(b)
    IN  IF n <= writable
        THEN Buf(b.size, b.mem, b.r, b.w + n)
        ELSE bb_append(Buf(b.size, b.mem, b.r, b.size), SubSeq(data, 1, n - writable))

(***************************************************************************)
(* The operations as actions.  The guards MayGrow are the bound MaxSize on *)
(* an unbounded vector; every other condition is inside the operations.    *)
(***************************************************************************)
MayGrow(len) == buf.w + len <= MaxSize

BufferInit ==
    /\ buf = NewBuffer
    /\ content = <<>>

Append_(data) ==
    /\ MayGrow(Len(data))
    /\ buf' = bb_append(buf, data)
    /\ content' = content \o data

CheckWritable(len) ==
    /\ MayGrow(len)
    /\ buf' = bb_bytes_check_writable(buf, len)
    /\ UNCHANGED content

\* bb_retrieve, bb_retrieve_as_string and the bb_read_int operations take
\* nothing when fewer than len bytes are readable.
Retrieve(len) ==
    /\ buf' = bb_retrieve(buf, len)
    /\ content' = IF len > Len(content) THEN content
                  ELSE SubSeq(content, len + 1, Len(content))

\* bb_retrieve_until(end), end a position of the vector.
RetrieveUntil(end) ==
    /\ buf.r <= end
    /\ end <= buf.w
    /\ Retrieve(end - buf.r)

RetrieveAll ==
    /\ buf' = bb_retrieve_all(buf)
    /\ content' = <<>>

Unwrite(len) ==
    /\ buf' = bb_bytes_unwrite(buf, len)
    /\ content' = IF len > Len(content) THEN content
                  ELSE SubSeq(content, 1, Len(content) - len)

Prepend(data) ==
    /\ buf' = bb_prepend(buf, data)
    /\ content' = IF Len(data) > bb_bytes_prependable(buf) THEN content
                  ELSE data \o content

Shrink(reserve) ==
    /\ cheap_prepend + bb_bytes_readable(buf) + reserve <= MaxSize
    /\ buf' = bb_shrink(buf, reserve)
    /\ UNCHANGED content

\* A socket read that returned n > 0 bytes; n <= 0 leaves the buffer alone.
ReadFd(data) ==
    /\ data # <<>>
    /\ MayGrow(Len(data))
    /\ buf' = bb_read_fd(buf, data)
    /\ content' = content \o data

\* A buffer whose user fills it with bb_append: output_buffer_.
BufferNext ==
    \/ \E data \in Data : Append_(data) \/ Prepend(data)
    \/ \E len \in 0 .. MaxLen :
          \/ CheckWritable(len)
          \/ Retrieve(len)
          \/ Unwrite(len)
          \/ Shrink(len)
    \/ \E end \in 0 .. MaxSize : RetrieveUntil(end)
    \/ RetrieveAll

BufferSpec == BufferInit /\ [][BufferNext]_bufferVars

\* A buffer that is also filled from a socket: input_buffer_.
BufferNextIn == BufferNext \/ \E data \in Data : ReadFd(data)

BufferSpecIn == BufferInit /\ [][BufferNextIn]_bufferVars
-----------------------------------------------------------------------------
(***************************************************************************)
(* Properties.                                                             *)
(***************************************************************************)

\* The fields have their types and the history is a sequence of bytes.
BufferTypeOK ==
    /\ buf.size \in Nat
    /\ buf.r \in Nat
    /\ buf.w \in Nat
    /\ buf.mem \in [DOMAIN buf.mem -> Char]
    /\ content \in Seq(Char)

\* The class comment of byte_buffer.h: 0 <= readerIndex <= writerIndex <=
\* size, after every sequence of operations, and no copy of bb_append,
\* bb_prepend or _make_zoom wrote outside the vector.  The hard case is
\* _make_zoom, whose early return makes no room, while bb_append copies
\* without looking again.
IndexInv ==
    /\ buf.r <= buf.w
    /\ buf.w <= buf.size
    /\ DOMAIN buf.mem = 0 .. (buf.size - 1)

\* The readable bytes are those the user put in and did not take out, in
\* order: appending, prepending, growing, moving to the front and shrinking
\* lose, duplicate and reorder nothing.
ContentInv ==
    /\ Len(content) = bb_bytes_readable(buf)
    /\ \A i \in 1 .. Len(content) : content[i] = buf.mem[buf.r + i - 1]
=============================================================================
