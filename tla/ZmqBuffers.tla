----------------------------- MODULE ZmqBuffers -----------------------------
(***************************************************************************)
(* mutable_buffer and const_buffer of zmq.hpp: a range of bytes given by   *)
(* its address and its size.  The two classes have the same arithmetic.    *)
(***************************************************************************)
EXTENDS Naturals

Buffer(p, n) == [at |-> p, size |-> n]

\* nullptr is 0.
Buffers(Addresses, Sizes) == [at : Addresses, size : Sizes]

Least(m, n) == IF m < n THEN m ELSE n

\* operator+= and operator+.
Advance(b, n) ==
  LET shift == Least(n, b.size) IN Buffer(b.at + shift, b.size - shift)

\* buffer(b, n).
Shorten(b, n) == Buffer(b.at, Least(b.size, n))

\* buffer(seq), of count elements of width bytes each.
OfSequence(p, count, width) == Buffer(IF count # 0 THEN p ELSE 0, count * width)

\* buffer(seq, n_bytes).
OfSequenceUpTo(p, count, width, n) ==
  Buffer(IF count # 0 THEN p ELSE 0, Least(count * width, n))

\* buffer(seq) and buffer(seq, n_bytes) of arrays, std::array, std::vector,
\* std::string and string_view.  bounds: << >> or <<n_bytes>>.
BufferOf(p, count, width, bounds) ==
  IF bounds = << >> THEN OfSequence(p, count, width)
                    ELSE OfSequenceUpTo(p, count, width, bounds[1])

\* A string literal of count characters with the null character that ends it.
StrBuffer(p, count, width) == Buffer(p, (count - 1) * width)

\* "..."_zbuf, whose length does not count it.
Literal(p, len, width) == Buffer(p, len * width)

\* recv(mutable_buffer): what recv_buffer_size says of a message of nbytes.
ReceivedInto(b, nbytes) == [size |-> Least(nbytes, b.size), untruncated |-> nbytes]

Truncated(r) == r.size # r.untruncated

\* The bytes of a buffer.
Extent(b) == b.at .. (b.at + b.size - 1)
=============================================================================
