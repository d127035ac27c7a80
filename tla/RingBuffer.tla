----------------------------- MODULE RingBuffer -----------------------------
(***************************************************************************)
(* The ring buffer of a connection (pkg/ring, with the elastic wrapper of  *)
(* pkg/oknet/ring_buffer.go around it): a slice buf of length size, the    *)
(* next positions r and w to read and to write, and isEmpty, which tells   *)
(* an empty buffer from a full one when r = w.  Positions count from 0, as *)
(* in the code.                                                            *)
(*                                                                         *)
(* The operators take a buffer and return the buffer after the call.       *)
(***************************************************************************)
EXTENDS Integers, Sequences

CONSTANTS DefaultBufferSize,    \* size of the first allocation (1 KB)
          bufferGrowThreshold,  \* from here a buffer grows by quarters (4 KB)
          Junk                  \* what a slice holds that was never written

ASSUME RingAssumption == /\ DefaultBufferSize \in Nat \ {0}
                         /\ bufferGrowThreshold \in Nat
                         /\ bufferGrowThreshold >= 4

CeilToPowerOfTwo(n) ==
    IF n <= 2 THEN 2 ELSE CHOOSE p \in {2^k : k \in 1 .. 30} : p >= n /\ p < 2 * n

Fresh(n) == [i \in 0 .. n - 1 |-> Junk]

New(size) ==
    LET n == IF size = 0 THEN 0 ELSE CeilToPowerOfTwo(size)
    IN  [buf |-> Fresh(n), size |-> n, r |-> 0, w |-> 0, isEmpty |-> TRUE]

Buffered(b) ==
    CASE b.r = b.w -> IF b.isEmpty THEN 0 ELSE b.size
      [] b.w > b.r -> b.w - b.r
      [] OTHER -> b.size - b.r + b.w

Available(b) ==
    CASE b.r = b.w -> IF b.isEmpty THEN b.size ELSE 0
      [] b.w < b.r -> b.r - b.w
      [] OTHER -> b.size - b.w + b.r

Reset(b) == [b EXCEPT !.isEmpty = TRUE, !.r = 0, !.w = 0]

\* buf[from:to] as a sequence.
Slice(b, from, to) == [i \in 1 .. to - from |-> b.buf[from + i - 1]]

\* peekAll, and Peek of n bytes when n > 0: head and tail put together.
Peek(b, n) ==
    LET all == Buffered(b)
        m == IF n <= 0 \/ n > all THEN all ELSE n
    IN  CASE b.isEmpty -> <<>>
          [] b.w > b.r \/ b.r + m <= b.size -> Slice(b, b.r, b.r + m)
          [] OTHER -> Slice(b, b.r, b.size) \o Slice(b, 0, m - (b.size - b.r))

Discard(b, n) ==
    CASE n <= 0 -> b
      [] n > 0 /\ n < Buffered(b) -> [b EXCEPT !.r = (b.r + n) % b.size]
      [] OTHER -> Reset(b)

\* Read of up to n bytes: what it copies, and the buffer afterwards.
ReadData(b, n) == IF n = 0 THEN <<>> ELSE Peek(b, n)

AfterRead(b, n) ==
    LET m == Len(ReadData(b, n))
        r == IF b.w > b.r THEN b.r + m ELSE (b.r + m) % b.size
    IN  IF m = 0 THEN b
        ELSE IF r = b.w THEN Reset(b) ELSE [b EXCEPT !.r = r]

\* By a quarter at a time, from n until it is at least newCap.
Quarters(n, newCap) ==
    LET up[k \in n .. 2 * newCap + 4] == IF k < newCap THEN up[k + k \div 4] ELSE k IN up[n]

\* The size that grow settles on when it is asked for newCap.
GrowSize(n, newCap) ==
    CASE n = 0 -> IF newCap <= DefaultBufferSize THEN DefaultBufferSize
                  ELSE CeilToPowerOfTwo(newCap)
      [] n > 0 /\ newCap > n + n -> newCap
      [] OTHER -> IF n < bufferGrowThreshold THEN n + n ELSE Quarters(n, newCap)

\* Faulty variant: growing does not move the data to the front.
growInPlace(b, newCap) ==
    LET size == GrowSize(b.size, newCap)
    IN  [b EXCEPT !.buf = [i \in 0 .. size - 1 |-> IF i < b.size THEN b.buf[i] ELSE Junk],
                  !.size = size, !.w = IF b.isEmpty \/ b.w > b.r THEN b.w ELSE b.size]

\* The bytes are read into the new slice and start at its beginning.
grow(b, newCap) ==
    LET size == GrowSize(b.size, newCap)
        data == ReadData(b, size)
    IN  [buf |-> [i \in 0 .. size - 1 |-> IF i < Len(data) THEN data[i + 1] ELSE Junk],
         size |-> size, r |-> 0, w |-> Len(data),
         isEmpty |-> AfterRead(b, size).isEmpty /\ Len(data) = 0]

Copy(b, from, p) ==
    [i \in DOMAIN b.buf |-> IF i >= from /\ i < from + Len(p) THEN p[i - from + 1] ELSE b.buf[i]]

\* Write: grows when there is no room, then fills to the end of the slice
\* and goes on at its beginning.
Write(b, p) ==
    LET n == Len(p)
        g == IF n > Available(b) THEN grow(b, b.size + n - Available(b)) ELSE b
        c1 == g.size - g.w
        wraps == g.w >= g.r /\ c1 < n
        buf == IF wraps
               THEN LET first == [g EXCEPT !.buf = Copy(g, g.w, SubSeq(p, 1, c1))]
                    IN  Copy(first, 0, SubSeq(p, c1 + 1, n))
               ELSE Copy(g, g.w, p)
        w == IF wraps THEN n - c1 ELSE g.w + n
    IN  IF n = 0 THEN b
        ELSE [g EXCEPT !.buf = buf, !.w = IF w = g.size THEN 0 ELSE w, !.isEmpty = FALSE]

-----------------------------------------------------------------------------
(* The elastic wrapper: no buffer while there is nothing in it. *)

NoBuffer == [size |-> -1]

IsEmpty(e) == e = NoBuffer \/ (e # NoBuffer /\ e.isEmpty)

\* A buffer that has become empty goes back to the pool.
Done(e) == IF IsEmpty(e) THEN NoBuffer ELSE e

PeekAll(e) == IF e = NoBuffer THEN <<>> ELSE Peek(e, -1)
=============================================================================
