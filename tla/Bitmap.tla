-------------------------------- MODULE Bitmap --------------------------------
(***************************************************************************)
(* lib/kernel/bitmap.c.  A bitmap is a function from 0 to its number of    *)
(* bits - 1; page pools, virtual address pools, inode and block bitmaps    *)
(* allocate a run of bits with bitmap_scan and bitmap_set.                 *)
(***************************************************************************)
EXTENDS Integers, FiniteSets, FiniteSetsExt

CONSTANT ByteBits  \* bits of a byte (8 in the code)

ASSUME BitmapAssumption == ByteBits \in Nat \ {0}

Total(b) == Cardinality(DOMAIN b)
Bytes(b) == Total(b) \div ByteBits    \* bmap_bytes_len

\* bitmap_scan_test, which does not check its index: past the end it reads
\* the first bit of the memory that follows the bitmap, beyond.
bitmap_scan_test(b, i, beyond) == (IF i \in DOMAIN b THEN b[i] ELSE beyond) = 1

\* The byte the first loop of bitmap_scan stops at, Bytes(b) when all are full.
FirstByte(b) ==
  Min({k \in 0..Bytes(b) : k = Bytes(b) \/ \E i \in 0..ByteBits - 1 : b[k * ByteBits + i] = 0})

\* The first free bit, in that byte.
FirstBit(b) ==
  Min({i \in DOMAIN b : i >= FirstByte(b) * ByteBits /\ b[i] = 0})

\* count after the loop has tested next_bit, for every next_bit the loop
\* reaches from the first free bit.
Count(b, beyond) ==
  LET start == FirstBit(b)
      count[i \in start..Total(b)] ==
        IF i = start THEN 1
        ELSE IF bitmap_scan_test(b, i, beyond) THEN 0 ELSE count[i - 1] + 1
  IN  count

\* Mutant: the loop ends two bits early, before the last bit.
Mut_LastTested_short(b) == Total(b) - 2

\* The loop runs bit_left times, from start + 1 to start + bit_left = Total(b).
LastTested(b) == Total(b)

bitmap_scan(b, cnt, beyond) ==
  LET start == FirstBit(b)
      count == Count(b, beyond)
      hits  == {i \in start + 1..LastTested(b) : count[i] = cnt}
  IN  IF cnt = 1 THEN start
      ELSE IF hits = {} THEN -1
      ELSE Min(hits) - cnt + 1

bitmap_set(b, i, value) == [b EXCEPT ![i] = value]

----------------------------------------------------------------------------
\* The runs of cnt free bits inside a bitmap.
FreeRuns(b, cnt) ==
  {s \in DOMAIN b : s + cnt <= Total(b) /\ \A i \in s..s + cnt - 1 : b[i] = 0}

\* For every bit that may follow a bitmap that is not full: bitmap_scan finds
\* the first run of cnt free bits.  When there is none it returns -1, except
\* that a clear bit beyond the bitmap counts as one more free bit: cnt - 1
\* free bits at the end are then taken for a run (bitmap.h promises -1).
ScanRight(b) ==
  (\E i \in DOMAIN b : b[i] = 0) =>
    \A cnt \in 1..Total(b), beyond \in {0, 1} :
      LET last == Total(b) - cnt + 1
          over == beyond = 0 /\ cnt > 1 /\ \A i \in last..Total(b) - 1 : b[i] = 0
      IN  bitmap_scan(b, cnt, beyond) =
            IF FreeRuns(b, cnt) # {} THEN Min(FreeRuns(b, cnt))
            ELSE IF over THEN last
            ELSE -1

=============================================================================
