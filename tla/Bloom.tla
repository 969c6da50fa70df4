--------------------------------- MODULE Bloom ---------------------------------
(***************************************************************************)
(* The Bloom filter policy (bloom.cc).  A filter is the set of the bits    *)
(* that are 1, their number and the number of probes; the hash of a key    *)
(* (BloomHash) is a function, words have Word = 2^32 values in the code.   *)
(***************************************************************************)
EXTENDS Integers

CONSTANTS BloomKeys, BloomHash(_),
          Word,        \* the number of values of a word
          High         \* the weight of the bits rotated to the top: 2^17 in the code

\* BloomFilterPolicy(bits_per_key): the number of probes, 0.69 times the bits and within 1..30 (0.69 in hundredths).
NumProbes(bits_per_key) ==
  LET k == (bits_per_key * 69) \div 100
  IN  IF k < 1 THEN 1 ELSE IF k > 30 THEN 30 ELSE k

\* The bits of a filter for n keys: whole bytes, 64 bits at least.
NumBits(n, bits_per_key) ==
  LET bits == n * bits_per_key
  IN  IF bits < 64 THEN 64 ELSE ((bits + 7) \div 8) * 8

\* The hash rotated right by 17 bits.
Rotated(h) == (h \div High) + ((h * (Word \div High)) % Word)

\* The j-th probe of a key, counted from 0: h += delta wraps around.
BitPos(key, j, bits) == ((BloomHash(key) + j * Rotated(BloomHash(key))) % Word) % bits

CreateFilter(keys, n, bits_per_key) ==
  LET bits == NumBits(n, bits_per_key)
      k == NumProbes(bits_per_key)
  IN  [bits |-> bits, k |-> k, ones |-> {BitPos(key, j, bits) : key \in keys, j \in 0..(k - 1)}]

\* The filter of no key at all, which a filter block holds where no data block starts.
NoFilter == [bits |-> 0, k |-> 0, ones |-> {}]

\* An empty filter matches nothing; one made with more probes than CreateFilter ever uses is in an
\* encoding yet to come and matches everything.
KeyMayMatch(key, f) ==
  /\ f.bits > 0
  /\ f.k > 30 \/ \A j \in 0..(f.k - 1) : BitPos(key, j, f.bits) \in f.ones
=============================================================================
