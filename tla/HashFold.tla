------------------------------ MODULE HashFold ------------------------------
(***************************************************************************)
(* hash_key of groupby_engine.sv: the XOR of the four BUCKET_ADDR_W-bit    *)
(* chunks of a key, where 2^BUCKET_ADDR_W is the number of buckets.        *)
(***************************************************************************)
EXTENDS Naturals, Bitwise

Chunk(k, i, buckets) == (k \div buckets^i) % buckets

XorFold(k, buckets) ==
  ((Chunk(k, 0, buckets) ^^ Chunk(k, 1, buckets)) ^^ Chunk(k, 2, buckets))
    ^^ Chunk(k, 3, buckets)
==============================================================================
