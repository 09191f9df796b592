------------------------------- MODULE Base64 -------------------------------
(***************************************************************************)
(* base64_encode and base64_decode of src/applications/ai_cloud_service.c. *)
(* A character is its index 0 .. 63 in base64_table, or Pad for '='.       *)
(***************************************************************************)
EXTENDS Integers, Sequences

Pad == 64

One(condition) == IF condition THEN 1 ELSE 0

EncodedLen(n) == ((n + 2) \div 3) * 4

\* Mutant: the remainder itself.
PaddingRest(n) == n % 3

Padding(n) == (3 - (n % 3)) % 3

\* Bytes past the end are 0.
Octet(data, i) == IF i <= Len(data) THEN data[i] ELSE 0

\* The k-th three bytes, k from 0, as a number of 24 bits.
Octets(data, k) ==
  65536 * Octet(data, 3 * k + 1) + 256 * Octet(data, 3 * k + 2) + Octet(data, 3 * k + 3)

Weight64 == <<262144, 4096, 64, 1>>
Weight256 == <<65536, 256, 1>>

Sextet(data, j) ==
  (Octets(data, (j - 1) \div 4) \div Weight64[((j - 1) % 4) + 1]) % 64

base64_encode(data) ==
  [j \in 1 .. EncodedLen(Len(data)) |->
     IF j > EncodedLen(Len(data)) - Padding(Len(data)) THEN Pad ELSE Sextet(data, j)]

\* The text is not empty: its callers see to that.
DecodedLen(encoded) ==
  (Len(encoded) \div 4) * 3
    - One(encoded[Len(encoded)] = Pad) - One(encoded[Len(encoded) - 1] = Pad)

Value(encoded, i) == IF encoded[i] = Pad THEN 0 ELSE encoded[i]

\* The k-th four characters, k from 0, as a number of 24 bits.
Sextets(encoded, k) ==
  262144 * Value(encoded, 4 * k + 1) + 4096 * Value(encoded, 4 * k + 2)
    + 64 * Value(encoded, 4 * k + 3) + Value(encoded, 4 * k + 4)

base64_decode(encoded) ==
  [j \in 1 .. DecodedLen(encoded) |->
     (Sextets(encoded, (j - 1) \div 3) \div Weight256[((j - 1) % 3) + 1]) % 256]
=============================================================================
