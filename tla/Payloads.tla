------------------------------ MODULE Payloads ------------------------------
(***************************************************************************)
(* What is stored of a value of a payload (src/py_lib_runtime/_internal/   *)
(* cache/base.py, _compress_value and _decompress_value).  A value is a    *)
(* type and a content.  A "packed" value is a dict with a truthy           *)
(* __compressed__ field, written by _compress_value or, for all it can     *)
(* tell, given by the application.                                         *)
(***************************************************************************)
EXTENDS Naturals, Sequences

CONSTANTS
  Contents,
  RawSize,     \* the length of a content in bytes
  ZipSize,     \* the length zlib compresses it to
  NoEncoding,  \* contents: text that has no UTF-8 encoding
  Broken,      \* contents: data that base64, zlib or UTF-8 refuses
  Off          \* compression_threshold is None

ASSUME PayloadAssumption ==
  /\ RawSize \in [Contents -> Nat] /\ ZipSize \in [Contents -> Nat]
  /\ NoEncoding \subseteq Contents /\ Broken \subseteq Contents

Buffers == {"bytes", "bytearray", "memoryview"}
Types == Buffers \cup {"str", "dict", "packed", "packed str"}

\* "packed str" has an encoding, "packed" none.
Item == [type : Types, content : Contents]

\* value.encode raises.
CompressRaises(v, threshold) ==
  threshold # Off /\ v.type = "str" /\ v.content \in NoEncoding

\* Faulty variant: the length of the result is not looked at.
CompressibleBlindly(v, threshold) ==
  /\ threshold # Off /\ v.type \in Buffers \cup {"str"}
  /\ RawSize[v.content] >= threshold

Compressible(v, threshold) ==
  /\ threshold # Off /\ v.type \in Buffers \cup {"str"}
  /\ RawSize[v.content] >= threshold
  /\ ZipSize[v.content] < RawSize[v.content]

Compress(v, threshold) ==
  IF ~Compressible(v, threshold) THEN v
  ELSE [v EXCEPT !.type = IF v.type = "str" THEN "packed str" ELSE "packed"]

\* Faulty variant: the encoding of what was text is not looked at.
DecompressToBytes(v) ==
  IF v.content \in Broken THEN v
  ELSE [v EXCEPT !.type = IF @ \in {"packed", "packed str"} THEN "bytes" ELSE @]

\* What cannot be restored is returned as it is.
Decompress(v) ==
  IF v.content \in Broken THEN v
  ELSE [v EXCEPT !.type = IF @ = "packed str" THEN "str" ELSE IF @ = "packed" THEN "bytes" ELSE @]

\* diskcache pickles what it stores.
Storable(v) == v.type # "memoryview"
=============================================================================
