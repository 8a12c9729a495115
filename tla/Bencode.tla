------------------------------- MODULE Bencode -------------------------------
(***************************************************************************)
(* Bencoding (protocol/bencode.go), the format of metainfo files and of    *)
(* tracker answers: a recursive-descent decoder that is to accept exactly  *)
(* one encoding of every value, and the encoder.                           *)
(*                                                                         *)
(* A byte is a symbol: one of the characters with a meaning, a digit, or a *)
(* word of the formats above (a dictionary key, say), which stands for     *)
(* itself and is one byte long.  Alphabet lists the symbols in the order   *)
(* of their bytes.  Integers are bounded by MaxInt64 in place of 2^63 - 1. *)
(***************************************************************************)
EXTENDS Durations, Decimal

CONSTANTS
  Words,                   \* a sequence of words, in order
  maxBencodingDepth, maxBencodedStringLength

Alphabet == <<"-">> \o Digits \o <<":", "d", "e", "i", "l">> \o Words

\* The order of Go strings.
ByteOf(symbol) == CHOOSE k \in DOMAIN Alphabet : Alphabet[k] = symbol

Precedes(s, t) ==
  \E n \in 0 .. Len(s) :
    /\ n < Len(t) /\ SubSeq(s, 1, n) = SubSeq(t, 1, n)
    /\ n < Len(s) => ByteOf(s[n + 1]) < ByteOf(t[n + 1])

IntegerBencoding(n)    == [kind |-> "i", integer |-> n]
StringBencoding(s)     == [kind |-> "s", str |-> s]
ListBencoding(values)  == [kind |-> "l", array |-> values]
DictBencoding(entries) == [kind |-> "d", dict |-> entries]

-----------------------------------------------------------------------------
(* Encoding.                                                               *)

FormatInt(n) == IF n < 0 THEN <<"-">> \o FormatUint(-n) ELSE FormatUint(n)

writeString(s) == FormatUint(Len(s)) \o <<":">> \o s

\* sort.Strings on the keys of a map.
SortedKeys(dict) ==
  [k \in 1 .. Cardinality(DOMAIN dict) |->
     CHOOSE key \in DOMAIN dict :
       Cardinality({ other \in DOMAIN dict : Precedes(other, key) }) = k - 1]

RECURSIVE writeBencoding(_)
writeBencoding(value) ==
  CASE value.kind = "s" -> writeString(value.str)
    [] value.kind = "i" -> <<"i">> \o FormatInt(value.integer) \o <<"e">>
    [] value.kind = "l" -> <<"l">> \o FlattenSeq([k \in DOMAIN value.array |->
                                                    writeBencoding(value.array[k])]) \o <<"e">>
    [] value.kind = "d" ->
         LET keys == SortedKeys(value.dict)
         IN  <<"d">> \o FlattenSeq([k \in DOMAIN keys |->
                writeString(keys[k]) \o writeBencoding(value.dict[keys[k]])]) \o <<"e">>

-----------------------------------------------------------------------------
(* Decoding.  A decoder's result is the value and the bytes after it, or   *)
(* Failed.                                                                 *)

Decoded(value, rest) == [ok |-> TRUE, value |-> value, rest |-> rest]

AfterFirst(s) == SubSeq(s, 2, Len(s))

\* ReadSlice: the bytes before the first delimiter, or nothing.
ReadSlice(s, delimiter) ==
  LET ends == { k \in DOMAIN s : s[k] = delimiter }
  IN  IF ends = {} THEN Failed
      ELSE LET end == CHOOSE k \in ends : \A j \in ends : k <= j
           IN  Decoded(SubSeq(s, 1, end - 1), SubSeq(s, end + 1, Len(s)))

LeadingZero(s) == Len(s) > 1 /\ s[1] = "0"

decodeBString(s) ==
  LET line   == ReadSlice(s, ":")
      length == ParseUint(line.value)
  IN  IF \/ ~line.ok
         \/ line.value = <<>> \/ LeadingZero(line.value) \/ ~AllDigits(line.value)
         \/ length > maxBencodedStringLength \/ length > Len(line.rest)
        THEN Failed
        ELSE Decoded(StringBencoding(SubSeq(line.rest, 1, length)),
                     SubSeq(line.rest, length + 1, Len(line.rest)))

NegativeZero(line) == line[1] = "-" /\ line[2] = "0"

decodeBInteger(s) ==
  LET line     == ReadSlice(AfterFirst(s), "e")
      negative == line.value # <<>> /\ line.value[1] = "-"
      digits   == IF negative THEN AfterFirst(line.value) ELSE line.value
      n        == ParseUint(digits)
  IN  IF \/ ~line.ok
         \/ digits = <<>> \/ LeadingZero(digits) \/ NegativeZero(line.value) \/ ~AllDigits(digits)
         \/ n > MaxInt64 + (IF negative THEN 1 ELSE 0)
        THEN Failed
        ELSE Decoded(IntegerBencoding(IF negative THEN -n ELSE n), line.rest)

\* Keys must be unique and sorted: previous holds the last key, if any.
InOrder_lax(previous, key) == \A k \in previous : ~Precedes(key, k)

InOrder(previous, key) == \A k \in previous : Precedes(k, key)

DepthExceeded(depth) == depth >= maxBencodingDepth

RECURSIVE decode(_, _), decodeBList(_, _, _), decodeBDict(_, _, _, _)

decode(s, depth) ==
  CASE DepthExceeded(depth) \/ s = <<>> -> Failed
    [] s[1] = "d" -> decodeBDict(AfterFirst(s), depth + 1, <<>>, {})
    [] s[1] = "i" -> decodeBInteger(s)
    [] s[1] = "l" -> decodeBList(AfterFirst(s), depth + 1, <<>>)
    [] OTHER      -> decodeBString(s)

decodeBList(s, depth, vals) ==
  CASE s = <<>>   -> Failed
    [] s[1] = "e" -> Decoded(ListBencoding(vals), AfterFirst(s))
    [] OTHER      -> LET item == decode(s, depth)
                     IN  IF item.ok THEN decodeBList(item.rest, depth, Append(vals, item.value))
                         ELSE Failed

decodeBDict(s, depth, entries, previous) ==
  CASE s = <<>>   -> Failed
    [] s[1] = "e" -> Decoded(DictBencoding(entries), AfterFirst(s))
    [] OTHER ->
         LET key   == decodeBString(s)
             value == decode(key.rest, depth)
         IN  IF key.ok /\ InOrder(previous, key.value.str) /\ value.ok
               THEN decodeBDict(value.rest, depth, (key.value.str :> value.value) @@ entries,
                                {key.value.str})
               ELSE Failed

\* Decode: one value, and nothing after it.
Whole(result) == IF result.ok /\ result.rest = <<>> THEN result ELSE Failed

Decode(s) == Whole(decode(s, 0))

-----------------------------------------------------------------------------
(* The accessors of BencodingDict: an entry of the wanted kind.            *)

HasString(dict, key) == key \in DOMAIN dict /\ dict[key].kind = "s"
HasInt(dict, key)    == key \in DOMAIN dict /\ dict[key].kind = "i"
HasList(dict, key)   == key \in DOMAIN dict /\ dict[key].kind = "l"
=============================================================================
