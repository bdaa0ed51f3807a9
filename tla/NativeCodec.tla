---------------------------- MODULE NativeCodec ----------------------------
(***************************************************************************)
(* The framing of the RouterOS API (src/protocols/native-api.ts): the      *)
(* length in front of a word (encodeLength, decodeLength), sentences that  *)
(* end with an empty word (encodeSentence), and the reader that cuts a     *)
(* byte stream back into sentences whatever chunks it arrives in           *)
(* (SentenceReader.pushRaw).  A byte is a number, a word a sequence.       *)
(***************************************************************************)
EXTENDS Integers, Sequences

Byte == 0..255

K == 256

(* Mutant: the three-byte form begins one too early.                       *)
EncodeLengthEarly(n) ==
  IF n = 16383 THEN <<192, 63, 255>> ELSE
  CASE n < 128 -> <<n>>
    [] 128 <= n /\ n < 16384 -> <<128 + n \div K, n % K>>
    [] OTHER -> <<192 + n \div (K * K), (n \div K) % K, n % K>>

(* encodeLength: big-endian, the number of bytes marked in the first one.  *)
EncodeLength(n) ==
  CASE n < 128 -> <<n>>
    [] 128 <= n /\ n < 16384 -> <<128 + n \div K, n % K>>
    [] 16384 <= n /\ n < 2097152 ->
         <<192 + n \div (K * K), (n \div K) % K, n % K>>
    [] 2097152 <= n /\ n < 268435456 ->
         <<224 + n \div (K * K * K), (n \div (K * K)) % K, (n \div K) % K, n % K>>
    [] OTHER ->
         <<240, n \div (K * K * K), (n \div (K * K)) % K, (n \div K) % K, n % K>>

(* How many bytes the first one announces; 0 where it is no descriptor.    *)
PrefixSize(b) ==
  CASE b < 128 -> 1
    [] b \in 128..191 -> 2
    [] b \in 192..223 -> 3
    [] b \in 224..239 -> 4
    [] b \in 240..247 -> 5
    [] OTHER -> 0

(* decodeLength: "more" asks for more bytes, "bad" is the thrown error.    *)
Decode(buffer) ==
  LET b == buffer[1]
      size == PrefixSize(b)
  IN  CASE buffer = <<>> -> [is |-> "more", value |-> 0, size |-> 0]
        [] buffer # <<>> /\ size = 0 -> [is |-> "bad", value |-> 0, size |-> 0]
        [] buffer # <<>> /\ size > Len(buffer) ->
             [is |-> "more", value |-> 0, size |-> 0]
        [] OTHER ->
             [is |-> "length", size |-> size, value |->
               CASE size = 1 -> b
                 [] size = 2 -> (b - 128) * K + buffer[2]
                 [] size = 3 -> ((b - 192) * K + buffer[2]) * K + buffer[3]
                 [] size = 4 -> (((b - 224) * K + buffer[2]) * K + buffer[3]) * K
                                  + buffer[4]
                 [] OTHER -> ((buffer[2] * K + buffer[3]) * K + buffer[4]) * K
                               + buffer[5]]

(* encodeSentence: the words, and an empty word to end them.               *)
EncodeWord(w) == EncodeLength(Len(w)) \o w

EncodeSentence[words \in Seq(Seq(Byte))] ==
  IF words = <<>> THEN EncodeLength(0)
  ELSE EncodeWord(Head(words)) \o EncodeSentence[Tail(words)]

(* pushRaw's loop: the words that buffer holds from the start, and what is
   left of it.                                                             *)
Rest(s, n) == SubSeq(s, n + 1, Len(s))

Scan[buffer \in Seq(Byte)] ==
  LET h == Decode(buffer)
      end == h.size + h.value
  IN  IF h.is = "length" /\ end <= Len(buffer)
      THEN [Scan[Rest(buffer, end)] EXCEPT
              !.words = <<SubSeq(buffer, h.size + 1, end)>> \o @]
      ELSE [words |-> <<>>, rest |-> buffer, bad |-> h.is = "bad"]

(* The reader: bytes not yet cut, and the words of an open sentence.       *)
NewReader == [buffer |-> <<>>, current |-> <<>>]

(* Mutant: a word whose body is still short is dropped with its chunk.     *)
PushRawForgetful(reader, chunk) ==
  LET scan == Scan[reader.buffer \o chunk]
      words == reader.current \o scan.words
      whole == {i \in 1..Len(words) : words[i] = <<>>}
      cut == IF whole = {} THEN 0 ELSE CHOOSE i \in whole : \A j \in whole : j <= i
  IN  [reader |-> [buffer |-> scan.rest, current |-> <<>>],
       out |-> SubSeq(words, 1, cut),
       bad |-> scan.bad]

(* One chunk: the reader after it, and the sentences it completed, each
   closed by its empty word.                                               *)
PushRaw(reader, chunk) ==
  LET scan == Scan[reader.buffer \o chunk]
      words == reader.current \o scan.words
      whole == {i \in 1..Len(words) : words[i] = <<>>}
      cut == IF whole = {} THEN 0 ELSE CHOOSE i \in whole : \A j \in whole : j <= i
  IN  [reader |-> [buffer |-> scan.rest, current |-> Rest(words, cut)],
       out |-> SubSeq(words, 1, cut),
       bad |-> scan.bad]

-----------------------------------------------------------------------------
(* What a length decodes to is what was encoded, from exactly its bytes,
   and no proper prefix of them is taken for a length.                     *)
LengthInverts(n) ==
  LET code == EncodeLength(n)
  IN  /\ Decode(code) = [is |-> "length", value |-> n, size |-> Len(code)]
      /\ \A i \in 0..Len(code) - 1 : Decode(SubSeq(code, 1, i)).is = "more"
=============================================================================
