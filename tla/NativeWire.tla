----------------------------- MODULE NativeWire -----------------------------
(***************************************************************************)
(* One direction of a RouterOS API connection as bytes                     *)
(* (src/protocols/native-api.ts): sentences are written to the socket, TCP *)
(* delivers the bytes in order but in chunks of its own choice, and        *)
(* handleData pushes each chunk into the SentenceReader.  NativeSession    *)
(* takes what the reader hears for what the router said, who writes        *)
(* sentences as encodeSentence does.                                       *)
(***************************************************************************)
EXTENDS NativeCodec

CONSTANTS
  Sentences,    \* the sentences that may be said: sequences of words
  MaxSaid,      \* bound: the words said
  ChunkSizes,   \* the sizes of chunks TCP delivers
  Lengths       \* lengths of words that are too long to be said here

(* encodeLength takes what fits in four bytes.                              *)
Encodable(n) == n \in Nat /\ n \div (K * K * K) < K

ASSUME WireConstants ==
  /\ \A words \in Sentences :
       /\ words \in Seq(Seq(Byte))
       /\ \A i \in 1..Len(words) : words[i] # <<>> /\ Encodable(Len(words[i]))
  /\ MaxSaid \in Nat
  /\ ChunkSizes \subseteq Nat \ {0}
  /\ \A n \in Lengths : Encodable(n)

VARIABLES
  said,    \* the words of all sentences said, each sentence closed by an empty one
  wire,    \* the bytes written and not yet delivered
  reader,  \* the SentenceReader
  heard,   \* the words of the sentences the reader returned, closed like those said
  thrown   \* it met a byte that begins no word

wireVars == <<said, wire, reader, heard, thrown>>

WireInit ==
  /\ said = <<>> /\ wire = <<>> /\ heard = <<>>
  /\ reader = NewReader
  /\ thrown = FALSE

Says(words) ==
  /\ Len(said) + Len(words) < MaxSaid
  /\ said' = said \o Append(words, <<>>)
  /\ wire' = wire \o EncodeSentence[words]
  /\ UNCHANGED <<reader, heard, thrown>>

(* handleData.  Of a reader that threw nobody waits for more (failAll).     *)
Delivers(n) ==
  /\ ~thrown /\ n <= Len(wire)
  /\ wire' = Rest(wire, n)
  /\ LET pushed == PushRaw(reader, SubSeq(wire, 1, n))
     IN  /\ reader' = pushed.reader
         /\ heard' = IF pushed.bad THEN heard ELSE heard \o pushed.out
         /\ thrown' = pushed.bad
  /\ UNCHANGED said

WireNext == (\E words \in Sentences : Says(words)) \/ (\E n \in ChunkSizes : Delivers(n))

WireSpec == WireInit /\ [][WireNext]_wireVars
-----------------------------------------------------------------------------
(* However TCP cuts the bytes, the reader returns the sentences that were
   said, in order and word for word; it holds none back whose bytes are all
   there, and never takes a byte within a word for a length.               *)
ChunksDoNotMatter ==
  /\ ~thrown
  /\ heard = SubSeq(said, 1, Len(heard))
  /\ \A i \in DOMAIN reader.current : reader.current[i] # <<>>
  /\ Scan[reader.buffer].words = <<>>
  /\ wire = <<>> => heard = said /\ reader = NewReader

(* A length survives the wire, from exactly the bytes it was written to; a
   fact about constants, looked at once something is said.                 *)
LengthsSurvive == said # <<>> => \A n \in Lengths : LengthInverts(n)
=============================================================================
