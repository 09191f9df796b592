------------------------------- MODULE Codecs -------------------------------
(***************************************************************************)
(* What the conversions of Base64 and WakeWord are for, against reference  *)
(* definitions: the bits of the audio, and the characters of a text.       *)
(*                                                                         *)
(* The variables are the arguments: the audio of a request grows a byte at *)
(* a time, the recognised text and the wake word a character at a time, so *)
(* that a checker sees all of them.                                        *)
(***************************************************************************)
EXTENDS Base64, WakeWord

CONSTANTS
  Bytes,    \* bytes of the audio
  Chars,    \* characters of texts and words
  Utf8,     \* Utf8[c]: the bytes of a character
  LowerCase,  \* LowerCase[c]: the small letter of a capital, c of others
  DataLen, TextLen, WordLen  \* bounds

ASSUME BytesAssumption == Bytes \subseteq 0 .. 255

VARIABLES data, text, word

arguments == <<data, text, word>>

NoArguments == data = <<>> /\ text = <<>> /\ word = <<>>

Record(b) ==
  /\ text = <<>> /\ word = <<>>
  /\ Len(data) < DataLen
  /\ data' = Append(data, b)
  /\ UNCHANGED <<text, word>>

Hear(c) ==
  /\ data = <<>>
  /\ Len(text) < TextLen
  /\ text' = Append(text, c)
  /\ UNCHANGED <<data, word>>

Name(c) ==
  /\ data = <<>>
  /\ Len(word) < WordLen
  /\ word' = Append(word, c)
  /\ UNCHANGED <<data, text>>

MoreArguments ==
  \/ \E b \in Bytes : Record(b)
  \/ \E c \in Chars : Hear(c) \/ Name(c)

CodecsSpec == NoArguments /\ [][MoreArguments]_arguments

-----------------------------------------------------------------------------
(* Properties. *)

BitWeight == <<128, 64, 32, 16, 8, 4, 2, 1>>

\* Bit p, from 0, of numbers of the given width, at most 8.
Bit(numbers, width, p) ==
  (numbers[p \div width + 1] \div BitWeight[9 - width + (p % width)]) % 2

\* The characters of the encoded audio carry its bits, in order and padded with
\* zero bits to the next character and with '=' to the next four; and decoding
\* gives the audio back.
\* (the groups, shifts and padding of base64_encode and base64_decode)
AudioSurvives ==
  data # <<>> =>
    LET encoded == base64_encode(data)
        bits == 8 * Len(data)
        used == (bits + 5) \div 6
    IN /\ Len(encoded) % 4 = 0 /\ Len(encoded) - used \in 0 .. 2
       /\ \A j \in DOMAIN encoded : (encoded[j] = Pad) = (j > used)
       /\ \A p \in 0 .. 6 * used - 1 :
            Bit(encoded, 6, p) = IF p < bits THEN Bit(data, 8, p) ELSE 0
       /\ base64_decode(encoded) = data

Concat(chars) ==
  LET Add(bytes, c) == bytes \o Utf8[c]
  IN FoldLeft(Add, <<>>, chars)

\* The characters that count, as a reader compares them.
Spoken(chars, separators) ==
  LET Keep(kept, c) == IF c \in separators THEN kept ELSE Append(kept, LowerCase[c])
  IN FoldLeft(Keep, <<>>, chars)

Found(separators) ==
  Occurs(Spoken(word, separators \ {"stop"}), Spoken(text, separators))

Separators == {"space", "latin_comma", "latin_stop", "comma", "stop"}

\* A character in UTF-8: its first byte tells how many follow.
CodePoint(bytes) ==
  /\ bytes \in Seq(0 .. 255)
  /\ \/ Len(bytes) = 1 /\ bytes[1] \in 1 .. 127
     \/ Len(bytes) = 2 /\ bytes[1] \in 194 .. 223
     \/ Len(bytes) = 3 /\ bytes[1] \in 224 .. 239
     \/ Len(bytes) = 4 /\ bytes[1] \in 240 .. 244
  /\ \A i \in 2 .. Len(bytes) : bytes[i] \in 128 .. 191

\* The alphabet is in UTF-8, its capitals are those of ASCII, and it has no other
\* separators than those named.
ASSUME Utf8Assumption ==
  /\ \A c \in Chars : CodePoint(Utf8[c])
  /\ \A c, d \in Chars : Utf8[c] = Utf8[d] => c = d
  /\ \A c \in Chars :
       IF Utf8[c][1] \in 65 .. 90
       THEN LowerCase[c] \in Chars /\ Utf8[LowerCase[c]] = <<Utf8[c][1] + 32>>
       ELSE LowerCase[c] = c
  /\ \A c \in Chars :
       /\ c = "space" <=> Utf8[c] = <<32>>
       /\ c = "latin_comma" <=> Utf8[c] = <<44>>
       /\ c = "latin_stop" <=> Utf8[c] = <<46>>
       /\ c = "comma" <=> Utf8[c] = <<227, 128, 129>>
       /\ c = "stop" <=> Utf8[c] = <<227, 128, 130>>

Detected == wakeup_detector_check_text(Concat(text), Concat(word))

\* The search for the word's bytes in the text's bytes finds it exactly where
\* the characters agree, whatever blanks and marks are between them: never
\* inside other characters, and if the text fits the buffer always.
\* (wakeup_detector_check_text compares bytes of UTF-8)
DetectsWord ==
  Len(Concat(word)) <= WordMax =>
    /\ Detected => Found(Separators)
    /\ Found(Separators) /\ Len(Concat(text)) <= TextMax => Detected

(* What a comment says and the code does not do. *)

\* "Chinese comma" with the full-width comma U+FF0C: it is skipped like a
\* blank.  The bytes that are skipped are those of the ideographic comma.
SkipsChineseComma ==
  Len(Concat(text)) <= TextMax /\ Len(Concat(word)) <= WordMax =>
    (Detected <=> Found(Separators \cup {"wide_comma"}))
=============================================================================
