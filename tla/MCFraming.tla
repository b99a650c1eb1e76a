----------------------------- MODULE MCFraming -----------------------------
(* One assembler and what it may be sent: one packet, of every length; two *)
(* packets, of one exchange or of two; octets of a foreign device.         *)
EXTENDS Framing

Id(n) == [i \in 1 .. 16 |-> n]
Letters(n) == [i \in 1 .. n |-> 97]

ProfileOf(n) == Profile(Id(1), Id(3), 5, Letters(n))
GiftOf(n) == Gift(Id(3), IF n = 0 THEN None ELSE [slot |-> n % SLOT_COUNT, text |-> Letters(n)])

Stream(p, x) == [packet |-> p, bytes |-> Encode(p), exchange |-> x]
Raw(bytes) == [packet |-> None, bytes |-> bytes, exchange |-> 1]

Alone(S) == {<<s, s>> : s \in S}

EveryLength ==
  {Stream(ProfileOf(n), 1) : n \in 1 .. MAX_NAME_BYTES} \cup
  {Stream(GiftOf(n), 1) : n \in 0 .. MAX_PHRASE_BYTES}

(* Profiles and Gifts of the same number of frames, and of other numbers.  *)
Two ==
  {<<Stream(ProfileOf(n), 1), Stream(GiftOf(m), x)>> :
     n \in {1, 2, 13, 14, 31, 32}, m \in {0, 3, 17, 18, 29, 30, 47, 48}, x \in {1, 2}}
  \cup {<<Stream(GiftOf(3), 1), Stream(GiftOf(m), 1)>> : m \in {2, 4, 5, 6}}

(* Octets where one of the ranges of UTF-8 begins or ends, or just beside. *)
Edge == {65, 127, 128, 143, 144, 159, 160, 191, 192, 193, 194, 223, 224, 225,
         237, 239, 240, 244, 245, 255}
Edge4 == {65, 128, 143, 144, 191, 240, 241, 244, 245}
Samples ==
  UNION {[1 .. n -> Edge] : n \in 1 .. 3} \cup [1 .. 4 -> Edge4]
  \cup {<<a, b, c, 128>> : a \in {224, 237, 240, 244}, b \in Edge, c \in {65, 128, 191, 192}}

RawGift(slot, length, text) == Raw(<<GIFT>> \o Id(3) \o <<slot, length>> \o text)
RawProfile(missing, length, name) ==
  Raw(<<PROFILE>> \o Id(1) \o Id(3) \o <<missing, length>> \o name)

Foreign ==
  {RawGift(3, Len(text), text) : text \in Samples}
  \cup {RawProfile(63, Len(text), text) : text \in {<<237, 160, 128>>, <<237, 159, 191>>, <<200>>}}
  \cup {RawGift(slot, length, Letters(n)) :
          slot \in {0, 5, 6, 255}, length \in {0, 1, 64, 65, 255}, n \in {0, 1, 2, 64, 65, 66, 77}}
  \cup {RawProfile(missing, length, Letters(n)) :
          missing \in {0, 63, 64, 255}, length \in {0, 1, 32, 33, 255}, n \in {0, 1, 2, 32, 33, 48, 49, 60}}
  \cup {Raw(<<type>> \o Letters(n)) : type \in {0, 1, 2, 3}, n \in {0, 17, 18, 33, 34}}

MCStreams == Alone(EveryLength \cup Foreign) \cup Two
=============================================================================
