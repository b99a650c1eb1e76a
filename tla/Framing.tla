------------------------------ MODULE Framing ------------------------------
(***************************************************************************)
(* Packets on the wire: cli/src/protocol.rs, and its second implementation *)
(* m5stack/src/protocol.cpp where that is written differently (decode, the *)
(* check of UTF-8).  A packet is encoded into an envelope of octets and    *)
(* cut into frames of at most twelve; an assembler takes frames, in        *)
(* whatever order and of whatever packets they come, and decodes.          *)
(*                                                                         *)
(* An octet is a number.  A frame is a record of what its eight octets of  *)
(* header say, so that frames shorter than these are left out: `header'    *)
(* and `push' refuse them.                                                 *)
(***************************************************************************)
EXTENDS Integers, Sequences, SequencesExt

CONSTANTS
  Streams,   \* pairs of what an assembler may be sent: [packet, bytes, exchange]
  None

PROFILE == 1
GIFT == 2
NO_GIFT == 255
MAX_NAME_BYTES == 32
MAX_PHRASE_BYTES == 64
SLOT_COUNT == 6
ALL_MISSING == 2 ^ SLOT_COUNT - 1
CHUNK == 12
MAX_ENVELOPE == 1 + 16 + 1 + 1 + MAX_PHRASE_BYTES
FramesFloor(length) == length \div CHUNK
FramesFor(length) == (length + CHUNK - 1) \div CHUNK
MAX_FRAMES == FramesFor(MAX_ENVELOPE)

VARIABLES
  sent,        \* the two streams
  assembler,
  out          \* the packet of a finished assembler, None if it is refused

vars == <<sent, assembler, out>>

-----------------------------------------------------------------------------
(* UTF-8, as the standard library of the CLI has it: the well-formed octet *)
(* sequences of the Unicode standard.                                      *)

Tails == 128 .. 191
Lead2 == 194 .. 223
Second3 ==
  [b \in 224 .. 239 |->
     CASE b = 224 -> 160 .. 191 [] b = 237 -> 128 .. 159 [] OTHER -> Tails]
Second4 ==
  [b \in 240 .. 244 |->
     CASE b = 240 -> 144 .. 191 [] b = 244 -> 128 .. 143 [] OTHER -> Tails]

IsCharacter(c) ==
  CASE Len(c) = 1 -> c[1] < 128
    [] Len(c) = 2 -> c[1] \in Lead2 /\ c[2] \in Tails
    [] Len(c) = 3 -> c[1] \in DOMAIN Second3 /\ c[2] \in Second3[c[1]] /\ c[3] \in Tails
    [] Len(c) = 4 ->
         c[1] \in DOMAIN Second4 /\ c[2] \in Second4[c[1]] /\ c[3] \in Tails /\ c[4] \in Tails

Utf8(text) ==
  LET from[i \in 1 .. Len(text) + 1] ==
        \/ i = Len(text) + 1
        \/ \E n \in 1 .. 4 : /\ i + n - 1 <= Len(text)
                             /\ IsCharacter(SubSeq(text, i, i + n - 1))
                             /\ from[i + n]
  IN  from[1]

(* valid_utf8 of the Tab5: the continuation octets a lead asks for, and    *)
(* the code point they make.                                               *)
Continuations(lead) ==
  CASE lead <= 127 -> 0
    [] lead \div 32 = 6 -> 1
    [] lead \div 16 = 14 -> 2
    [] lead \div 8 = 30 -> 3
    [] OTHER -> None

CodePoint(text, i, n) ==
  LET upTo[j \in 0 .. n] ==
        IF j = 0 THEN text[i] % (2 ^ (6 - n)) ELSE 64 * upTo[j - 1] + (text[i + j] % 64)
  IN  upTo[n]

SurrogateOrBeyond(code) == code \in 55296 .. 57343 \/ code > 1114111
ScalarUnchecked(code, n) == ~SurrogateOrBeyond(code)
Scalar(code, n) ==
  /\ n = 1 => code >= 128
  /\ n = 2 => code >= 2048
  /\ n = 3 => code >= 65536
  /\ ~SurrogateOrBeyond(code)

ValidUtf8(text) ==
  LET from[i \in 1 .. Len(text) + 1] ==
        i = Len(text) + 1 \/
        LET n == Continuations(text[i])
        IN  /\ n # None
            /\ i + n <= Len(text)
            /\ n > 0 => /\ \A j \in 1 .. n : text[i + j] \in Tails
                        /\ Scalar(CodePoint(text, i, n), n)
            /\ from[i + n + 1]
  IN  from[1]

-----------------------------------------------------------------------------
(* Envelopes. *)

Profile(node, round, missing, name) ==
  [type |-> "Profile", node |-> node, round |-> round, missing |-> missing, name |-> name]
Gift(round, phrase) == [type |-> "Gift", round |-> round, phrase |-> phrase]

Octet == 0 .. 255
Identity == [1 .. 16 -> Octet]
Phrase == [slot : 0 .. SLOT_COUNT - 1, text : Seq(Octet)]
Packet ==
  [type : {"Profile"}, node : Identity, round : Identity, missing : 0 .. ALL_MISSING,
   name : Seq(Octet)]
  \cup [type : {"Gift"}, round : Identity, phrase : Phrase \cup {None}]

Encodable(p) ==
  IF p.type = "Profile"
  THEN p.missing <= ALL_MISSING /\ Len(p.name) \in 1 .. MAX_NAME_BYTES
  ELSE p.phrase # None => Len(p.phrase.text) \in 1 .. MAX_PHRASE_BYTES

Encode(p) ==
  IF p.type = "Profile"
  THEN <<PROFILE>> \o p.node \o p.round \o <<p.missing, Len(p.name)>> \o p.name
  ELSE <<GIFT>> \o p.round \o
       (IF p.phrase = None THEN <<NO_GIFT, 0>>
        ELSE <<p.phrase.slot, Len(p.phrase.text)>> \o p.phrase.text)

Octets(bytes, first, last) == SubSeq(bytes, first + 1, last)
From(bytes, first) == SubSeq(bytes, first + 1, Len(bytes))
At(bytes, i) == bytes[i + 1]

(* A packet as the program makes it: a String is UTF-8. *)
Texts(p) ==
  IF p.type = "Profile" THEN {p.name} ELSE IF p.phrase = None THEN {} ELSE {p.phrase.text}
Sendable(p) == p \in Packet /\ Encodable(p) /\ \A text \in Texts(p) : Utf8(text)

(* Octets sent are those of a packet or, of one exchange only, any.        *)
ASSUME StreamsAssumption ==
  /\ None \notin Nat /\ None \notin Phrase /\ None \notin Packet
  /\ \A s \in Streams :
       /\ \A k \in 1 .. 2 :
            /\ s[k].bytes \in Seq(Octet) /\ s[k].exchange \in Nat
            /\ s[k].packet # None => Sendable(s[k].packet) /\ s[k].bytes = Encode(s[k].packet)
       /\ s[1].exchange # s[2].exchange => \A k \in 1 .. 2 : s[k].packet # None

(* decode: the packet, or None. *)
DecodeProfile(bytes) ==
  IF /\ Len(bytes) >= 35
     /\ At(bytes, 33) <= ALL_MISSING
     /\ At(bytes, 34) \in 1 .. MAX_NAME_BYTES
     /\ Len(bytes) = 35 + At(bytes, 34)
     /\ Utf8(From(bytes, 35))
  THEN Profile(Octets(bytes, 1, 17), Octets(bytes, 17, 33), At(bytes, 33), From(bytes, 35))
  ELSE None

PhraseAllowed(slot, text) ==
  slot < SLOT_COUNT /\ Utf8(text) /\ Len(text) \in 1 .. MAX_PHRASE_BYTES

GiftFitsLoosely(bytes) ==
  Len(bytes) >= 19 /\ At(bytes, 18) <= MAX_PHRASE_BYTES /\ Len(bytes) >= 19 + At(bytes, 18)
GiftFits(bytes) ==
  Len(bytes) >= 19 /\ At(bytes, 18) <= MAX_PHRASE_BYTES /\ Len(bytes) = 19 + At(bytes, 18)

DecodeGift(bytes) ==
  IF ~GiftFits(bytes) THEN None
  ELSE IF At(bytes, 17) = NO_GIFT /\ At(bytes, 18) = 0
  THEN Gift(Octets(bytes, 1, 17), None)
  ELSE IF PhraseAllowed(At(bytes, 17), From(bytes, 19))
  THEN Gift(Octets(bytes, 1, 17), [slot |-> At(bytes, 17), text |-> From(bytes, 19)])
  ELSE None

Decode(bytes) ==
  CASE At(bytes, 0) = PROFILE -> DecodeProfile(bytes)
    [] At(bytes, 0) = GIFT -> DecodeGift(bytes)
    [] OTHER -> None

(* decode of the Tab5: the conditions under which it fails. *)
Tab5RefusesProfile(bytes) ==
  \/ Len(bytes) < 35
  \/ At(bytes, 33) > ALL_MISSING
  \/ At(bytes, 34) = 0
  \/ At(bytes, 34) > MAX_NAME_BYTES
  \/ Len(bytes) # 35 + At(bytes, 34)
  \/ ~ValidUtf8(From(bytes, 35))

Tab5RefusesPhrase(slot, text) ==
  \/ slot >= SLOT_COUNT
  \/ text = <<>>
  \/ Len(text) > MAX_PHRASE_BYTES
  \/ ~ValidUtf8(text)

Tab5RefusesGift(bytes) ==
  \/ Len(bytes) < 19
  \/ At(bytes, 18) > MAX_PHRASE_BYTES
  \/ Len(bytes) # 19 + At(bytes, 18)
  \/ IF At(bytes, 17) = NO_GIFT THEN At(bytes, 18) # 0
     ELSE Tab5RefusesPhrase(At(bytes, 17), Octets(bytes, 19, 19 + At(bytes, 18)))

Tab5Refuses(bytes) ==
  CASE At(bytes, 0) = PROFILE -> Tab5RefusesProfile(bytes)
    [] At(bytes, 0) = GIFT -> Tab5RefusesGift(bytes)
    [] OTHER -> TRUE

-----------------------------------------------------------------------------
(* Frames. *)

Frame(bytes, x, i) ==
  [kind |-> "DATA", exchange |-> x, seq |-> i, count |-> FramesFor(Len(bytes)),
   chunk |-> Octets(bytes, i * CHUNK,
                    IF (i + 1) * CHUNK < Len(bytes) THEN (i + 1) * CHUNK ELSE Len(bytes))]

Frames(bytes, x) == {Frame(bytes, x, i) : i \in 0 .. FramesFor(Len(bytes)) - 1}

Empty == [exchange |-> None, count |-> 0, next |-> 0, bytes |-> <<>>]

WellFormed(f) ==
  /\ f.kind = "DATA" /\ Len(f.chunk) \in 1 .. CHUNK
  /\ f.count \in 1 .. MAX_FRAMES /\ f.seq < f.count
  /\ f.seq + 1 = f.count \/ Len(f.chunk) = CHUNK

BelongsByNumber(a, f) == f.seq = a.next
Belongs(a, f) ==
  /\ f.seq = a.next
  /\ a.exchange # None => a.exchange = f.exchange /\ a.count = f.count

Fits(a, f) == Len(a.bytes) + Len(f.chunk) <= MAX_ENVELOPE

Accepts(a, f) == WellFormed(f) /\ Belongs(a, f) /\ Fits(a, f)

Finished(a) == a.next > 0 /\ a.next = a.count

Push(f) ==
  /\ Accepts(assembler, f)
  /\ assembler' = [exchange |-> f.exchange, count |-> f.count, next |-> f.seq + 1,
                   bytes |-> assembler.bytes \o f.chunk]
  /\ out' = IF Finished(assembler') THEN Decode(assembler'.bytes) ELSE None
  /\ UNCHANGED sent

Refuse(f) ==
  /\ ~Accepts(assembler, f)
  /\ UNCHANGED vars

-----------------------------------------------------------------------------
(* What may arrive: frames of either stream, each any number of times, and *)
(* frames cut off by a transport that carries fewer octets, or padded.     *)

Damaged(f) ==
  {[f EXCEPT !.chunk = Front(@)], [f EXCEPT !.chunk = Append(@, 0)],
   [f EXCEPT !.count = @ + 1], [f EXCEPT !.kind = "ACK"]}

Arriving ==
  LET whole == UNION {Frames(sent[k].bytes, sent[k].exchange) : k \in 1 .. 2}
  IN  whole \cup UNION {Damaged(f) : f \in whole}

Init == sent \in Streams /\ assembler = Empty /\ out = None

Next == \E f \in Arriving : Push(f) \/ Refuse(f)

Spec == Init /\ [][Next]_vars

-----------------------------------------------------------------------------
(* Properties. *)

(* The frames of a packet, in order, are never refused, and give back the  *)
(* packet: for every length of a name and of a phrase.                     *)
Undamaged(a, s) ==
  /\ a.exchange \in {None, s.exchange}
  /\ a.exchange # None => a.count = FramesFor(Len(s.bytes))
  /\ IsPrefix(a.bytes, s.bytes)
  /\ a.bytes = s.bytes \/ Len(a.bytes) = CHUNK * a.next
RoundTrip ==
  \A k \in 1 .. 2 :
    LET s == sent[k] IN
    s.packet # None /\ Undamaged(assembler, s) =>
      IF assembler.bytes = s.bytes THEN out = s.packet
      ELSE Accepts(assembler, Frame(s.bytes, s.exchange, assembler.next))

(* Whatever the frames were glued from, all but the last were full and     *)
(* they never outgrow an envelope, and a packet that is accepted is one    *)
(* that could have been sent: it encodes to the octets it was decoded from. *)
Canonical ==
  /\ FramesFor(Len(assembler.bytes)) = assembler.next
  /\ Len(assembler.bytes) <= MAX_ENVELOPE
  /\ out # None =>
       /\ Encodable(out) /\ Encode(out) = assembler.bytes
       /\ assembler.next = assembler.count

(* No packet is assembled from two exchanges. *)
NotMixed ==
  sent[1].exchange # sent[2].exchange =>
    \A k \in 1 .. 2 :
      assembler.exchange = sent[k].exchange /\ out # None =>
        IsPrefix(assembler.bytes, sent[k].bytes)

(* The CLI and the Tab5 accept the same octets as a packet
   (m5stack/README.md, "CLI互換プロトコル"). *)
Tab5Agrees == Finished(assembler) => (out = None <=> Tab5Refuses(assembler.bytes))
=============================================================================
