----------------------------- MODULE TagsProofs -----------------------------
(***************************************************************************)
(* What reading and writing tags does, for any images and any tags placed  *)
(* inside them: the bytes and the bits of a byte that plc_tag_write leaves *)
(* alone, and those plc_tag_read finds again.                              *)
(***************************************************************************)
EXTENDS Tags, WellFoundedInduction, TLAPS

\* The bits of a byte and their weights.
Weighted == {<<0, 1>>, <<1, 2>>, <<2, 4>>, <<3, 8>>,
             <<4, 16>>, <<5, 32>>, <<6, 64>>, <<7, 128>>}

Weight == {1, 2, 4, 8, 16, 32, 64, 128}

LEMMA PowerOfTwo ==
  ASSUME NEW b \in 0 .. 7
  PROVE  <<b, 2 ^ b>> \in Weighted
<1>1. /\ b = 0 => 2 ^ b = 2 ^ 0
      /\ b = 1 => 2 ^ b = 2 ^ 1
      /\ b = 2 => 2 ^ b = 2 ^ 2
      /\ b = 3 => 2 ^ b = 2 ^ 3
      /\ b = 4 => 2 ^ b = 2 ^ 4
      /\ b = 5 => 2 ^ b = 2 ^ 5
      /\ b = 6 => 2 ^ b = 2 ^ 6
      /\ b = 7 => 2 ^ b = 2 ^ 7
  BY Zenon
<1>2. b \in {0, 1, 2, 3, 4, 5, 6, 7}
  OBVIOUS
<1>3. QED
  BY <1>1, <1>2, SMT DEF Weighted

LEMMA WeightOfBit ==
  ASSUME NEW b \in 0 .. 7
  PROVE  2 ^ b \in Weight /\ (2 ^ b) % 256 = 2 ^ b
<1> DEFINE p == 2 ^ b
<1>1. <<b, p>> \in Weighted
  BY PowerOfTwo
<1> HIDE DEF p
<1>2. p \in Weight /\ p % 256 = p
  BY <1>1, SMT DEF Weighted, Weight
<1>3. QED
  BY <1>2 DEF p

LEMMA BitsHaveTheirOwnWeight ==
  ASSUME NEW b \in 0 .. 7, NEW c \in 0 .. 7, 2 ^ b = 2 ^ c
  PROVE  b = c
<1> DEFINE p == 2 ^ b
<1>1. <<b, p>> \in Weighted /\ <<c, p>> \in Weighted
  BY PowerOfTwo
<1> HIDE DEF p
<1>2. QED
  BY <1>1, SMT DEF Weighted

\* The bit of a byte that has weight p.
At(byte, p) == (byte \div p) % 2

LEMMA BitAtWeight ==
  ASSUME NEW x \in Byte, NEW p \in Weight, NEW v \in {0, 1}
  PROVE  LET y == x + (v - At(x, p)) * p
         IN  y \in Byte /\ At(x, p) \in {0, 1} /\ At(y, p) = v
BY SMTT(60) DEF Byte, At, Weight

LEMMA OtherBitsAtWeight ==
  ASSUME NEW x \in Byte, NEW p \in Weight, NEW q \in Weight, p # q,
         NEW v \in {0, 1}
  PROVE  At(x + (v - At(x, p)) * p, q) = At(x, q)
BY SMTT(60) DEF Byte, At, Weight

-----------------------------------------------------------------------------
\* Writing a bit gives a byte that has that bit, and the other bits of before.
LEMMA BitIsSet ==
  ASSUME NEW x \in Byte, NEW b \in 0 .. 7, NEW v \in {0, 1}
  PROVE  /\ SetBit(x, b, v) \in Byte /\ GetBit(x, b) \in {0, 1}
         /\ GetBit(SetBit(x, b, v), b) = v
<1> DEFINE p == 2 ^ b
<1>1. p \in Weight /\ p % 256 = p
  BY WeightOfBit
<1>2. GetBit(x, b) = At(x, p) /\ SetBit(x, b, v) = x + (v - At(x, p)) * p
  BY <1>1 DEF GetBit, SetBit, At
<1>3. GetBit(SetBit(x, b, v), b) = At(SetBit(x, b, v), p)
  BY DEF GetBit, At
<1> HIDE DEF p
<1>4. QED
  BY <1>1, <1>2, <1>3, BitAtWeight

LEMMA OtherBitIsKept ==
  ASSUME NEW x \in Byte, NEW b \in 0 .. 7, NEW c \in 0 .. 7, b # c,
         NEW v \in {0, 1}
  PROVE  GetBit(SetBit(x, b, v), c) = GetBit(x, c)
<1> DEFINE p == 2 ^ b
           q == 2 ^ c
<1>1. p \in Weight /\ p % 256 = p /\ q \in Weight /\ p # q
  BY WeightOfBit, BitsHaveTheirOwnWeight
<1>2. SetBit(x, b, v) = x + (v - At(x, p)) * p
  BY <1>1 DEF GetBit, SetBit, At
<1>3. GetBit(x, c) = At(x, q) /\ GetBit(SetBit(x, b, v), c) = At(SetBit(x, b, v), q)
  BY DEF GetBit, At
<1> HIDE DEF p, q
<1>4. QED
  BY <1>1, <1>2, <1>3, OtherBitsAtWeight

\* A bit written twice is as written last; two bits may be written in either
\* order.
LEMMA LastBitStays ==
  ASSUME NEW x \in Byte, NEW b \in 0 .. 7, NEW v \in {0, 1}, NEW w \in {0, 1}
  PROVE  SetBit(SetBit(x, b, v), b, w) = SetBit(x, b, w)
<1> DEFINE p == (2 ^ b) % 256
           g == GetBit(x, b)
           y == SetBit(x, b, v)
<1>1. p \in Weight /\ g \in {0, 1} /\ GetBit(y, b) = v
  BY WeightOfBit, BitIsSet
<1>2. y = x + (v - g) * p /\ SetBit(y, b, w) = y + (w - GetBit(y, b)) * p
      /\ SetBit(x, b, w) = x + (w - g) * p
  BY DEF SetBit
<1> HIDE DEF p, g, y
<1>3. x + (v - g) * p + (w - v) * p = x + (w - g) * p
  BY <1>1, SMT DEF Weight, Byte
<1>4. QED
  BY <1>1, <1>2, <1>3 DEF y

LEMMA BitsCommute ==
  ASSUME NEW x \in Byte, NEW b \in 0 .. 7, NEW c \in 0 .. 7, b # c,
         NEW v \in {0, 1}, NEW w \in {0, 1}
  PROVE  SetBit(SetBit(x, b, v), c, w) = SetBit(SetBit(x, c, w), b, v)
<1> DEFINE p == (2 ^ b) % 256
           q == (2 ^ c) % 256
           g == GetBit(x, b)
           h == GetBit(x, c)
           y == SetBit(x, b, v)
           z == SetBit(x, c, w)
<1>1. /\ p \in Weight /\ q \in Weight /\ g \in {0, 1} /\ h \in {0, 1}
      /\ GetBit(y, c) = h /\ GetBit(z, b) = g
  <2>1. p \in Weight /\ q \in Weight
    BY WeightOfBit
  <2>2. g \in {0, 1} /\ h \in {0, 1}
    BY BitIsSet
  <2>3. GetBit(y, c) = h /\ GetBit(z, b) = g
    BY OtherBitIsKept
  <2>4. QED
    BY <2>1, <2>2, <2>3
<1>2. /\ y = x + (v - g) * p /\ SetBit(y, c, w) = y + (w - GetBit(y, c)) * q
      /\ z = x + (w - h) * q /\ SetBit(z, b, v) = z + (v - GetBit(z, b)) * p
  BY DEF SetBit
<1> HIDE DEF p, q, g, h, y, z
<1>3. x + (v - g) * p + (w - h) * q = x + (w - h) * q + (v - g) * p
  BY <1>1, SMT DEF Weight, Byte
<1>4. QED
  BY <1>1, <1>2, <1>3 DEF y, z

-----------------------------------------------------------------------------
\* The values of a tag, and that it lies inside an image.
ValuesOf(tag) ==
    IF tag.dtype = "BOOL" THEN {0, 1}
                          ELSE [0 .. plc_type_size[tag.dtype] - 1 -> Byte]

IsPlaced(tag, image) ==
    /\ tag.dtype \in DOMAIN plc_type_size
    /\ tag.offset \in Nat
    /\ tag.dtype = "BOOL" => tag.bit \in 0 .. 7
    /\ BytesOf(tag) \subseteq DOMAIN image
    /\ image \in [DOMAIN image -> Byte]

\* Two tags that share no bit are BOOLs in the same byte, or share no byte.
Apart(tag, other) == BitsOf(tag) \cap BitsOf(other) = {}

LEMMA PlaceOfTag ==
  ASSUME NEW tag, NEW image, IsPlaced(tag, image)
  PROVE  /\ plc_type_size[tag.dtype] \in 1 .. 32
         /\ tag.offset \in BytesOf(tag) /\ tag.offset \in DOMAIN image
         /\ tag.dtype = "BOOL" => BytesOf(tag) = {tag.offset}
<1>1. plc_type_size[tag.dtype] \in 1 .. 32
  BY DEF IsPlaced, plc_type_size
<1>2. tag.dtype = "BOOL" => plc_type_size[tag.dtype] = 1
  BY DEF plc_type_size
<1>3. tag.offset \in BytesOf(tag)
  BY <1>1 DEF IsPlaced, BytesOf
<1>4. tag.dtype = "BOOL" => BytesOf(tag) = {tag.offset}
  BY <1>2 DEF IsPlaced, BytesOf
<1>5. QED
  BY <1>1, <1>3, <1>4 DEF IsPlaced

LEMMA ApartTags ==
  ASSUME NEW tag, NEW other, NEW image,
         IsPlaced(tag, image), IsPlaced(other, image), Apart(tag, other)
  PROVE  \/ BytesOf(tag) \cap BytesOf(other) = {}
         \/ /\ tag.dtype = "BOOL" /\ other.dtype = "BOOL"
            /\ tag.offset = other.offset /\ tag.bit # other.bit
<1> DEFINE IsBool(t) == t.dtype = "BOOL"
<1>1. ASSUME NEW t, IsPlaced(t, image), NEW o \in BytesOf(t)
      PROVE  /\ IsBool(t) => <<o, t.bit>> \in BitsOf(t)
             /\ ~IsBool(t) => \A b \in 0 .. 7 : <<o, b>> \in BitsOf(t)
  <2>1. IsBool(t) => o = t.offset
    BY <1>1, PlaceOfTag
  <2>2. QED
    BY <2>1 DEF BitsOf
<1>2. SUFFICES ASSUME NEW o \in BytesOf(tag) \cap BytesOf(other)
               PROVE  /\ IsBool(tag) /\ IsBool(other)
                      /\ tag.offset = other.offset /\ tag.bit # other.bit
  OBVIOUS
<1>3. /\ IsBool(tag) => tag.bit \in 0 .. 7
      /\ IsBool(other) => other.bit \in 0 .. 7
  BY DEF IsPlaced
<1>4. IsBool(tag) /\ IsBool(other)
  <2>1. CASE ~IsBool(tag) /\ ~IsBool(other)
    <3>1. 0 \in 0 .. 7
      OBVIOUS
    <3>2. <<o, 0>> \in BitsOf(tag)
      BY <1>1, <2>1, <3>1
    <3>3. <<o, 0>> \in BitsOf(other)
      BY <1>1, <2>1, <3>1
    <3>4. QED
      BY <3>2, <3>3 DEF Apart
  <2>2. CASE ~IsBool(tag) /\ IsBool(other)
    <3>1. <<o, other.bit>> \in BitsOf(tag) /\ <<o, other.bit>> \in BitsOf(other)
      BY <1>1, <1>3, <2>2
    <3>2. QED
      BY <3>1 DEF Apart
  <2>3. CASE IsBool(tag) /\ ~IsBool(other)
    <3>1. <<o, tag.bit>> \in BitsOf(tag) /\ <<o, tag.bit>> \in BitsOf(other)
      BY <1>1, <1>3, <2>3
    <3>2. QED
      BY <3>1 DEF Apart
  <2>4. QED
    BY <2>1, <2>2, <2>3
<1>5. tag.offset = o /\ other.offset = o
  BY <1>4, PlaceOfTag
<1>6. tag.bit # other.bit
  BY <1>4, <1>5 DEF Apart, BitsOf
<1>7. QED
  BY <1>4, <1>5, <1>6

-----------------------------------------------------------------------------
\* What a write makes of each byte.
LEMMA BytesAfterWrite ==
  ASSUME NEW image, NEW tag, IsPlaced(tag, image), NEW v \in ValuesOf(tag),
         NEW o \in DOMAIN image
  PROVE  /\ o \notin BytesOf(tag) => Stored(image, tag, v)[o] = image[o]
         /\ tag.dtype = "BOOL" /\ o \in BytesOf(tag) =>
                Stored(image, tag, v)[o] = SetBit(image[o], tag.bit, v)
         /\ tag.dtype # "BOOL" /\ o \in BytesOf(tag) =>
                Stored(image, tag, v)[o] = v[o - tag.offset]
<1>1. CASE tag.dtype = "BOOL"
  <2>1. Stored(image, tag, v) = [image EXCEPT ![tag.offset] = SetBit(@, tag.bit, v)]
    BY <1>1 DEF Stored
  <2>2. BytesOf(tag) = {tag.offset} /\ tag.offset \in DOMAIN image
    BY <1>1, PlaceOfTag
  <2>3. image = [k \in DOMAIN image |-> image[k]]
    BY DEF IsPlaced
  <2>4. QED
    BY <1>1, <2>1, <2>2, <2>3
<1>2. CASE tag.dtype # "BOOL"
  BY <1>2 DEF Stored
<1>3. QED
  BY <1>1, <1>2

\* A write leaves an image of bytes, and every tag at its place in it.
LEMMA StoredIsImage ==
  ASSUME NEW image, NEW tag, IsPlaced(tag, image), NEW v \in ValuesOf(tag)
  PROVE  /\ DOMAIN Stored(image, tag, v) = DOMAIN image
         /\ Stored(image, tag, v) \in [DOMAIN image -> Byte]
         /\ \A other : IsPlaced(other, image)
                => IsPlaced(other, Stored(image, tag, v))
<1> DEFINE after == Stored(image, tag, v)
<1>1. DOMAIN after = DOMAIN image /\ after = [o \in DOMAIN image |-> after[o]]
  BY DEF Stored, IsPlaced
<1>2. ASSUME NEW o \in DOMAIN image PROVE after[o] \in Byte
  <2>0. image[o] \in Byte
    BY DEF IsPlaced
  <2>1. CASE o \notin BytesOf(tag)
    BY <2>0, <2>1, BytesAfterWrite
  <2>2. CASE o \in BytesOf(tag) /\ tag.dtype = "BOOL"
    <3>1. after[o] = SetBit(image[o], tag.bit, v)
      BY <2>2, BytesAfterWrite
    <3>2. tag.bit \in 0 .. 7 /\ v \in {0, 1}
      BY <2>2 DEF IsPlaced, ValuesOf
    <3>3. QED
      BY <2>0, <3>1, <3>2, BitIsSet
  <2>3. CASE o \in BytesOf(tag) /\ tag.dtype # "BOOL"
    <3>1. after[o] = v[o - tag.offset]
      BY <2>3, BytesAfterWrite
    <3>2. v \in [0 .. plc_type_size[tag.dtype] - 1 -> Byte]
      BY <2>3 DEF ValuesOf
    <3>3. o - tag.offset \in 0 .. plc_type_size[tag.dtype] - 1
      BY <2>3, PlaceOfTag DEF BytesOf, IsPlaced
    <3>4. QED
      BY <3>1, <3>2, <3>3
  <2>4. QED
    BY <2>1, <2>2, <2>3
<1>3. after \in [DOMAIN image -> Byte]
  <2> HIDE DEF after
  <2>1. QED
    BY <1>1, <1>2
<1>4. QED
  <2> HIDE DEF after
  <2>1. \A other : IsPlaced(other, image) => IsPlaced(other, after)
    BY <1>1, <1>3 DEF IsPlaced
  <2>2. QED
    BY <1>1, <1>3, <2>1 DEF after

\* Reading a tag gives what was written to it last (plc_tag_write and the same
\* shift or copy in plc_tag_read).
THEOREM ReadsWhatWasWritten ==
  ASSUME NEW image, NEW tag, IsPlaced(tag, image), NEW v \in ValuesOf(tag)
  PROVE  ValueAt(Stored(image, tag, v), tag) = v
<1> DEFINE after == Stored(image, tag, v)
<1>0. tag.offset \in BytesOf(tag) /\ tag.offset \in DOMAIN image
  BY PlaceOfTag
<1>1. CASE tag.dtype = "BOOL"
  <2>1. after[tag.offset] = SetBit(image[tag.offset], tag.bit, v)
    BY <1>0, <1>1, BytesAfterWrite
  <2>2. tag.bit \in 0 .. 7 /\ v \in {0, 1} /\ image[tag.offset] \in Byte
    BY <1>0, <1>1 DEF IsPlaced, ValuesOf
  <2>3. ValueAt(after, tag) = GetBit(after[tag.offset], tag.bit)
    BY <1>1 DEF ValueAt
  <2>4. QED
    BY <2>1, <2>2, <2>3, BitIsSet
<1>2. CASE tag.dtype # "BOOL"
  <2> DEFINE size == plc_type_size[tag.dtype]
  <2>1. v \in [0 .. size - 1 -> Byte]
    BY <1>2 DEF ValuesOf
  <2>2. ASSUME NEW k \in 0 .. size - 1 PROVE after[tag.offset + k] = v[k]
    <3>1. tag.offset \in Nat /\ size \in 1 .. 32
      BY PlaceOfTag DEF IsPlaced
    <3>2. tag.offset + k \in BytesOf(tag) /\ (tag.offset + k) - tag.offset = k
      BY <3>1 DEF BytesOf
    <3>3. tag.offset + k \in DOMAIN image
      BY <3>2 DEF IsPlaced
    <3>4. QED
      BY <1>2, <3>2, <3>3, BytesAfterWrite
  <2>3. ValueAt(after, tag) = [k \in 0 .. size - 1 |-> after[tag.offset + k]]
    BY <1>2 DEF ValueAt
  <2> HIDE DEF after, size
  <2>4. QED
    BY <2>1, <2>2, <2>3 DEF after
<1>3. QED
  BY <1>1, <1>2

\* A write to one tag is not seen in any tag that shares no bit with it, also
\* when both are BOOLs of the same byte (the masks of plc_tag_write).
THEOREM OtherTagsAreKept ==
  ASSUME NEW image, NEW tag, NEW other, Apart(tag, other),
         IsPlaced(tag, image), IsPlaced(other, image), NEW v \in ValuesOf(tag)
  PROVE  ValueAt(Stored(image, tag, v), other) = ValueAt(image, other)
<1> DEFINE after == Stored(image, tag, v)
<1>1. CASE BytesOf(tag) \cap BytesOf(other) = {}
  <2>1. ASSUME NEW o \in BytesOf(other) PROVE after[o] = image[o]
    BY <1>1, BytesAfterWrite DEF IsPlaced
  <2>2. other.offset \in BytesOf(other)
    BY PlaceOfTag
  <2>3. \A k \in 0 .. plc_type_size[other.dtype] - 1 :
           other.offset + k \in BytesOf(other)
    BY PlaceOfTag DEF BytesOf, IsPlaced
  <2> HIDE DEF after
  <2>4. ValueAt(after, other) = ValueAt(image, other)
    BY <2>1, <2>2, <2>3 DEF ValueAt
  <2>5. QED
    BY <2>4 DEF after
<1>2. CASE /\ tag.dtype = "BOOL" /\ other.dtype = "BOOL"
           /\ tag.offset = other.offset /\ tag.bit # other.bit
  <2>1. tag.offset \in BytesOf(tag) /\ tag.offset \in DOMAIN image
    BY PlaceOfTag
  <2>2. after[tag.offset] = SetBit(image[tag.offset], tag.bit, v)
    BY <1>2, <2>1, BytesAfterWrite
  <2>3. /\ tag.bit \in 0 .. 7 /\ other.bit \in 0 .. 7 /\ v \in {0, 1}
        /\ image[tag.offset] \in Byte
    BY <1>2, <2>1 DEF IsPlaced, ValuesOf
  <2>4. GetBit(after[tag.offset], other.bit) = GetBit(image[tag.offset], other.bit)
    BY <1>2, <2>2, <2>3, OtherBitIsKept
  <2>5. QED
    BY <1>2, <2>4 DEF ValueAt
<1>3. QED
  BY <1>1, <1>2, ApartTags

\* Of two writes to a tag only the second leaves a trace.
THEOREM LastWriteStays ==
  ASSUME NEW image, NEW tag, IsPlaced(tag, image),
         NEW v \in ValuesOf(tag), NEW w \in ValuesOf(tag)
  PROVE  Stored(Stored(image, tag, v), tag, w) = Stored(image, tag, w)
<1> DEFINE once == Stored(image, tag, v)
           twice == Stored(once, tag, w)
           last == Stored(image, tag, w)
<1>1. IsPlaced(tag, once) /\ DOMAIN once = DOMAIN image
  BY StoredIsImage
<1>2. twice \in [DOMAIN image -> Byte] /\ last \in [DOMAIN image -> Byte]
  BY <1>1, StoredIsImage
<1>3. ASSUME NEW o \in DOMAIN image PROVE twice[o] = last[o]
  <2>1. CASE o \notin BytesOf(tag)
    BY <1>1, <2>1, BytesAfterWrite
  <2>2. CASE o \in BytesOf(tag) /\ tag.dtype # "BOOL"
    BY <1>1, <2>2, BytesAfterWrite
  <2>3. CASE o \in BytesOf(tag) /\ tag.dtype = "BOOL"
    <3>1. /\ once[o] = SetBit(image[o], tag.bit, v)
          /\ last[o] = SetBit(image[o], tag.bit, w)
      BY <2>3, BytesAfterWrite
    <3>2. twice[o] = SetBit(once[o], tag.bit, w)
      BY <1>1, <2>3, BytesAfterWrite
    <3>3. tag.bit \in 0 .. 7 /\ v \in {0, 1} /\ w \in {0, 1} /\ image[o] \in Byte
      BY <2>3 DEF IsPlaced, ValuesOf
    <3>4. QED
      BY <3>1, <3>2, <3>3, LastBitStays
  <2>4. QED
    BY <2>1, <2>2, <2>3
<1> HIDE DEF twice, last
<1>4. twice = last
  BY <1>2, <1>3
<1>5. QED
  BY <1>4 DEF twice, last

\* Writes to tags that share no bit may come in either order.
THEOREM WritesCommute ==
  ASSUME NEW image, NEW tag, NEW other, Apart(tag, other),
         IsPlaced(tag, image), IsPlaced(other, image),
         NEW v \in ValuesOf(tag), NEW w \in ValuesOf(other)
  PROVE  Stored(Stored(image, tag, v), other, w)
             = Stored(Stored(image, other, w), tag, v)
<1> DEFINE a == Stored(image, tag, v)
           b == Stored(image, other, w)
           ab == Stored(a, other, w)
           ba == Stored(b, tag, v)
<1>1. /\ IsPlaced(other, a) /\ DOMAIN a = DOMAIN image
      /\ IsPlaced(tag, b) /\ DOMAIN b = DOMAIN image
  BY StoredIsImage
<1>2. ab \in [DOMAIN image -> Byte] /\ ba \in [DOMAIN image -> Byte]
  BY <1>1, StoredIsImage
<1>3. ASSUME NEW o \in DOMAIN image PROVE ab[o] = ba[o]
  <2>1. CASE o \notin BytesOf(tag)
    <3>1. a[o] = image[o] /\ ba[o] = b[o]
      BY <1>1, <2>1, BytesAfterWrite
    <3>2. QED
      BY <1>1, <3>1, BytesAfterWrite
  <2>2. CASE o \notin BytesOf(other)
    <3>1. b[o] = image[o] /\ ab[o] = a[o]
      BY <1>1, <2>2, BytesAfterWrite
    <3>2. QED
      BY <1>1, <3>1, BytesAfterWrite
  <2>3. CASE o \in BytesOf(tag) /\ o \in BytesOf(other)
    <3>1. /\ tag.dtype = "BOOL" /\ other.dtype = "BOOL" /\ tag.bit # other.bit
      BY <2>3, ApartTags
    <3>2. /\ a[o] = SetBit(image[o], tag.bit, v)
          /\ b[o] = SetBit(image[o], other.bit, w)
      BY <2>3, <3>1, BytesAfterWrite
    <3>3. ab[o] = SetBit(a[o], other.bit, w) /\ ba[o] = SetBit(b[o], tag.bit, v)
      BY <1>1, <2>3, <3>1, BytesAfterWrite
    <3>4. /\ tag.bit \in 0 .. 7 /\ other.bit \in 0 .. 7
          /\ v \in {0, 1} /\ w \in {0, 1} /\ image[o] \in Byte
      BY <3>1 DEF IsPlaced, ValuesOf
    <3>5. QED
      BY <3>1, <3>2, <3>3, <3>4, BitsCommute
  <2>4. QED
    BY <2>1, <2>2, <2>3
<1> HIDE DEF ab, ba
<1>4. ab = ba
  BY <1>2, <1>3
<1>5. QED
  BY <1>4 DEF ab, ba

\* plc_tag_write is seen in the tag written and, in whichever device, in no tag
\* that shares no bit with it.
THEOREM WriteIsSeenThereAlone ==
  ASSUME NEW outputs, outputs = [d \in DOMAIN outputs |-> outputs[d]],
         NEW tag, Writable(tag, outputs), IsPlaced(tag, outputs[tag.device]),
         NEW v \in ValuesOf(tag)
  PROVE  LET after == plc_tag_write(tag, v, outputs)
         IN  /\ DOMAIN after = DOMAIN outputs
             /\ ValueAt(after[tag.device], tag) = v
             /\ \A other :
                   /\ other.device \in DOMAIN outputs
                   /\ IsPlaced(other, outputs[other.device])
                   /\ other.device # tag.device \/ Apart(tag, other)
                   => ValueAt(after[other.device], other)
                          = ValueAt(outputs[other.device], other)
<1> DEFINE after == plc_tag_write(tag, v, outputs)
<1>1. after = [outputs EXCEPT ![tag.device] = Stored(@, tag, v)]
      /\ tag.device \in DOMAIN outputs
  BY DEF plc_tag_write, Writable
<1>2. /\ DOMAIN after = DOMAIN outputs
      /\ after[tag.device] = Stored(outputs[tag.device], tag, v)
      /\ \A d \in DOMAIN outputs : d # tag.device => after[d] = outputs[d]
  BY <1>1
<1> HIDE DEF after
<1>3. ValueAt(after[tag.device], tag) = v
  BY <1>2, ReadsWhatWasWritten
<1>4. ASSUME NEW other, other.device \in DOMAIN outputs,
             IsPlaced(other, outputs[other.device]),
             other.device # tag.device \/ Apart(tag, other)
      PROVE  ValueAt(after[other.device], other)
                 = ValueAt(outputs[other.device], other)
  <2>1. CASE other.device # tag.device
    BY <1>2, <1>4, <2>1
  <2>2. CASE other.device = tag.device /\ Apart(tag, other)
    BY <1>2, <1>4, <2>2, OtherTagsAreKept
  <2>3. QED
    BY <1>4, <2>1, <2>2
<1>5. QED
  BY <1>2, <1>3, <1>4 DEF after

-----------------------------------------------------------------------------
\* Some element of a set of naturals is the least.
LEMMA LeastOfNaturals ==
  ASSUME NEW T, T \subseteq Nat, T # {}
  PROVE  \E x \in T : \A y \in T : x <= y
<1>1. PICK x \in T : \A y \in T : ~ (<<y, x>> \in OpToRel(<, Nat))
  BY NatLessThanWellFounded, WFMin, Zenon
<1>2. ASSUME NEW y \in T PROVE x <= y
  <2>1. ~ (<<y, x>> \in OpToRel(<, Nat)) /\ <<y, x>> \in Nat \X Nat
    BY <1>1, Zenon
  <2>2. ~ (y < x)
    BY <2>1, Zenon DEF OpToRel
  <2>3. QED
    BY <2>2
<1>3. QED
  BY <1>2

\* A tag is found by its name whenever the table has one, of several the first,
\* and NULL stands for none (get_tag_by_name).
THEOREM NameFindsFirst ==
  ASSUME NEW plc_vars, Len(plc_vars) \in Nat, NEW name
  PROVE  LET Named(k) == plc_vars[k].name = name
             tag == get_tag_by_name(plc_vars, name)
         IN  IF \E k \in 1 .. Len(plc_vars) : Named(k)
             THEN \E k \in 1 .. Len(plc_vars) :
                     /\ tag = plc_vars[k] /\ Named(k)
                     /\ \A l \in 1 .. k - 1 : ~Named(l)
             ELSE tag = NULL
<1> DEFINE found == {k \in 1 .. Len(plc_vars) : plc_vars[k].name = name}
           IsFirst(k) == \A l \in found : k <= l
           k0 == CHOOSE k \in found : IsFirst(k)
<1>1. get_tag_by_name(plc_vars, name) = IF found = {} THEN NULL ELSE plc_vars[k0]
  BY DEF get_tag_by_name
<1>2. CASE found = {}
  BY <1>1, <1>2
<1>3. CASE found # {}
  <2>1. \E k \in found : IsFirst(k)
    <3> HIDE DEF found
    <3>1. found \subseteq Nat
      BY DEF found
    <3>2. QED
      BY <1>3, <3>1, LeastOfNaturals
  <2>2. k0 \in found /\ IsFirst(k0)
    <3> HIDE DEF found, IsFirst
    <3>1. QED
      BY <2>1
  <2>3. \A l \in 1 .. k0 - 1 : plc_vars[l].name # name
    <3> HIDE DEF k0
    <3>1. QED
      BY <2>2
  <2>4. get_tag_by_name(plc_vars, name) = plc_vars[k0]
    BY <1>1, <1>3
  <2> HIDE DEF k0
  <2>5. QED
    BY <2>2, <2>3, <2>4
<1>4. QED
  BY <1>2, <1>3
=============================================================================
