-------------------------------- MODULE Tags --------------------------------
(***************************************************************************)
(* How tags lie in the process image of a device and what reading and      *)
(* writing one does to it.  An image is a function from offsets to bytes.  *)
(* The values of a PLC_BOOL are 0 and 1, those of any other type functions *)
(* from 0 .. size - 1 to bytes.                                            *)
(***************************************************************************)
EXTENDS Integers, Sequences

Byte == 0 .. 255

plc_type_size ==
    [BOOL |-> 1, INT |-> 2, DINT |-> 4, WORD |-> 2, DWORD |-> 4, REAL |-> 4,
     STRING |-> 32, ARRAY |-> 32]

NULL == "NULL"

\* The bytes of an I/O tag, and its bits: <<offset, bit of the byte>>.
BytesOf(tag) == tag.offset .. tag.offset + plc_type_size[tag.dtype] - 1

BitsOf(tag) ==
    IF tag.dtype = "BOOL" THEN {<<tag.offset, tag.bit>>}
                          ELSE BytesOf(tag) \X (0 .. 7)

-----------------------------------------------------------------------------
\* (byte >> bit) & 1.
GetBit(byte, bit) == (byte \div 2 ^ bit) % 2

\* |= mask or &= ~mask, where mask is 1 << bit in a uint8_t.
SetBit(byte, bit, v) == byte + (v - GetBit(byte, bit)) * ((2 ^ bit) % 256)

\* What is in the image at the place of a tag.
ValueAt(image, tag) ==
    IF tag.dtype = "BOOL"
    THEN GetBit(image[tag.offset], tag.bit)
    ELSE [k \in 0 .. plc_type_size[tag.dtype] - 1 |-> image[tag.offset + k]]

Stored(image, tag, v) ==
    IF tag.dtype = "BOOL"
    THEN [image EXCEPT ![tag.offset] = SetBit(@, tag.bit, v)]
    ELSE [o \in DOMAIN image |->
             IF o \in BytesOf(tag) THEN v[o - tag.offset] ELSE image[o]]

-----------------------------------------------------------------------------
Done(value) == [rc |-> 0, value |-> value]

Refused == [rc |-> -1, value |-> NULL]

\* The results plc_tag_read may have.  inputs are the input images by device;
\* a device without a driver or a buffer has none.  Output tags are read from
\* there as well.  For any other tag the function ends without a return: it may
\* seem to succeed or to fail, and the variable of the caller is not written.
plc_tag_read(tag, inputs) ==
    CASE tag.vtype \in {"HMI", "PV"} -> {Refused, Done(NULL)}
      [] tag.device \notin DOMAIN inputs -> {Refused}
      [] OTHER -> {Done(ValueAt(inputs[tag.device], tag))}

\* Only output tags of a device with a driver can be written.
Writable(tag, outputs) == tag.vtype = "OUT" /\ tag.device \in DOMAIN outputs

\* The output images after plc_tag_write, which returns 0 if the tag is
\* Writable and -1 otherwise.
plc_tag_write(tag, v, outputs) ==
    IF Writable(tag, outputs)
    THEN [outputs EXCEPT ![tag.device] = Stored(@, tag, v)]
    ELSE outputs

-----------------------------------------------------------------------------
\* Entries of plc_vars are counted from 0; the test is the wrong way round.
get_tag_by_index(plc_vars, index) ==
    IF Len(plc_vars) > 0 THEN NULL ELSE plc_vars[index + 1]

\* The first of the tags with that name.
get_tag_by_name(plc_vars, name) ==
    LET found == {k \in 1 .. Len(plc_vars) : plc_vars[k].name = name}
    IN  IF found = {} THEN NULL
        ELSE plc_vars[CHOOSE k \in found : \A l \in found : k <= l]
=============================================================================
