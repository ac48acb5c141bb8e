-------------------------- MODULE MCPlcApplication --------------------------
(* The tasks of MCScheduler, the first of which blinks; and facts about the *)
(* shipped configuration and the tag operators, which TLC evaluates.        *)
EXTENDS MCScheduler, PlcApplication

LOCAL INSTANCE FiniteSets
LOCAL INSTANCE SequencesExt

\* The tables keep the limits of the arrays that take them over, among them
\* those Lifecycle assumes, and the loop over device_count reaches every
\* backend.  No task has a period below the tick.
ASSUME LimitsAreKept ==
    /\ Len(system_backends) <= MAX_BACKENDS
    /\ Len(system_devices) \in Len(system_backends) .. MAX_BACKENDS
    /\ Len(system_devices) <= ECAT_MAX_SLAVES
    /\ Len(PLC_Task_conf) <= PLC_MAX_TASKS
    /\ \A c \in ToSet(PLC_Task_conf) : c.period_ms >= tick_period_ms

\* Every name and address is defined, and no address twice.
ASSUME ReferencesResolve ==
    /\ \A dev \in ToSet(system_devices) :
          /\ runtime_find_backend(system_backends, dev.backend_name) # 0
          /\ DeviceAt(system_devices, dev.plc_address) # 0
    /\ \A d, e \in 1 .. Len(system_devices) :
          d # e => system_devices[d].plc_address # system_devices[e].plc_address
    /\ \A tag \in IoTags : DeviceAt(system_devices, tag.device) # 0

\* A backend of another name is registered as "ec<number>" and not found under
\* its own.
ASSUME OtherNamesAreLost ==
    LET modbus1 == [prefix |-> "modbus", number |-> 1]
    IN  runtime_find_backend(<<[name |-> modbus1]>>, modbus1) = 0

\* A bus whose first slave is an L230 is accepted and mapped; one without it,
\* with another device first, or with so much behind it that the image is too
\* small, is not.
ASSUME BusIsChecked ==
    LET l230 == [eep_man |-> \h47535953, eep_id |-> \h3213335,
                 Ibytes |-> 60, Obytes |-> 14]
        other == [eep_man |-> 2, eep_id |-> 3, Ibytes |-> 2, Obytes |-> 2010]
        dev == system_devices[1]
        Mapped(bus) ==
            ethercat_bind_device(dev, bus)
                /\ ethercat_finalize_mapping(system_backends[1], {dev}, bus)
    IN  /\ Mapped(<<l230>>) /\ Mapped(<<l230, other>>)
        /\ ~ Mapped(<<>>) /\ ~ Mapped(<<other, l230>>)
        /\ ~ Mapped(<<l230, other, other>>)

\* Every tag lies in the image of its direction; output tags share no bit.  An
\* output tag is read at the same offset of the input image, and that is inside
\* it too.
ASSUME TagsFit ==
    /\ \A tag \in IoTags :
          BytesOf(tag) \subseteq
              0 .. SizeOf(IF tag.vtype = "IN" THEN L230_TX_PDO ELSE L230_RX_PDO) - 1
    /\ \A tag \in IoTags : tag.dtype = "BOOL" => tag.bit \in 0 .. 7
    /\ \A tag, other \in {t \in IoTags : t.vtype = "OUT"} :
          tag # other => BitsOf(tag) \cap BitsOf(other) = {}
    /\ \A tag \in IoTags : BytesOf(tag) \subseteq 0 .. SizeOf(L230_TX_PDO) - 1

\* The index that plc_task1_run has built in is that of a writable BOOL.
ASSUME BlinkerOwnsX15 ==
    x15.name = "X15_1" /\ x15.dtype = "BOOL" /\ Writable(x15, BlankOutputs)

\* The shifts and masks against sets of bits: writing a bit changes that bit
\* alone, and one past the byte nothing.
ASSUME BitsAreSets ==
    LET Ones(byte) == {b \in 0 .. 7 : GetBit(byte, b) = 1}
    IN  \A byte \in Byte, bit \in 0 .. 9 :
            /\ SetBit(byte, bit, 0) \in Byte /\ SetBit(byte, bit, 1) \in Byte
            /\ Ones(SetBit(byte, bit, 0)) = Ones(byte) \ {bit}
            /\ Ones(SetBit(byte, bit, 1)) = Ones(byte) \cup ({bit} \cap 0 .. 7)
            /\ GetBit(byte, bit) = (IF bit \in Ones(byte) THEN 1 ELSE 0)

\* Writes to different output tags do not disturb each other, in any order.
ASSUME WritesCommute ==
    LET out == {t \in IoTags : t.vtype = "OUT"}
        Values(tag) ==
            IF tag.dtype = "BOOL" THEN {0, 1}
            ELSE {[k \in 0 .. plc_type_size[tag.dtype] - 1 |-> byte] : byte \in {0, 255}}
    IN  \A tag, other \in out : tag # other =>
            \A v \in Values(tag), w \in Values(other) :
                LET after == plc_tag_write(other, w, plc_tag_write(tag, v, BlankOutputs))
                IN  /\ ValueAt(after[0], tag) = v
                    /\ ValueAt(after[0], other) = w
                    /\ after = plc_tag_write(tag, v, plc_tag_write(other, w, BlankOutputs))

\* What a task writes to an output tag it does not read back: the read shows
\* the input image, whatever was written.
ASSUME OutputsReadAsInputs ==
    LET inputs == [d \in {0} |-> [o \in 0 .. SizeOf(L230_TX_PDO) - 1 |-> 1]]
    IN  plc_tag_read(x15, inputs) = {Done(1)}
            /\ ValueAt(plc_tag_write(x15, 0, BlankOutputs)[0], x15) = 0

\* In the shipped table names find their tag and indices never do.
ASSUME NamesFindTags ==
    \A k \in 1 .. Len(PLC_Tags_desc_arr) :
        /\ get_tag_by_name(PLC_Tags_desc_arr, PLC_Tags_desc_arr[k].name)
               = PLC_Tags_desc_arr[k]
        /\ get_tag_by_index(PLC_Tags_desc_arr, k - 1) = NULL
=============================================================================
