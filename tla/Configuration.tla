---------------------------- MODULE Configuration ---------------------------
(***************************************************************************)
(* The configuration the program is built with: one EtherCAT master, one   *)
(* L230, one PLC task and eight tags; the layout of the L230's process     *)
(* data; and how names, addresses and positions of the configuration are   *)
(* resolved.                                                               *)
(*                                                                         *)
(* The name of a backend is what precedes its number and the number, -1    *)
(* when there is none.                                                     *)
(***************************************************************************)
EXTENDS Tags

LOCAL INSTANCE SequencesExt

MAX_BACKENDS == 8
MAX_DEVICES == 64
ECAT_MAX_SLAVES == 32
PLC_MAX_TASKS == 32

tick_period_ms == 1

-----------------------------------------------------------------------------
\* Process data of the L230: the members of its packed structures in order.
Member(name, size) == [name |-> name, size |-> size]

L230_RX_PDO ==
    <<Member("L230_DO_Byte0", 1), Member("L230_DO_Byte1", 1),
      Member("X21_CPU_Pt1_Ctrl", 4), Member("X21_CPU_Pt2_Ctrl", 4),
      Member("X23_CPU_VC1_Ctrl", 4)>>

L230_TX_PDO ==
    <<Member("L230_DI_Byte0", 1), Member("L230_DI_Byte1", 1),
      Member("X21_CPU_Pt1.Pt_Value", 4), Member("X21_CPU_Pt1.Pt_State", 4),
      Member("X22_CPU_Pt2.Pt_Value", 4), Member("X22_CPU_Pt2.Pt_State", 4),
      Member("X23_CPU_VC1.VC_Value", 4), Member("X23_CPU_VC1.VC_State", 4),
      Member("slaveinfo", 18), Member("L230Info", 16)>>

SizeOf(pdo) == FoldSeq(LAMBDA member, size : size + member.size, 0, pdo)

OffsetOf(pdo, name) ==
    LET k == CHOOSE k \in DOMAIN pdo : pdo[k].name = name
    IN  SizeOf(SubSeq(pdo, 1, k - 1))

L230_IN(field) == OffsetOf(L230_TX_PDO, field)

L230_OUT(field) == OffsetOf(L230_RX_PDO, field)

X15_BIT == 0
X12_BIT == 1
X13_BIT == 2
X1_BIT == 6

L230_ECAT_DESC ==
    [vendor_id |-> \h3213335, product_code |-> \h47535953,
     rx_pdo_size |-> SizeOf(L230_RX_PDO), tx_pdo_size |-> SizeOf(L230_TX_PDO)]

-----------------------------------------------------------------------------
\* The tables.
ec0 == [prefix |-> "ec", number |-> 0]

system_backends == <<[name |-> ec0, cycle_us |-> 10000, io_map_size |-> 4096]>>

system_devices ==
    <<[plc_address |-> 0, hw_desc |-> L230_ECAT_DESC, backend_name |-> ec0,
       expected_position |-> 1]>>

PLC_Task_conf ==
    <<[period_ms |-> 100, offset_ms |-> 0, policy |-> "SKIP_ON_FAULT"]>>

IoTag(name, dtype, vtype, offset, bit) ==
    [name |-> name, dtype |-> dtype, vtype |-> vtype, device |-> 0,
     offset |-> offset, bit |-> bit]

PLC_Tags_desc_arr ==
    <<IoTag("AV_CPU_Pt_X21", "REAL", "IN", L230_IN("X21_CPU_Pt1.Pt_Value"), 0),
      IoTag("AV_CPU_Pt_X22", "REAL", "IN", L230_IN("X22_CPU_Pt2.Pt_Value"), 0),
      IoTag("X15_1", "BOOL", "OUT", L230_OUT("L230_DO_Byte0"), X15_BIT),
      IoTag("X12_1", "BOOL", "OUT", L230_OUT("L230_DO_Byte0"), X12_BIT),
      IoTag("X13_1", "BOOL", "OUT", L230_OUT("L230_DO_Byte0"), X13_BIT),
      IoTag("X1_1", "BOOL", "OUT", L230_OUT("L230_DO_Byte0"), X1_BIT),
      [name |-> "AV_CPC_HP", dtype |-> "REAL", vtype |-> "HMI"],
      [name |-> "SP_Temperature", dtype |-> "REAL", vtype |-> "HMI"]>>

IoTags == {t \in ToSet(PLC_Tags_desc_arr) : t.vtype \in {"IN", "OUT"}}

-----------------------------------------------------------------------------
\* runtime_get_backend_index and EtherCAT_Driver_Create: of the configured
\* name only the number is kept.
system_name(backend) == [prefix |-> "ec", number |-> backend.name.number]

\* runtime_find_backend: the first match, 0 if there is none.
runtime_find_backend(backends, name) ==
    SelectInSeq(backends, LAMBDA backend : system_name(backend) = name)

\* runtime_create_plc_tag: the first device at that address, 0 if none.
DeviceAt(devices, plc_address) ==
    SelectInSeq(devices, LAMBDA dev : dev.plc_address = plc_address)

\* ethercat_bind_device.  slavelist is what SOEM found on the bus, from slave 1
\* on; entry 0 is the master's own and blank.
ethercat_bind_device(dev, slavelist) ==
    LET pos == dev.expected_position
    IN  /\ pos \in 1 .. Len(slavelist)
        /\ slavelist[pos].eep_man = dev.hw_desc.product_code
        /\ slavelist[pos].eep_id = dev.hw_desc.vendor_id

\* ethercat_finalize_mapping, for the slaves bound to a backend: SOEM maps all
\* that is on the bus, and each slave as it was described.
ethercat_finalize_mapping(backend, bound, slavelist) ==
    LET size == FoldSeq(LAMBDA sl, sum : sum + sl.Ibytes + sl.Obytes, 0, slavelist)
    IN  /\ size \in 1 .. backend.io_map_size
        /\ \A dev \in bound :
              LET sl == slavelist[dev.expected_position]
              IN  /\ sl.Ibytes = dev.hw_desc.tx_pdo_size
                  /\ sl.Obytes = dev.hw_desc.rx_pdo_size
=============================================================================
