---------------------------- MODULE UrbTransfer ----------------------------
(***************************************************************************)
(* What becomes of a captured URB and of a device list on their way from   *)
(* the sender to a virtual device: UrbProcessor (capture/urb_capture.cpp)  *)
(* and UsbipProtocol turn them into the bytes of a payload, UsbipClient    *)
(* reads the bytes back, UsbReceiver hands a URB to its first virtual      *)
(* device, and VirtualUsbDevice answers it.                                *)
(*                                                                         *)
(* A payload is the sequence of its bytes, with the sizes of the program;  *)
(* each of the two names of a device is one element.  Hosts are            *)
(* little-endian: an integer that htonl was applied to lies in memory with *)
(* its highest byte first, one that it was not applied to (the setup       *)
(* packet) with its lowest.  The wire delivers whole messages in order,    *)
(* which is the subject of MessageStream; Send on the sender's listening   *)
(* socket gives up today (CanSend in UsbSender), and this module shows     *)
(* what the conversions do with messages that get through.  Everything     *)
(* from the dispatch of a message to the response runs on the receive      *)
(* thread in one call, so it is one step.                                  *)
(***************************************************************************)
EXTENDS Integers, Sequences, SequencesExt

CONSTANTS
    Urbs,           \* URBs that can be captured
    DeviceLists,    \* lists of UsbipDeviceInfo the sender can build
    MaxMessages     \* bound: messages sent

ASSUME MessagesAssumption == MaxMessages \in Nat

OUT == 0
IN_ == 1
MASS_STORAGE == 8

Byte == 0..255
UInt16 == {v \in Nat : v \div 256 < 256}
UInt32 == {v \in Nat : v \div 16777216 < 256}
Length == {v \in Nat : v \div 16777216 < 128}    \* an int32_t that is not negative

\* The setup field of a URB that is no control transfer is never read.
NoSetup == [bmRequestType |-> 0, bRequest |-> 0, wValue |-> 0, wIndex |-> 0,
            wLength |-> 0]

\* The fields of a UsbUrb, and those of a UsbipDeviceInfo.
UsbUrb ==
    [type : {"CONTROL", "BULK"}, direction : {OUT, IN_}, endpoint : Byte,
     flags : UInt32, data : Seq(Byte),
     setup : [bmRequestType : Byte, bRequest : Byte, wValue : UInt16,
              wIndex : UInt16, wLength : UInt16],
     status : UInt32, actual_length : UInt32]

UsbipDeviceInfo ==
    [path : STRING, busid : STRING,
     busnum : UInt32, devnum : UInt32, speed : UInt32,
     idVendor : UInt16, idProduct : UInt16, bcdDevice : UInt16,
     bDeviceClass : Byte, bDeviceSubClass : Byte, bDeviceProtocol : Byte,
     bConfigurationValue : Byte, bNumConfigurations : Byte, bNumInterfaces : Byte]

\* What CreateControlUrb and CreateBulkUrb make: control transfers are those of
\* endpoint 0, and the length of the data is an int32_t on the wire.
ASSUME UrbsAssumption ==
    \A urb \in Urbs :
        /\ urb \in UsbUrb
        /\ Len(urb.data) \in Length
        /\ urb.type = "CONTROL" <=> urb.endpoint = 0
        /\ urb.type = "BULK" => urb.setup = NoSetup

\* The number of devices is a uint32_t on the wire.
ASSUME DeviceListsAssumption ==
    \A list \in DeviceLists : list \in Seq(UsbipDeviceInfo) /\ Len(list) \in UInt32

VARIABLES
    wire,               \* messages between the two programs
    sent,               \* history: URBs captured
    received,           \* history: URBs given to urb_callback_
    lists,              \* history: device lists sent
    devices,            \* history: device lists given to device_list_callback_
    virtual_devices_,   \* UsbReceiver: the imported devices
    unattended,         \* history: URBs received before the first import
    responses           \* URBs given to urb_response_callback_

vars == <<wire, sent, received, lists, devices, virtual_devices_, unattended,
          responses>>

\* The elements of s at the indices in I, in their order.
Pick(s, I) ==
    LET F[i \in 0 .. Len(s)] ==
            IF i = 0 THEN <<>>
            ELSE IF i \in I THEN Append(F[i - 1], s[i]) ELSE F[i - 1]
    IN F[Len(s)]

Init ==
    /\ wire = <<>>
    /\ sent = <<>> /\ received = <<>>
    /\ lists = <<>> /\ devices = <<>>
    /\ virtual_devices_ = <<>> /\ unattended = 0
    /\ responses = <<>>

-----------------------------------------------------------------------------
(* Integers in memory *)

\* The bytes of htonl(v) and htons(v), and of a uint16_t that is not converted.
htonl(v) == <<(v \div 16777216) % 256, (v \div 65536) % 256, (v \div 256) % 256, v % 256>>

htons(v) == <<(v \div 256) % 256, v % 256>>

HostShort(v) == <<v % 256, (v \div 256) % 256>>

\* The integer at offset in data after ntohl, after ntohs and without conversion.
ntohl(data, offset) ==
    16777216 * data[offset + 1] + 65536 * data[offset + 2]
        + 256 * data[offset + 3] + data[offset + 4]

ntohs(data, offset) == 256 * data[offset + 1] + data[offset + 2]

HostShortAt(data, offset) == data[offset + 1] + 256 * data[offset + 2]

\* Structures of width bytes each, one after the other.
Array(structs, width) ==
    [k \in 1 .. width * Len(structs) |->
        structs[1 + (k - 1) \div width][1 + ((k - 1) % width)]]

\* A structure of 32-bit fields in network byte order.
Words(fields) == Array([i \in DOMAIN fields |-> htonl(fields[i])], 4)

-----------------------------------------------------------------------------
(* The URBs of MassStorageDevice *)

CreateControlUrb(request_type, request, value, index, data) ==
    [type |-> "CONTROL", direction |-> IF request_type >= 128 THEN IN_ ELSE OUT,
     endpoint |-> 0, flags |-> 0, data |-> data,
     setup |-> [bmRequestType |-> request_type, bRequest |-> request,
                wValue |-> value, wIndex |-> index, wLength |-> Len(data) % 65536],
     status |-> 0, actual_length |-> 0]

CreateBulkUrb(endpoint, data, direction) ==
    [type |-> "BULK", direction |-> direction, endpoint |-> endpoint, flags |-> 0,
     data |-> data, setup |-> NoSetup, status |-> 0, actual_length |-> Len(data)]

-----------------------------------------------------------------------------
(* The sender: UrbProcessor and UsbipProtocol *)

SetupBytes(s) ==
    <<s.bmRequestType, s.bRequest>> \o HostShort(s.wValue)
        \o HostShort(s.wIndex) \o HostShort(s.wLength)

\* Mutant: the setup packet is left out, as for the other transfers.
CmdSubmitWithoutSetup(urb) ==
    [words |-> <<1, 1, 0, urb.direction, urb.endpoint, urb.flags, Len(urb.data), 0, 0, 0>>,
     setup |-> NoSetup]

\* A UsbipCmdSubmit: its ten 32-bit fields, from command to interval, and setup.
\* OnUrbCaptured makes a new UrbProcessor for every URB, so seqnum is always 1.
CreateCmdSubmit(urb) ==
    [words |-> <<1, 1, 0, urb.direction, urb.endpoint, urb.flags, Len(urb.data), 0, 0, 0>>,
     setup |-> IF urb.type = "CONTROL" THEN urb.setup ELSE NoSetup]

\* A UsbipRetSubmit: ten 32-bit fields, from command to error_count.
CreateRetSubmit(urb) ==
    <<3, 1, 0, urb.direction, urb.endpoint, urb.status, urb.actual_length, 0, 0, 0>>

SerializeCmdSubmit(cmd, data) == Words(cmd.words) \o SetupBytes(cmd.setup) \o data

SerializeRetSubmit(ret, data) == Words(ret) \o data

ProcessUrb(urb) ==
    IF urb.direction = OUT
    THEN SerializeCmdSubmit(CreateCmdSubmit(urb), urb.data)
    ELSE SerializeRetSubmit(CreateRetSubmit(urb), urb.data)

CreateUsbipSubmit(urb) == [type |-> "URB_SUBMIT", payload |-> ProcessUrb(urb)]

OnUrbCaptured(urb) ==
    /\ Len(sent) + Len(lists) < MaxMessages
    /\ sent' = Append(sent, urb)
    /\ wire' = Append(wire, CreateUsbipSubmit(urb))
    /\ UNCHANGED <<received, lists, devices, virtual_devices_, unattended, responses>>

DeviceInfoBytes(d) ==
    <<d.path, d.busid>> \o Words(<<d.busnum, d.devnum, d.speed>>)
        \o htons(d.idVendor) \o htons(d.idProduct) \o htons(d.bcdDevice)
        \o <<d.bDeviceClass, d.bDeviceSubClass, d.bDeviceProtocol,
             d.bConfigurationValue, d.bNumConfigurations, d.bNumInterfaces>>

DeviceInfoSize == 26

SerializeDeviceList(list) ==
    Words(<<5, 0, Len(list)>>)
        \o Array([i \in DOMAIN list |-> DeviceInfoBytes(list[i])], DeviceInfoSize)

HandleDeviceListRequest(list) ==
    /\ Len(sent) + Len(lists) < MaxMessages
    /\ lists' = Append(lists, list)
    /\ wire' = Append(wire, [type |-> "DEVICE_LIST_RESPONSE",
                             payload |-> SerializeDeviceList(list)])
    /\ UNCHANGED <<sent, received, devices, virtual_devices_, unattended, responses>>

-----------------------------------------------------------------------------
(* The receiver: UsbipClient *)

\* Mutant: the release of the device is read in host byte order.
DeviceInfoUnswapped(data, offset) ==
    [path |-> data[offset + 1], busid |-> data[offset + 2],
     busnum |-> ntohl(data, offset + 2),
     devnum |-> ntohl(data, offset + 6),
     speed |-> ntohl(data, offset + 10),
     idVendor |-> ntohs(data, offset + 14),
     idProduct |-> ntohs(data, offset + 16),
     bcdDevice |-> HostShortAt(data, offset + 18),
     bDeviceClass |-> data[offset + 21], bDeviceSubClass |-> data[offset + 22],
     bDeviceProtocol |-> data[offset + 23],
     bConfigurationValue |-> data[offset + 24],
     bNumConfigurations |-> data[offset + 25], bNumInterfaces |-> data[offset + 26]]

DeviceInfo(data, offset) ==
    [path |-> data[offset + 1], busid |-> data[offset + 2],
     busnum |-> ntohl(data, offset + 2),
     devnum |-> ntohl(data, offset + 6),
     speed |-> ntohl(data, offset + 10),
     idVendor |-> ntohs(data, offset + 14),
     idProduct |-> ntohs(data, offset + 16),
     bcdDevice |-> ntohs(data, offset + 18),
     bDeviceClass |-> data[offset + 21], bDeviceSubClass |-> data[offset + 22],
     bDeviceProtocol |-> data[offset + 23],
     bConfigurationValue |-> data[offset + 24],
     bNumConfigurations |-> data[offset + 25], bNumInterfaces |-> data[offset + 26]]

\* The devices of a list: as many as it announces and as fit in the payload.
ParseDeviceList(data) ==
    IF Len(data) < 12 THEN <<>>
    ELSE LET fit == (Len(data) - 12) \div DeviceInfoSize
             announced == ntohl(data, 8)
         IN [i \in 1 .. (IF announced < fit THEN announced ELSE fit) |->
                DeviceInfo(data, 12 + (i - 1) * DeviceInfoSize)]

\* OnDeviceListReceived imports the mass-storage devices of the list, those
\* whose import succeeds (the steps of an import are in UsbReceiver).
HandleDeviceListResponse(data) ==
    LET list == ParseDeviceList(data)
        wanted == {i \in DOMAIN list : list[i].bDeviceClass = MASS_STORAGE}
    IN /\ devices' = Append(devices, list)
       /\ \E done \in SUBSET wanted :
             virtual_devices_' = virtual_devices_ \o
                 [k \in DOMAIN Pick(list, done) |->
                    [info |-> Pick(list, done)[k], current_configuration_ |-> 0]]
       /\ UNCHANGED <<received, unattended, responses>>

CmdSubmitSize == 48

SetupAt(data, offset) ==
    [bmRequestType |-> data[offset + 1], bRequest |-> data[offset + 2],
     wValue |-> HostShortAt(data, offset + 2), wIndex |-> HostShortAt(data, offset + 4),
     wLength |-> HostShortAt(data, offset + 6)]

\* The data is taken only if its length, an int32_t, is positive and the payload
\* holds all of it.
UrbData(data, length) ==
    IF length > 0 /\ length \in Length /\ Len(data) >= CmdSubmitSize + length
    THEN SubSeq(data, CmdSubmitSize + 1, CmdSubmitSize + length) ELSE <<>>

\* The first 48 bytes are read as a UsbipCmdSubmit, whatever structure was sent.
ParseCmdSubmit(data) ==
    [words |-> [i \in 1..10 |-> ntohl(data, 4 * (i - 1))],
     setup |-> SetupAt(data, 40)]

\* The URB of a message.
ParseUrb(data) ==
    LET cmd == ParseCmdSubmit(data)
        endpoint == cmd.words[5] % 256
        bytes == UrbData(data, cmd.words[7])
    IN [type |-> IF endpoint = 0 THEN "CONTROL" ELSE "BULK",
        direction |-> cmd.words[4] % 256, endpoint |-> endpoint,
        flags |-> cmd.words[6], data |-> bytes,
        setup |-> IF endpoint = 0 THEN cmd.setup ELSE NoSetup,
        status |-> 0, actual_length |-> Len(bytes)]

-----------------------------------------------------------------------------
(* The receiver: VirtualUsbDevice.  A response carries data [what, value]:  *)
(* the content that a test would compare, not its bytes.                    *)

Empty == [what |-> "empty", value |-> 0]

Descriptor(type, index) ==
    CASE type = 1 -> [what |-> "device", value |-> 0]
      [] type = 2 -> [what |-> "configuration descriptor", value |-> 0]
      [] type = 3 /\ index < 4 -> [what |-> "string", value |-> index]
      [] OTHER -> Empty

\* Mutant: the 16-bit value is stored as it is.
SetConfigurationWide(conf, setup) ==
    IF setup.bRequest = 9 THEN setup.wValue ELSE conf

\* Mutant: the configuration is taken from the high byte.
SetConfigurationHigh(conf, setup) ==
    IF setup.bRequest = 9 THEN setup.wValue \div 256 ELSE conf

\* current_configuration_ after a standard request.
SetConfiguration(conf, setup) ==
    IF setup.bRequest = 9 THEN setup.wValue % 256 ELSE conf

HandleStandardRequest(conf, setup) ==
    CASE setup.bRequest = 6 -> Descriptor(setup.wValue \div 256, setup.wValue % 256)
      [] setup.bRequest = 8 -> [what |-> "configuration", value |-> conf]
      [] OTHER -> Empty

\* Get Max LUN; Bulk-Only Mass Storage Reset does nothing.
HandleClassRequest(setup) ==
    IF setup.bRequest = 254 THEN [what |-> "max lun", value |-> 0] ELSE Empty

\* Standard, class, vendor or reserved: the data of a reserved request is kept.
HandleControlUrb(conf, urb) ==
    CASE (urb.setup.bmRequestType \div 32) % 4 = 0 ->
            HandleStandardRequest(conf, urb.setup)
      [] (urb.setup.bmRequestType \div 32) % 4 = 1 -> HandleClassRequest(urb.setup)
      [] (urb.setup.bmRequestType \div 32) % 4 = 2 -> Empty
      [] OTHER -> [what |-> "echo", value |-> Len(urb.data)]

\* Mutant: the command is looked for one byte early, at bCBWCBLength.
ScsiFromLength(cbw) ==
    CASE cbw[15] = 18 -> [what |-> "inquiry", value |-> 36]
      [] cbw[15] = 37 -> [what |-> "capacity", value |-> 1023]
      [] OTHER -> Empty

ProcessScsiCommand(cbw) ==
    CASE cbw[16] = 18 -> [what |-> "inquiry", value |-> 36]
      [] cbw[16] = 37 -> [what |-> "capacity", value |-> 1023]
      [] OTHER -> Empty

\* The response starts as a copy of the URB, so a short OUT transfer is echoed.
HandleMassStorageUrb(urb) ==
    CASE urb.direction # OUT -> [what |-> "csw", value |-> 0]
      [] urb.direction = OUT /\ Len(urb.data) >= 31 -> ProcessScsiCommand(urb.data)
      [] OTHER -> [what |-> "echo", value |-> Len(urb.data)]

\* ProcessUrb of an attached mass-storage device; a URB from the network is
\* CONTROL or BULK.
Response(conf, urb) ==
    [direction |-> IF urb.direction = IN_ THEN OUT ELSE IN_,
     endpoint |-> urb.endpoint,
     data |-> IF urb.type = "CONTROL" THEN HandleControlUrb(conf, urb)
              ELSE HandleMassStorageUrb(urb)]

Configures(urb) ==
    urb.type = "CONTROL" /\ (urb.setup.bmRequestType \div 32) % 4 = 0

\* OnUrbReceived: only the first device sees the URB.
OnUrbReceived(urb) ==
    IF virtual_devices_ = <<>>
    THEN unattended' = unattended + 1 /\ UNCHANGED <<virtual_devices_, responses>>
    ELSE LET conf == virtual_devices_[1].current_configuration_
         IN /\ responses' = Append(responses, Response(conf, urb))
            /\ virtual_devices_' =
                 [virtual_devices_ EXCEPT ![1].current_configuration_ =
                    IF Configures(urb) THEN SetConfiguration(conf, urb.setup) ELSE conf]
            /\ UNCHANGED unattended

HandleUrbSubmit(data) ==
    /\ IF Len(data) < CmdSubmitSize
       THEN UNCHANGED <<received, virtual_devices_, unattended, responses>>
       ELSE /\ received' = Append(received, ParseUrb(data))
            /\ OnUrbReceived(ParseUrb(data))
    /\ UNCHANGED devices

\* The receive thread handles the next message.
OnNetworkMessage ==
    /\ wire # <<>>
    /\ wire' = Tail(wire)
    /\ \/ /\ Head(wire).type = "DEVICE_LIST_RESPONSE"
          /\ HandleDeviceListResponse(Head(wire).payload)
       \/ /\ Head(wire).type = "URB_SUBMIT"
          /\ HandleUrbSubmit(Head(wire).payload)
    /\ UNCHANGED <<sent, lists>>

Next ==
    \/ \E urb \in Urbs : OnUrbCaptured(urb)
    \/ \E list \in DeviceLists : HandleDeviceListRequest(list)
    \/ OnNetworkMessage

Spec == Init /\ [][Next]_vars

-----------------------------------------------------------------------------
(* Properties *)

IsOut(urb) == urb.direction = OUT

\* What the virtual device sees of a URB.
Visible(urb) == [type |-> urb.type, direction |-> urb.direction,
                 endpoint |-> urb.endpoint, flags |-> urb.flags,
                 data |-> urb.data, setup |-> urb.setup]

\* The host-to-device URBs among urbs.
Out(urbs) == Pick(urbs, {i \in DOMAIN urbs : IsOut(urbs[i])})

OutUrbs(urbs) == [i \in DOMAIN Out(urbs) |-> Visible(Out(urbs)[i])]

\* Bytes are bytes, configurations are bytes, and histories are bounded.
TypeOK ==
    /\ \A m \in Range(wire) : m.type \in {"URB_SUBMIT", "DEVICE_LIST_RESPONSE"}
    /\ \A urb \in Range(received) :
          /\ urb.endpoint \in Byte /\ urb.direction \in {OUT, IN_}
          /\ urb.setup.bRequest \in Byte /\ urb.setup.wValue \in UInt16
    /\ \A d \in Range(virtual_devices_) : d.current_configuration_ \in Byte
    /\ unattended \in 0..Len(received)
    /\ Len(sent) + Len(lists) <= MaxMessages

\* A host-to-device URB comes out of the conversions as it went in: the same
\* type, endpoint, flags, setup packet and data, in order, and none is missing
\* once the wire is empty.
OutUrbsArrive ==
    /\ IsPrefix(OutUrbs(received), OutUrbs(sent))
    /\ wire = <<>> => OutUrbs(received) = OutUrbs(sent)

\* Every device list, also an empty one, comes out of the conversions as it went
\* in, device by device and field by field: names, numbers, ids, release and classes.
ListsArrive ==
    /\ IsPrefix(devices, lists)
    /\ wire = <<>> => devices = lists

\* The captured host-to-device URBs that were handled since the first import.
Asked ==
    LET before == Len(OutUrbs(SubSeq(received, 1, unattended)))
    IN SubSeq(Out(sent), before + 1, Len(OutUrbs(received)))

SetsConfiguration(urb) == Configures(urb) /\ urb.setup.bRequest = 9

\* The configuration that the last SET_CONFIGURATION among urbs chooses.
Chosen(urbs) ==
    LET sets == Pick(urbs, {i \in DOMAIN urbs : SetsConfiguration(urbs[i])})
    IN IF sets = <<>> THEN 0 ELSE Last(sets).setup.wValue % 256

\* The device that gets the URBs has the configuration of the last captured
\* SET_CONFIGURATION since its import, 0 if there was none, and the other devices
\* keep theirs; provided that no control-IN URB of 8 bytes or more came along,
\* whose data is taken for a setup packet.
ConfigurationInStep ==
    (\A urb \in Range(received) : urb.type = "CONTROL" => IsOut(urb)) =>
        \A i \in DOMAIN virtual_devices_ :
           virtual_devices_[i].current_configuration_ = IF i = 1 THEN Chosen(Asked) ELSE 0

\* The answer that the host of a mass-storage device waits for.
Expected(urb) ==
    CASE urb.type = "BULK" /\ Len(urb.data) = 31 /\ urb.data[16] = 18 -> "inquiry"
      [] urb.type = "BULK" /\ Len(urb.data) = 31 /\ urb.data[16] = 37 -> "capacity"
      [] urb.type = "BULK" /\ Len(urb.data) < 31 -> "echo"
      [] OTHER -> "empty"

\* The receiver cannot take the host-to-device URB for another: the control request
\* asks for no data, and no data of a write, which it reads as a command block like
\* any 31 bytes or more, has a command that it knows in the 16th byte.
Unambiguous(urb) ==
    IF urb.type = "BULK" THEN Len(urb.data) > 31 => urb.data[16] \notin {18, 37}
    ELSE LET type == (urb.setup.bmRequestType \div 32) % 4
         IN \/ type = 0 /\ urb.setup.bRequest \notin {6, 8}
            \/ type = 1 /\ urb.setup.bRequest # 254
            \/ type = 2

\* The responses to host-to-device URBs.
Answers == Pick(responses, {i \in DOMAIN responses : responses[i].direction = IN_})

\* Every captured host-to-device URB that finds a device is answered once, in
\* order, in the opposite direction and, unless it is ambiguous, with the data its
\* command asks for.
AnswersInOrder ==
    /\ Len(responses) = Len(received) - unattended
    /\ Len(Answers) = Len(Asked)
    /\ \A i \in DOMAIN Answers :
          /\ Answers[i].endpoint = Asked[i].endpoint
          /\ Unambiguous(Asked[i]) => Answers[i].data.what = Expected(Asked[i])
=============================================================================
