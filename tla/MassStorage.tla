----------------------------- MODULE MassStorage -----------------------------
(***************************************************************************)
(* MassStorageDevice::Initialize (sender/usb/mass_storage_device.cpp): the *)
(* search for the bulk endpoints in the configuration descriptor, the      *)
(* reset, and READ CAPACITY over the bulk-only transport, with its         *)
(* fallback from the 16-byte to the 10-byte command.                       *)
(*                                                                         *)
(* Host and device talk over two pipes.  The device is external: it takes  *)
(* a command or lets it time out, executes it early or late, and refuses   *)
(* it in one of the ways the bulk-only transport knows.  What it has not   *)
(* delivered stays in its pipe when the host gives up, and also when the   *)
(* host opens the device again with a new object, whose tags start at 1.   *)
(*                                                                         *)
(* A configuration is the bytes of descriptors.  (LoadDeviceInfo copies    *)
(* the memory of the structure libusb has parsed them into, and memory     *)
(* beyond it: the search must cope with any bytes.)  Sizes of transfers    *)
(* are those of the code.  A number of blocks is a number, of which the    *)
(* 10-byte command can return at most Max10.  clean, issued, and the       *)
(* fields id and of of a packet (the command it answers, the medium it was *)
(* read from) are history.                                                 *)
(***************************************************************************)
EXTENDS Integers, Sequences, SequencesExt, FiniteSetsExt

CONSTANTS
    Configs,        \* configurations: sequences of descriptors
    Media,          \* media a device may hold: last block number, block size
    Max10,          \* the largest number in an answer to READ CAPACITY (10)
    MaxSessions,    \* bound: objects made for the device, one after the other
    MaxChanges      \* bound: changes of the medium

ASSUME ConfigsAssumption ==
    \A c \in Configs :
        c \in Seq(Seq(0 .. 255)) /\ \A i \in 1 .. Len(c) - 1 : Len(c[i]) = c[i][1]
ASSUME MediaAssumption == \A m \in Media : m.last \in Nat /\ m.size \in Nat
ASSUME BoundsAssumption == {Max10, MaxSessions, MaxChanges} \subseteq Nat

INTERFACE == 4
ENDPOINT  == 5
MASS_STORAGE == 8
BULK == 2

CswLength == 13

VARIABLES
    config,
    offset, interface_number_, bulk_in_endpoint_, bulk_out_endpoint_,
    host,               \* where Initialize is
    next_tag_, cbw, capacity_data,
    total_blocks_, block_size_,
    medium,             \* the device: its medium, whether it knows the 16-byte
    supports16,         \* command, commands not yet executed, answers not yet
    commands, answers,  \* read, and whether its bulk-in endpoint is halted
    halted,
    issued, clean, sessions, changes

parseVars   == <<offset, interface_number_, bulk_in_endpoint_, bulk_out_endpoint_>>
resultVars  == <<total_blocks_, block_size_>>
hostVars    == <<parseVars, host, next_tag_, cbw, capacity_data, resultVars>>
deviceVars  == <<medium, supports16, commands, answers, halted>>
historyVars == <<issued, clean, sessions, changes>>
vars == <<config, hostVars, deviceVars, historyVars>>

NoCommand == [id |-> 0, tag |-> 0, kind |-> 0]
NoData == [len |-> 0, id |-> 0]

\* The members of a new MassStorageDevice.
Init ==
    /\ config \in Configs
    /\ offset = 0 /\ interface_number_ = -1
    /\ bulk_in_endpoint_ = 0 /\ bulk_out_endpoint_ = 0
    /\ host = "parse" /\ next_tag_ = 1 /\ cbw = NoCommand /\ capacity_data = NoData
    /\ total_blocks_ = 0 /\ block_size_ = 512
    /\ medium \in Media /\ supports16 \in BOOLEAN
    /\ commands = <<>> /\ answers = <<>> /\ halted = FALSE
    /\ issued = 0 /\ clean = TRUE /\ sessions = 1 /\ changes = 0

-----------------------------------------------------------------------------
(* FindEndpoints *)

config_desc == FlattenSeq(config)

\* The descriptor at the offset, if its length is not 0 and it fits.
At(i) == config_desc[offset + i]
HasDescriptor ==
    /\ offset + 2 <= Len(config_desc)
    /\ At(1) # 0
    /\ offset + At(1) <= Len(config_desc)

IsMassStorage == At(2) = INTERFACE /\ At(1) >= 9 /\ At(6) = MASS_STORAGE

\* Mutant: endpoints that come before any mass-storage interface count too.
IsAnyBulkEndpoint == At(2) = ENDPOINT /\ At(1) >= 7 /\ At(4) % 4 = BULK

IsBulkEndpoint ==
    /\ At(2) = ENDPOINT /\ At(1) >= 7
    /\ interface_number_ >= 0
    /\ At(4) % 4 = BULK

IsIn(address) == address >= 128

\* Mutant: a descriptor that does not fit is skipped like any other.
ParseUnbounded ==
    /\ host = "parse"
    /\ offset + 2 <= Len(config_desc) /\ At(1) # 0
    /\ offset' = offset + At(1)
    /\ UNCHANGED <<config, interface_number_, bulk_in_endpoint_, bulk_out_endpoint_,
                   host, next_tag_, cbw, capacity_data, resultVars, deviceVars,
                   historyVars>>

\* One iteration of the loop.
ParseDescriptor ==
    /\ host = "parse" /\ HasDescriptor
    /\ interface_number_' = IF IsMassStorage THEN At(3) ELSE interface_number_
    /\ bulk_in_endpoint_' = IF IsBulkEndpoint /\ IsIn(At(3)) THEN At(3)
                            ELSE bulk_in_endpoint_
    /\ bulk_out_endpoint_' = IF IsBulkEndpoint /\ ~IsIn(At(3)) THEN At(3)
                             ELSE bulk_out_endpoint_
    /\ offset' = offset + At(1)
    /\ UNCHANGED <<config, host, next_tag_, cbw, capacity_data, resultVars,
                   deviceVars, historyVars>>

ParseEnd ==
    /\ host = "parse" /\ ~HasDescriptor
    /\ host' = IF interface_number_ >= 0 /\ bulk_in_endpoint_ # 0 /\ bulk_out_endpoint_ # 0
               THEN "claim" ELSE "noendpoints"
    /\ UNCHANGED <<config, parseVars, next_tag_, cbw, capacity_data, resultVars,
                   deviceVars, historyVars>>

-----------------------------------------------------------------------------
(* ClaimInterface and ResetDevice *)

ClaimInterface ==
    /\ host = "claim"
    /\ host' \in {"reset", "failed"}
    /\ UNCHANGED <<config, parseVars, next_tag_, cbw, capacity_data, resultVars,
                   deviceVars, historyVars>>

\* The device forgets what it was doing, but a halted endpoint stays halted.
ResetDevice ==
    /\ host = "reset"
    /\ commands' = <<>> /\ answers' = <<>>
    /\ clean' = TRUE
    /\ host' = "send16"
    /\ UNCHANGED <<config, parseVars, next_tag_, cbw, capacity_data, resultVars,
                   medium, supports16, halted, issued, sessions, changes>>

\* "Failed to reset device, continuing anyway"
ResetFails ==
    /\ host = "reset"
    /\ clean' = (commands = <<>> /\ answers = <<>>)
    /\ host' = "send16"
    /\ UNCHANGED <<config, parseVars, next_tag_, cbw, capacity_data, resultVars,
                   deviceVars, issued, sessions, changes>>

-----------------------------------------------------------------------------
(* GetCapacity *)

\* Descriptor i is there in full, and of this type.
IsA(i, type) == Len(config[i]) = config[i][1] /\ config[i][2] = type
IsDisk(i) == IsA(i, INTERFACE) /\ config[i][6] = MASS_STORAGE

\* The bulk endpoints after descriptor i and before the next interface; in says
\* which direction.
EndpointsOf(i, in) ==
    {config[j][3] : j \in {k \in i + 1 .. Len(config) :
        /\ IsA(k, ENDPOINT)
        /\ config[k][4] % 4 = BULK /\ IsIn(config[k][3]) = in
        /\ \A l \in i + 1 .. k : ~IsA(l, INTERFACE)}}

\* The endpoint in use for a direction is one of the interface that is claimed; libusb
\* transfers nothing over another one.
Claimed(address, in) ==
    \E i \in DOMAIN config :
        /\ IsDisk(i) /\ config[i][3] = interface_number_
        /\ address \in EndpointsOf(i, in)

\* Both are, and of one description of that interface.
OwnEndpoints ==
    \E i \in DOMAIN config :
        /\ IsDisk(i) /\ config[i][3] = interface_number_
        /\ bulk_in_endpoint_ \in EndpointsOf(i, TRUE)
        /\ bulk_out_endpoint_ \in EndpointsOf(i, FALSE)

\* The command that is sent from each place, and the size of its data.
Kind == IF host = "send16" THEN 16 ELSE 10
DataLength(kind) == IF kind = 16 THEN 32 ELSE 8

\* The bulk-out transfer of 31 bytes goes through.
SendCBW ==
    /\ host \in {"send16", "send10"}
    /\ Claimed(bulk_out_endpoint_, FALSE)
    /\ issued' = issued + 1
    /\ cbw' = [id |-> issued + 1, tag |-> next_tag_, kind |-> Kind]
    /\ next_tag_' = next_tag_ + 1
    /\ commands' = Append(commands, cbw')
    /\ host' = "data"
    /\ UNCHANGED <<config, parseVars, capacity_data, resultVars, medium, supports16,
                   answers, halted, clean, sessions, changes>>

\* It does not, and GetCapacity returns false; Initialize does not mind.
SendCBWFails ==
    /\ host \in {"send16", "send10"}
    /\ cbw' = [cbw EXCEPT !.tag = next_tag_, !.kind = Kind]
    /\ next_tag_' = next_tag_ + 1
    /\ host' = "initialized"
    /\ UNCHANGED <<config, parseVars, capacity_data, resultVars, deviceVars,
                   historyVars>>

\* A bulk-in transfer brings something; otherwise it fails or times out.
Arrives == ~halted /\ Claimed(bulk_in_endpoint_, TRUE) /\ answers # <<>>

\* What is read is gone, whether or not its size is the one that was expected.
Read == answers' = Tail(answers)

TransferData ==
    /\ host = "data"
    /\ Arrives /\ Head(answers).len = DataLength(cbw.kind)
    /\ Read
    /\ capacity_data' = Head(answers)
    /\ block_size_' = Head(answers).content.size
    /\ host' = "status"
    /\ UNCHANGED <<config, parseVars, next_tag_, cbw, total_blocks_, medium,
                   supports16, commands, halted, historyVars>>

\* The first command is followed by the second, without a look at its status.
TransferFails ==
    /\ host = "data"
    /\ \/ Arrives /\ Head(answers).len # DataLength(cbw.kind) /\ Read
       \/ ~Arrives /\ UNCHANGED answers
    /\ host' = IF cbw.kind = 16 THEN "send10" ELSE "initialized"
    /\ UNCHANGED <<config, parseVars, next_tag_, cbw, capacity_data, resultVars,
                   medium, supports16, commands, halted, historyVars>>

\* Mutant: the status of the command is not looked at.
ReceiveAnyStatus ==
    /\ host = "status" /\ Arrives
    /\ Head(answers).len = CswLength /\ Head(answers).tag = cbw.tag
    /\ Read
    /\ total_blocks_' = capacity_data.content.last + 1
    /\ host' = "initialized"
    /\ UNCHANGED <<config, parseVars, next_tag_, cbw, capacity_data, block_size_,
                   medium, supports16, commands, halted, historyVars>>

\* ReceiveCSW accepts the status and GetCapacity returns true.
ReceiveCSW ==
    /\ host = "status" /\ Arrives
    /\ Head(answers).len = CswLength /\ Head(answers).tag = cbw.tag
    /\ Head(answers).status = 0
    /\ Read
    /\ total_blocks_' = capacity_data.content.last + 1
    /\ host' = "initialized"
    /\ UNCHANGED <<config, parseVars, next_tag_, cbw, capacity_data, block_size_,
                   medium, supports16, commands, halted, historyVars>>

\* GetCapacity returns false, with block_size_ already changed.
ReceiveCSWFails ==
    /\ host = "status"
    /\ \/ /\ Arrives /\ Read
          /\ Head(answers).len = CswLength =>
                 Head(answers).tag # cbw.tag \/ Head(answers).status # 0
       \/ ~Arrives /\ UNCHANGED answers
    /\ host' = "initialized"
    /\ UNCHANGED <<config, parseVars, next_tag_, cbw, capacity_data, resultVars,
                   medium, supports16, commands, halted, historyVars>>

\* The object is destroyed, and another one is made for the same device.
NewObject ==
    /\ host \in {"initialized", "noendpoints", "failed"}
    /\ sessions < MaxSessions
    /\ sessions' = sessions + 1
    /\ offset' = 0 /\ interface_number_' = -1
    /\ bulk_in_endpoint_' = 0 /\ bulk_out_endpoint_' = 0
    /\ host' = "parse" /\ next_tag_' = 1 /\ capacity_data' = NoData
    /\ cbw' = NoCommand
    /\ total_blocks_' = 0 /\ block_size_' = 512
    /\ UNCHANGED <<config, deviceVars, issued, clean, changes>>

-----------------------------------------------------------------------------
(* The device *)

\* What the medium's geometry looks like in an answer.
Content(kind) ==
    [last |-> IF kind = 10 THEN Min({medium.last, Max10}) ELSE medium.last,
     size |-> medium.size]

Data(c, content) ==
    [len |-> DataLength(c.kind), id |-> c.id, content |-> content, of |-> medium]

Csw(c, status) == [len |-> CswLength, id |-> c.id, tag |-> c.tag, status |-> status]

Execute ==
    /\ commands # <<>>
    /\ Head(commands).kind = 16 => supports16
    /\ answers' = answers \o <<Data(Head(commands), Content(Head(commands).kind)),
                               Csw(Head(commands), 0)>>
    /\ commands' = Tail(commands)
    /\ UNCHANGED <<config, hostVars, medium, supports16, halted, historyVars>>

\* A command is refused with data that mean nothing, with an empty packet, with
\* nothing but the status, or by halting the endpoint.
Refuse ==
    /\ commands # <<>>
    /\ LET c == Head(commands)
           refused(before) == answers' = answers \o Append(before, Csw(c, 1))
       IN \/ refused(<<Data(c, [last |-> 0, size |-> 0])>>) /\ UNCHANGED halted
          \/ refused(<<[len |-> 0, id |-> c.id]>>) /\ UNCHANGED halted
          \/ refused(<<>>) /\ UNCHANGED halted
          \/ refused(<<>>) /\ halted' = TRUE
    /\ commands' = Tail(commands)
    /\ UNCHANGED <<config, hostVars, medium, supports16, historyVars>>

ChangeMedium(m) ==
    /\ changes < MaxChanges /\ m # medium
    /\ medium' = m
    /\ changes' = changes + 1
    /\ UNCHANGED <<config, hostVars, supports16, commands, answers, halted, issued,
                   clean, sessions>>

-----------------------------------------------------------------------------

GetCapacity ==
    \/ SendCBW \/ SendCBWFails \/ TransferData \/ TransferFails
    \/ ReceiveCSW \/ ReceiveCSWFails

Initialize ==
    \/ ParseDescriptor \/ ParseEnd
    \/ ClaimInterface \/ ResetDevice \/ ResetFails
    \/ GetCapacity

Next ==
    \/ Initialize
    \/ NewObject
    \/ Execute \/ Refuse
    \/ \E m \in Media : ChangeMedium(m)

Spec == Init /\ [][Next]_vars

-----------------------------------------------------------------------------
(* Properties *)

\* The members keep their types, and the search never leaves the descriptor.
TypeOK ==
    /\ config \in Configs
    /\ offset \in 0 .. Len(config_desc)
    /\ interface_number_ \in Nat \cup {-1}
    /\ bulk_in_endpoint_ \in 0 .. 255 /\ bulk_out_endpoint_ \in 0 .. 255
    /\ host \in {"parse", "noendpoints", "claim", "failed", "reset", "send16",
                 "send10", "data", "status", "initialized"}
    /\ next_tag_ \in Nat \ {0} /\ issued \in Nat
    /\ cbw \in [id : Nat, tag : Nat, kind : {0, 10, 16}]
    /\ total_blocks_ \in Nat /\ block_size_ \in Nat
    /\ medium \in Media /\ supports16 \in BOOLEAN /\ halted \in BOOLEAN
    /\ \A i \in DOMAIN answers : answers[i].len \in {0, 8, 32, CswLength}
    /\ clean \in BOOLEAN

\* After the mass-storage interface comes no other one, and no other interface
\* with bulk endpoints.
OneBulkInterface ==
    \A i, j \in DOMAIN config :
        IsDisk(i) /\ IsA(j, INTERFACE) /\ i < j =>
            ~IsDisk(j) /\ EndpointsOf(j, TRUE) \cup EndpointsOf(j, FALSE) = {}

\* The endpoints that FindEndpoints settles on belong to the mass-storage
\* interface it has found, and it finds them if they are there, whatever else
\* the configuration describes before it and however it is cut off at the end.
\* (It fails when a later interface, or an alternate setting, has bulk endpoints
\* too, or is another mass-storage interface: the last ones win, and the number
\* need not be that of the interface with the endpoints.)
EndpointsFound ==
    /\ host \notin {"parse", "noendpoints"} /\ OneBulkInterface => OwnEndpoints
    /\ host = "noendpoints" =>
          ~\E i \in DOMAIN config :
              IsDisk(i) /\ EndpointsOf(i, TRUE) # {} /\ EndpointsOf(i, FALSE) # {}

\* A capacity that GetCapacity reports is the one the device gave in answer to
\* this very command, although the status of the command before it was never
\* read and its answer may come late, provided that nothing was left in the
\* device when the object was made (or its reset worked); and it is exact, up
\* to the limit of the 10-byte command.
CapacityTrue ==
    total_blocks_ # 0 /\ clean =>
        /\ capacity_data.id = cbw.id
        /\ block_size_ = capacity_data.of.size
        /\ \/ total_blocks_ = capacity_data.of.last + 1
           \/ cbw.kind = 10 /\ capacity_data.of.last > Max10
=============================================================================
