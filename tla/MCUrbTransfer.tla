--------------------------- MODULE MCUrbTransfer ---------------------------
(* The URBs and device lists of a small session with one or two sticks.      *)
EXTENDS UrbTransfer

\* A command block wrapper; the byte before the command is its length.
Cbw(command) == [i \in 1..31 |-> IF i = 16 THEN command ELSE 0]

\* Control requests: SET_CONFIGURATION 1 and 0x0102, a class and a vendor request,
\* GET_CONFIGURATION (1 byte) and GET_DESCRIPTOR (18 bytes) of the device.
MCControl ==
    {CreateControlUrb(0, 9, 1, 0, <<>>), CreateControlUrb(0, 9, 258, 0, <<>>),
     CreateControlUrb(33, 255, 0, 3, <<>>), CreateControlUrb(64, 9, 5, 0, <<7, 8>>),
     CreateControlUrb(128, 8, 0, 0, <<1>>),
     CreateControlUrb(128, 6, 256, 0, [i \in 1..18 |-> i])}

\* SCSI commands and data, short and long, on either endpoint.
MCBulk ==
    {CreateBulkUrb(2, Cbw(18), OUT), CreateBulkUrb(2, Cbw(37), OUT),
     CreateBulkUrb(2, Cbw(0), OUT), CreateBulkUrb(2, <<18>>, OUT),
     CreateBulkUrb(2, [i \in 1..32 |-> 255], OUT),
     CreateBulkUrb(2, [i \in 1..32 |-> 18], OUT),
     CreateBulkUrb(129, [i \in 1..13 |-> 0], IN_), CreateBulkUrb(129, <<1, 2>>, IN_)}

MCUrbs == MCControl \cup MCBulk

Stick(busid, devnum) ==
    [path |-> "/dev/bus/usb", busid |-> busid,
     busnum |-> 1, devnum |-> devnum, speed |-> 3,
     idVendor |-> 4660, idProduct |-> 22136, bcdDevice |-> 256,
     bDeviceClass |-> 8, bDeviceSubClass |-> 6, bDeviceProtocol |-> 80,
     bConfigurationValue |-> 1, bNumConfigurations |-> 1, bNumInterfaces |-> 1]

MCDeviceLists == {<<>>, <<Stick("1-2", 300)>>, <<Stick("1-2", 300), Stick("1-3", 5)>>}
=============================================================================
