--------------------------- MODULE MCMassStorage ---------------------------
(* Small instances of MassStorage for TLC. *)
EXTENDS MassStorage

Configuration == <<9, 2, 0, 0, 1, 1, 0, 128, 50>>
Interface(number, class) == <<9, 4, number, 0, 2, class, 6, 80, 0>>
Endpoint(address, attributes) == <<7, 5, address, attributes, 0, 2, 0>>

Disk == <<Interface(0, 8), Endpoint(129, 2), Endpoint(2, 2)>>

\* A stick; one behind an interface of another class, with bulk endpoints and an
\* interrupt endpoint; a disk with a second interface after it, whose endpoints
\* or whose number are taken instead; disks without an endpoint of their own, or
\* cut off; a descriptor of length 0; and libusb's structure, with padding and a
\* pointer.
MCConfigs ==
    {<<Configuration>> \o Disk,
     <<Configuration, Interface(0, 255), Endpoint(131, 2), Endpoint(4, 2),
       Interface(1, 8), Endpoint(133, 3), Endpoint(129, 2), Endpoint(2, 2)>>,
     <<Configuration>> \o Disk \o <<Interface(1, 255), Endpoint(131, 2)>>,
     <<Configuration>> \o Disk \o <<Interface(1, 8)>>,
     <<Configuration, Interface(0, 255), Endpoint(4, 2), Interface(1, 8),
       Endpoint(129, 2)>>,
     <<Configuration>> \o Disk \o <<<<7, 5, 131, 2>>>>,
     <<Configuration, Interface(0, 8), Endpoint(129, 2), <<0, 5, 2, 2, 0, 2, 0>>>>,
     <<Configuration, Interface(0, 8), Endpoint(129, 2), <<7>>>>,
     <<Configuration, <<0, 0, 0, 0, 0, 0, 0, 144, 31, 7, 5, 2, 2>>>>}

MCMedia == {[last |-> 0, size |-> 512], [last |-> 3, size |-> 512],
            [last |-> 5, size |-> 4096]}
=============================================================================
