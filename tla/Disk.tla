-------------------------------- MODULE Disk --------------------------------
(***************************************************************************)
(* What a block device promises: a read of a sector returns what was last  *)
(* written to it.                                                          *)
(***************************************************************************)
EXTENDS Naturals

CONSTANTS
    Devs,       \* the devices
    Sectors,    \* their sectors: pairs of a device and a number
    Data        \* what a sector can hold

VARIABLES
    contents,   \* what every sector holds
    io          \* the last transfer of every device: the sector and its data

Init == contents \in [Sectors -> Data] /\ io = [dev \in Devs |-> <<>>]

Read(s) ==
    /\ io' = [io EXCEPT ![s[1]] = <<"read", s, contents[s]>>]
    /\ UNCHANGED contents

Write(s, d) ==
    /\ contents' = [contents EXCEPT ![s] = d]
    /\ io' = [io EXCEPT ![s[1]] = <<"write", s, d>>]

Next == \E s \in Sectors : Read(s) \/ \E d \in Data : Write(s, d)

Spec == Init /\ [][Next]_<<contents, io>>
============================================================================
