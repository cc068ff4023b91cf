--------------------------- MODULE MCM3u8Player ---------------------------
(* Instances of M3u8Player for TLC.                                        *)
EXTENDS M3u8Player

NoFaults  == {}
AllFaults == FaultKinds

Even == [height |-> 4, y |-> 4, cb |-> 2, cr |-> 2]
Odd  == [height |-> 3, y |-> 4, cb |-> 2, cr |-> 2]
Tall == [height |-> 8, y |-> 4, cb |-> 2, cr |-> 2]
Wide == [height |-> 4, y |-> 8, cb |-> 4, cr |-> 4]
Semi == [height |-> 4, y |-> 4, cb |-> 4, cr |-> 0]   \* Cb and Cr in one plane

OneSize  == {Even}
AllSizes == {Even, Odd, Tall, Wide, Semi}
=============================================================================
