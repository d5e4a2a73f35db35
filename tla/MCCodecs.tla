------------------------------ MODULE MCCodecs ------------------------------
(* Real bytes and tags; a word of 13 bits in two of 7, cast to 8 bits.       *)
EXTENDS Codecs

SomeSizes == {<< 80, 24 >>, << -1, 127 >>, << -128, 0 >>}
SomeNums == {0, 1, 127, 128, WORD - 1}
SomeDiffs == {<< >>, << 0, 255 >>, [i \in 1 .. 130 |-> 7]}
\* Tags of every wire type, lengths, and bytes that ask for more.
SomeTail == {0, 1, 4, 10, 11, 12, 26, 40, 45, 129}
Printed == {Probe("ip1", TRUE), Probe("ip2", TRUE), Probe("ip1", FALSE),
            Connect("p1", TRUE), Connect("p2", TRUE), Connect("p1", FALSE), Other}
Bounds == [k \in Kinds |-> CASE k \in {"transport", "fragment"} -> 1
                             [] k = "host" -> 3
                             [] OTHER -> 4]
=============================================================================
