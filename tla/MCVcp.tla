------------------------------- MODULE MCVcp -------------------------------
EXTENDS Vcp
CONSTANTS c1, c2, other, ttyUSB0, ttyUSB1, rx, tx
MCCables   == {c1, c2}
MCForeign  == {other}
MCNodes    == {ttyUSB0, ttyUSB1}
MCLinked   == {c1, other}
MCClones   == {rx, tx}
MCDivisors == 1 .. 10000
=============================================================================
