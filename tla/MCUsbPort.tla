----------------------------- MODULE MCUsbPort -----------------------------
EXTENDS UsbPort
MCPackets == {[line |-> {}, size |-> 2], [line |-> {"oe"}, size |-> 1],
              [line |-> {"oe", "pe"}, size |-> 0], [line |-> {"fe"}, size |-> 1]}
=============================================================================
