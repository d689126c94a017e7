------------------------------ MODULE MCCommand ------------------------------
EXTENDS Command
MCChunks == {[plain |-> 1, rest |-> 0], [plain |-> 1, rest |-> 1], [plain |-> 0, rest |-> 1]}
=============================================================================
