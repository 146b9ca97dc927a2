------------------------------ MODULE DpaWords ------------------------------
(* The words of a SimpleSerializer's request.                                *)
EXTENDS Integers

Number(bytes) == [kind |-> "number", bytes |-> bytes]   \* several with dots between
Word(kind) == [kind |-> kind]   \* "command", "timeout", "TIMEOUT=", "CLID=", "CLID=x"
Timeout(n) == [kind |-> "TIMEOUT=n", value |-> n]
NotHexa == -1   \* among the numbers of "bytes"
=============================================================================
