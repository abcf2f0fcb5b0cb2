------------------------------- MODULE Buffer -------------------------------
(***************************************************************************)
(* utils/buffer.c: an array with a read and a write position, the bytes    *)
(* between them waiting to be sent.  Positions count from data.  A byte is *)
(* its number in the stream it belongs to, 0 before anything was stored.   *)
(***************************************************************************)
EXTENDS Naturals

CONSTANT Size   \* limit - data

ASSUME BufferAssumption == Size \in Nat \ {0}

Cells == 0 .. Size - 1

Buffers == [data: [Cells -> Nat], read: 0 .. Size, write: 0 .. Size]

(* How many bytes buffer_read_ptr() grants.                                *)
Count(b) == b.write - b.read

(* How many bytes buffer_write_ptr() grants.                               *)
Space(b) == Size - b.write

CanWrite(b) == Space(b) > 0
CanRead(b)  == Count(b) > 0

(* recv() stores n bytes at the write position, the i-th being s[i], and   *)
(* buffer_write_adv() moves it.                                            *)
Stored(b, n, s) ==
    [data  |-> [i \in Cells |-> IF i \in b.write .. b.write + n - 1
                                THEN s[i - b.write + 1] ELSE b.data[i]],
     read  |-> b.read,
     write |-> b.write + n]

(* buffer_compact()                                                        *)
Compact(b) ==
    IF b.read = 0 THEN b
    ELSE IF b.read = b.write THEN [b EXCEPT !.read = 0, !.write = 0]
    ELSE [b EXCEPT !.data = [i \in Cells |-> IF i < Count(b) THEN b.data[b.read + i]
                                             ELSE b.data[i]],
                   !.read = 0, !.write = Count(b)]

(* buffer_read_adv(): an emptied buffer starts again from its beginning.   *)
ReadAdv(b, n) ==
    LET a == [b EXCEPT !.read = @ + n]
    IN  IF a.read = a.write THEN Compact(a) ELSE a

Empty == [data |-> [i \in Cells |-> 0], read |-> 0, write |-> 0]

(* The bytes waiting, oldest first.                                        *)
Contents(b) == [i \in 1 .. Count(b) |-> b.data[b.read + i - 1]]
=============================================================================
