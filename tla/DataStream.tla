---------------------------- MODULE DataStream ----------------------------
(***************************************************************************)
(* CDataStream over CBuffer (stuncore/datastream.cpp, buffer.cpp): the     *)
(* cursor through which messages are written and read.                     *)
(*                                                                         *)
(* Contents are sequences of 16-bit words, the unit in which a STUN        *)
(* message is laid out; sizes and positions count bytes, as in the code.   *)
(* A stream that outgrows the buffer attached to it goes on in a larger    *)
(* one and leaves the attached buffer behind: `attached' tells which it is *)
(* in, `behind' is what its former buffer still holds.                     *)
(***************************************************************************)
EXTENDS Naturals, Sequences

Attach(allocated) ==
    [data |-> <<>>, allocated |-> allocated, pos |-> 0, attached |-> TRUE, behind |-> <<>>]

GetSize(s) == 2 * Len(s.data)

Grow(s, size) ==
    IF size <= s.allocated THEN s
    ELSE [s EXCEPT !.allocated = IF size > 2 * @ THEN size ELSE 2 * @,
                   !.attached = FALSE,
                   !.behind = IF s.attached THEN s.data ELSE @]

(* Write overwrites from the cursor on and extends the stream at its end;  *)
(* writing nothing is refused.                                             *)
Write(s, words) ==
    IF words = <<>> THEN s
    ELSE LET first == s.pos \div 2
             after == first + Len(words)
         IN  [Grow(s, 2 * after) EXCEPT
                !.data = SubSeq(@, 1, first) \o words \o SubSeq(@, after + 1, Len(@)),
                !.pos = 2 * after]

(* Reading and seeking stay within the stream.                             *)
CanRead(s, size) == s.pos + size <= GetSize(s)

Peek(s, offset) == s.data[offset \div 2 + 1]

SeekDirect(s, pos) == [s EXCEPT !.pos = pos]

CanSeek(s, offset) == s.pos + offset <= GetSize(s)

SeekRelative(s, offset) == SeekDirect(s, s.pos + offset)

(* The words from byte `from' up to but not including byte `to'.           *)
Bytes(s, from, to) == SubSeq(s.data, from \div 2 + 1, to \div 2)

(* What is in the buffer the caller attached, which is what it sends.      *)
AttachedContent(s) == IF s.attached THEN s.data ELSE s.behind
=============================================================================
