---------------------------- MODULE RansSections ----------------------------
(***************************************************************************)
(* mylz16torans64 and myrans64tolz16 of lib/c/rans64me.c: the five         *)
(* sections of an LZ16 block are packed, last one first, at the end of the *)
(* output buffer; the trailing sections shorter than 4096 bytes are        *)
(* copied, all others go through ranscompress.  The LZ16 block itself lies *)
(* at the start of the same buffer.  Offsets are bytes from that start; of *)
(* the contents of a section the model keeps which section it is.  The     *)
(* actions here are part of Lz16Interface.                                 *)
(***************************************************************************)
EXTENDS Integers

MYSECTION_COUNT == 5
Sections == 0 .. MYSECTION_COUNT - 1

\* MYIOHEAD.offset: sizeof(MYIOHEAD)+sizeof(MYCOMPRESSITEM)
HeadLen == 52

CONSTANT EncodedLengths(_)   \* the lengths ranscompress may return for n bytes

\* At least a head of 8 bytes, a table of 256 and the final states of 16, and at
\* most a table of 512 bytes, 8 bits for a byte (and a little more for the rounding
\* of the frequencies) and a last word that is filled up.
IsEncodedLength(k, n) == 8 + 256 + 16 <= k /\ k <= 8 + 512 + 16 + 4 + n + n \div 128

VARIABLES len,          \* pitem->len, the LZ16 sections
          outlen,       \* size of the buffer
          i,            \* next section
          checkok, sum, sum_notrans, index,
          ranslen,      \* pransitem->len, 0 for a copied section
          blocks,       \* what was written where
          pransbuf, polz16buf,  \* the decoder's positions
          pc

constvars == <<len, outlen>>
packvars  == <<i, checkok, sum, sum_notrans, index, ranslen, blocks, pransbuf, polz16buf>>

\* The sum of the first n lengths of l.
FirstLens(l, n) == LET part(s) == IF s < n THEN l[s] ELSE 0
                   IN  part(0) + part(1) + part(2) + part(3) + part(4)

\* The local variables of mylz16torans64, for the sections len of a finished
\* LZ16 block in a buffer of outlen bytes: see Lz16Interface.
PackInit == /\ i = MYSECTION_COUNT - 1
            /\ checkok = TRUE
            /\ sum = 0 /\ sum_notrans = 0 /\ index = 0
            /\ ranslen = [s \in Sections |-> 0]
            /\ blocks = {}
            /\ pransbuf = 0 /\ polz16buf = 0

\* Where the packed part of the buffer starts.
Start == outlen - (sum + sum_notrans)

Copied_any_short(n) == n < 4 * 1024

Copied_short_tail_from_64(n) == n < 64 /\ checkok

\* The test of line 188.
Copied(n) == n < 4 * 1024 /\ checkok

copy_section ==
  /\ pc = "encode" /\ i >= 0
  /\ Copied(len[i])
  /\ sum_notrans' = sum_notrans + len[i]
  /\ blocks' = blocks \cup {[at |-> outlen - sum_notrans', sec |-> i, coded |-> FALSE]}
  /\ i' = i - 1
  /\ UNCHANGED <<constvars, checkok, sum, index, ranslen, pransbuf, polz16buf, pc>>

\* ranscompress of a section that is not empty.
code_section ==
  /\ pc = "encode" /\ i >= 0
  /\ ~Copied(len[i])
  /\ len[i] > 0
  /\ \E n \in EncodedLengths(len[i]) :
       /\ ranslen' = [ranslen EXCEPT ![i] = n]
       /\ sum' = sum + n
       /\ blocks' = blocks \cup {[at |-> Start - n, sec |-> i, coded |-> TRUE]}
  /\ checkok' = FALSE
  /\ index' = index + 1
  /\ i' = i - 1
  /\ UNCHANGED <<constvars, sum_notrans, pransbuf, polz16buf, pc>>

\* ranscompress of an empty section: normalize_freqs divides by cur_total = 0.
code_empty_section ==
  /\ pc = "encode" /\ i >= 0
  /\ ~Copied(len[i])
  /\ len[i] = 0
  /\ pc' = "fault"
  /\ UNCHANGED <<constvars, i, checkok, sum, sum_notrans, index, ranslen, blocks,
                 pransbuf, polz16buf>>

\* No section was coded: 0 is returned and the LZ16 block is used as it is.
return_uncoded ==
  /\ pc = "encode" /\ i < 0
  /\ sum = 0
  /\ pc' = "lz16"
  /\ UNCHANGED <<constvars, i, checkok, sum, sum_notrans, index, ranslen, blocks,
                 pransbuf, polz16buf>>

\* The two heads go in front of the packed sections; the decoder finds the
\* first section behind them, and writes behind a copy of the LZ16 head.
write_heads ==
  /\ pc = "encode" /\ i < 0
  /\ sum # 0
  /\ i' = 0
  /\ pransbuf' = Start
  /\ polz16buf' = HeadLen
  /\ pc' = "decode"
  /\ UNCHANGED <<constvars, checkok, sum, sum_notrans, index, ranslen, blocks>>

\* One round of myrans64tolz16.
decode_section ==
  /\ pc = "decode" /\ i < MYSECTION_COUNT
  /\ pransbuf' = pransbuf + (IF index > i THEN ranslen[i] ELSE len[i])
  /\ polz16buf' = polz16buf + len[i]
  /\ i' = i + 1
  /\ UNCHANGED <<constvars, checkok, sum, sum_notrans, index, ranslen, blocks, pc>>

-----------------------------------------------------------------------------

\* The decoder, which only knows the number of coded sections and the lengths,
\* finds each section where the encoder put it, and decodes it exactly if it
\* was coded (the assertions of lines 250 and 251); it restores it at the
\* offset it had in the LZ16 block, and ends at the end of the buffer.
SectionsFound ==
  pc = "decode" =>
    /\ i < MYSECTION_COUNT =>
         /\ [at |-> pransbuf, sec |-> i, coded |-> index > i] \in blocks
         /\ polz16buf = HeadLen + FirstLens(len, i)
    /\ i = MYSECTION_COUNT => pransbuf = outlen

\* The encoder packs towards the sections it still has to read, in the same
\* buffer: it never writes on them, nor, with the two heads, on the LZ16 head
\* it copies from.  The 4096 bytes of line 188 are what makes room for the
\* tables of the sections that become longer.
NothingOverwritten ==
  pc = "encode" => IF i >= 0 THEN Start >= HeadLen + FirstLens(len, i + 1)
                   ELSE sum # 0 => Start - 2 * HeadLen >= HeadLen

\* The assertion of rans64_main.h:80 (the table sums to target_total, which no
\* division by cur_total = 0 can give) in every call that ranscompress makes.
EveryTableSums == pc # "fault"
=============================================================================
