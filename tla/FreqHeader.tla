----------------------------- MODULE FreqHeader -----------------------------
(***************************************************************************)
(* One entry of the frequency table in front of a rANS stream              *)
(* (lib/c/rans64me.c): one to four bytes; the low two bits of the first    *)
(* say how many.  The widths of the code are kept.                         *)
(***************************************************************************)
EXTENDS Naturals, Sequences

WORDs == 65536   \* how many values a WORD has

\* A BYTE, WORD or DWORD in memory (little endian) ...
BYTEof(x)  == <<x % 256>>
WORDof(x)  == <<x % 256, (x \div 256) % 256>>
DWORDof(x) == WORDof(x) \o WORDof(x \div WORDs)

\* ... and what is read from memory s.
WORDat(s)  == s[1] + s[2] * 256
DWORDat(s) == WORDat(s) + (s[3] + s[4] * 256) * WORDs

Entry_wide_byte(f) ==
  IF f <= 64 THEN BYTEof(f * 4)
  ELSE IF f <= 16383 THEN WORDof(f * 4 + 1)
  ELSE IF f <= 4194303 THEN <<2>> \o WORDof(f)
  ELSE DWORDof(f * 4 + 3)

\* The bytes written for f.  In the three-byte form the cast to BYTE comes
\* before the shift: bits 16 to 21 of f are not written.
Entry(f) ==
  IF f <= 63 THEN BYTEof(f * 4)
  ELSE IF f <= 16383 THEN WORDof(f * 4 + 1)
  ELSE IF f <= 4194303 THEN <<2>> \o WORDof(f)
  ELSE DWORDof(f * 4 + 3)

\* The entry at the start of s: how many bytes it has, and its value.
EntryWidth(s) == (s[1] % 4) + 1

EntryAt(s) ==
  CASE EntryWidth(s) = 1 -> s[1] \div 4
    [] EntryWidth(s) = 2 -> WORDat(s) \div 4
    [] EntryWidth(s) = 3 -> (s[1] \div 4) * WORDs + WORDat(Tail(s))
    [] EntryWidth(s) = 4 -> DWORDat(s) \div 4
=============================================================================
