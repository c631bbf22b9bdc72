----------------------------- MODULE Lz16Tokens -----------------------------
(***************************************************************************)
(* The token format of an LZ16 block (lib/c/lz16encode.h, lz16decode.h and *)
(* lz16decode.c): how one token is spread over the sections pdistanceflag, *)
(* pdistance, pflag and pflagExx, and read again.  A token is charlen      *)
(* literal words, kept in pchar, and a match of matchlen + 2 words at      *)
(* matchdistance.  The widths of the code are kept.                        *)
(*                                                                         *)
(* pflagExx is written in half bytes: byte p and halfid are the position   *)
(* 2p + halfid of a sequence of half bytes, the lower one of a byte first. *)
(* The other sections are sequences of bytes.                              *)
(***************************************************************************)
EXTENDS Integers, Sequences

Small(a, b) == IF a < b THEN a ELSE b

\* A byte in pflagExx, which may lie across two bytes of memory.
HalfBytes(b) == <<b % 16, b \div 16>>

Length44_until_16(l) ==
  IF l < 16 THEN <<l % 16>>
  ELSE IF l < 30 THEN <<15, l - 15>>
  ELSE <<15, 15>> \o [k \in 1 .. 2 * ((l - 30) \div 255) |-> 15]
                  \o HalfBytes((l - 30) % 255)

\* mylz_WriteLength44: the half bytes appended for the length l.
WriteLength44(l) ==
  IF l < 15 THEN <<l>>
  ELSE IF l < 30 THEN <<15, l - 15>>
  ELSE <<15, 15>> \o [k \in 1 .. 2 * ((l - 30) \div 255) |-> 15]
                  \o HalfBytes((l - 30) % 255)

\* The part of a length that did not fit into the lim values of its field.
Excess(l, lim) == IF l < lim THEN <<>> ELSE WriteLength44(l - lim)

DistanceBytes_one_more(dis) ==
  LET d == dis \div 16
      i == (d + 65280) \div 65536
  IN  IF i = 0 THEN <<d % 256, 0>> ELSE <<d % 256, d \div 256, 0>>

\* pdistance: one or two bytes, by i = (dis + 0xff00)>>16 for dis >> 4.
DistanceBytes(dis) ==
  LET d == dis \div 16
      i == (d + 65280) \div 65536
  IN  IF i = 0 THEN <<d % 256>> ELSE <<d % 256, d \div 256>>

\* mylz_ENWritematchdistance4: what goes to pdistance, and the byte of pdistanceflag.
More(dis) == IF dis < 32 THEN <<>> ELSE DistanceBytes(dis)
FlagByte(id, dis) == IF dis < 32 THEN id + dis
                     ELSE id + 16 * (Len(DistanceBytes(dis)) + 1) + (dis % 16)

\* A token in code: the bytes of pflag, the half bytes of pflagExx, the upper
\* two bits of pdistanceflag, and what is left of the distance.
Code(flag, flagExx, id, dis) == [flag |-> flag, flagExx |-> flagExx, id |-> id, dis |-> dis]

\* mylz16ENhashmcCode, levels 2 and 4.
CodeMc(t) ==
  LET ml == t.matchlen - 1
      cl == t.charlen - 1
      md == t.matchdistance
  IN CASE t.charlen = 0 /\ t.matchlen > 0 ->
            Code(<<Small(ml, 7) * 32 + (md % 32)>>, Excess(ml, 7), 128, md \div 32)
       [] t.charlen = 0 /\ t.matchlen = 0 ->
            Code(<<>>, HalfBytes(md % 256), 0, md \div 256)
       [] t.charlen > 0 /\ t.matchlen > 0 ->
            Code(<<Small(ml, 7) * 32 + Small(cl, 3) * 8 + (md % 8)>>,
                 Excess(cl, 3) \o Excess(ml, 7), 192, md \div 8)
       [] t.charlen > 0 /\ t.matchlen = 0 ->
            Code(<<Small(cl, 3) * 64 + (md % 64)>>, Excess(cl, 3), 64, md \div 64)

\* mylz16ENhashmCode, levels 1 and 3.
CodeM(t) ==
  LET ml  == t.matchlen - 1
      md  == t.matchdistance
      cl  == IF t.charlen = 0 THEN <<>> ELSE WriteLength44(t.charlen - 1)
      cid == IF t.charlen = 0 THEN 0 ELSE 64
  IN IF t.matchlen > 0
     THEN Code(<<Small(ml, 7) * 32 + (md % 32)>>, cl \o Excess(ml, 7), 128 + cid, md \div 32)
     ELSE Code(<<>>, cl, cid, md)

TokenCode(mc, t) == IF mc THEN CodeMc(t) ELSE CodeM(t)

\* The sections with something written behind each of them.
Extend(sec, distanceflag, distance, flag, flagExx) ==
  [pdistanceflag |-> sec.pdistanceflag \o distanceflag,
   pdistance     |-> sec.pdistance \o distance,
   pflag         |-> sec.pflag \o flag,
   pflagExx      |-> sec.pflagExx \o flagExx]

WriteToken(mc, sec, t) ==
  LET c == TokenCode(mc, t)
  IN  Extend(sec, <<FlagByte(c.id, c.dis)>>, More(c.dis), c.flag, c.flagExx)

\* mylz_WriteLength: the bytes for the charlen of the last block.
LastBytes(charlen) ==
  IF charlen < 15 THEN <<charlen>>
  ELSE <<15>> \o [k \in 1 .. (charlen - 15) \div 255 |-> 255] \o <<(charlen - 15) % 255>>

\* The last block of mylz16ENtailEndEx; pflagExx++ makes the byte in which
\* pflagExx stands its last one.
WriteLast(sec, charlen) ==
  Extend(sec, <<0>>, <<>>, LastBytes(charlen),
         IF Len(sec.pflagExx) % 2 = 0 THEN <<0, 0>> ELSE <<0>>)

EmptySections == [pdistanceflag |-> <<>>, pdistance |-> <<>>, pflag |-> <<>>, pflagExx |-> <<>>]

-----------------------------------------------------------------------------
(* Reading.  A reader is the number of units read of each section.         *)

Unread == [pdistanceflag |-> 0, pdistance |-> 0, pflag |-> 0, pflagExx |-> 0]

\* The unit behind the first n; 0 behind the end, where a reader never looks.
At(s, n) == IF n < Len(s) THEN s[n + 1] ELSE 0

Bit(c, b) == (c \div b) % 2 = 1

\* Which of the bytes y[0], y[1], ... ends a length.
LastByte(y) == CHOOSE k \in DOMAIN y : y[k] < 255 /\ \A j \in 0 .. k - 1 : y[j] = 255

\* mylz_ReadLength44 behind n half bytes: what it adds, and where it ends.
ReadLength44(s, n) ==
  LET m == At(s, n)
      h == At(s, n + 1)
      y == [k \in 0 .. Len(s) |-> At(s, n + 2 + 2 * k) + 16 * At(s, n + 3 + 2 * k)]
      last == LastByte(y)
  IN  IF m < 15 THEN [len |-> m, next |-> n + 1]
      ELSE IF h < 15 THEN [len |-> 15 + h, next |-> n + 2]
      ELSE [len |-> 30 + 255 * last + y[last], next |-> n + 4 + 2 * last]

\* A length that starts in a field of lim values, cf. Excess.
ReadExcess(s, n, field, lim) ==
  IF field < lim THEN [len |-> field, next |-> n]
  ELSE LET r == ReadLength44(s, n) IN [len |-> lim + r.len, next |-> r.next]

\* The distance in and behind pdistanceflag, with the shifted-in low bits.
ReadDistance(sec, r) ==
  LET c == At(sec.pdistanceflag, r.pdistanceflag)
      i == ((c \div 16) % 4) - 1
      p == r.pdistance
  IN  IF ~Bit(c, 32) THEN [dis |-> c % 32, next |-> p]
      ELSE [dis  |-> 16 * (At(sec.pdistance, p)
                           + (IF i = 2 THEN 256 * At(sec.pdistance, p + 1) ELSE 0)) + (c % 16),
            next |-> p + i]

\* What the lengths and the distance of one token are, and the reader behind it.
Read(r, d, flags, x, charlen, matchlen, matchdistance) ==
  [token  |-> [charlen |-> charlen, matchlen |-> matchlen, matchdistance |-> matchdistance],
   reader |-> [pdistanceflag |-> r.pdistanceflag + 1, pdistance |-> d.next,
               pflag |-> r.pflag + flags, pflagExx |-> x]]

\* One round of lz16DEmc, levels 2 and 4.
ReadTokenMc(sec, r) ==
  LET c == At(sec.pdistanceflag, r.pdistanceflag)
      d == ReadDistance(sec, r)
      f == At(sec.pflag, r.pflag)
      x == sec.pflagExx
  IN CASE Bit(c, 128) /\ ~Bit(c, 64) ->
            LET m == ReadExcess(x, r.pflagExx, f \div 32, 7)
            IN  Read(r, d, 1, m.next, 0, m.len + 1, d.dis * 32 + (f % 32))
       [] Bit(c, 128) /\ Bit(c, 64) ->
            LET l == ReadExcess(x, r.pflagExx, (f \div 8) % 4, 3)
                m == ReadExcess(x, l.next, f \div 32, 7)
            IN  Read(r, d, 1, m.next, l.len + 1, m.len + 1, d.dis * 8 + (f % 8))
       [] ~Bit(c, 128) /\ ~Bit(c, 64) ->
            LET p == r.pflagExx
            IN  Read(r, d, 0, p + 2, 0, 0, d.dis * 256 + At(x, p) + 16 * At(x, p + 1))
       [] ~Bit(c, 128) /\ Bit(c, 64) ->
            LET l == ReadExcess(x, r.pflagExx, f \div 64, 3)
            IN  Read(r, d, 1, l.next, l.len + 1, 0, d.dis * 64 + (f % 64))

\* One round of lz16DEm, levels 1 and 3.
ReadTokenM(sec, r) ==
  LET c == At(sec.pdistanceflag, r.pdistanceflag)
      d == ReadDistance(sec, r)
      f == At(sec.pflag, r.pflag)
      l == IF ~Bit(c, 64) THEN [len |-> -1, next |-> r.pflagExx]
           ELSE ReadLength44(sec.pflagExx, r.pflagExx)
      m == ReadExcess(sec.pflagExx, l.next, f \div 32, 7)
  IN IF Bit(c, 128)
     THEN Read(r, d, 1, m.next, l.len + 1, m.len + 1, d.dis * 32 + (f % 32))
     ELSE Read(r, d, 0, l.next, l.len + 1, 0, d.dis)

ReadToken(mc, sec, r) == IF mc THEN ReadTokenMc(sec, r) ELSE ReadTokenM(sec, r)

\* while( pdistanceflag<piend ): the last flag byte is not a token.
MoreTokens(sec, r) == r.pdistanceflag < Len(sec.pdistanceflag) - 1

\* charlen of the last block, with mylz_ReadLength, and the reader behind it.
ReadLast(sec, r) ==
  LET f == At(sec.pflag, r.pflag)
      y == [k \in 0 .. Len(sec.pflag) |-> At(sec.pflag, r.pflag + 1 + k)]
      last == LastByte(y)
  IN  IF f # 15 THEN [charlen |-> f, reader |-> [r EXCEPT !.pflag = @ + 1]]
      ELSE [charlen |-> 15 + 255 * last + y[last],
            reader |-> [r EXCEPT !.pflag = @ + 2 + last]]
=============================================================================
