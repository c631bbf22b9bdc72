--------------------------- MODULE Lz16Interface ----------------------------
(***************************************************************************)
(* mylz16Encode and mylz16Decode (lib/c/lz16.c) with the frame that the    *)
(* encoders of lib/c/lz16encode.c have in common: buffer check, capacities *)
(* of the sections, overflow, retry, stored blocks, heads, and for levels  *)
(* 2 and 4 the packing of RansSections, whose actions are used as they     *)
(* are.  Of a block the model keeps lengths and positions; that tokens and *)
(* words are decoded as they were coded is shown by Lz16Codec and Lz16.    *)
(***************************************************************************)
EXTENDS RansSections

CONSTANTS Calls   \* records [inlen, outlen, level, zeroed, keep, len]: the arguments,
                  \* whether the buffer is clear, whether the caller keeps all of the
                  \* "buffer" or as many bytes as are "returned", and the section
                  \* lengths that the search will come to

\* What SectionsKeepShare of Lz16Codec says of the lengths of a block: with t
\* tokens and a last block, matches have two words each at least, and without
\* a token the whole input is literal.
Words(inlen) == (inlen + 1) \div 2
Feasible(inlen, l) ==
  LET t == l[1] - 1
  IN  /\ \A s \in Sections \ {2} : l[s] > 0
      /\ l[0] % 2 = 0
      /\ IF t = 0 THEN l[0] = 2 * Words(inlen) ELSE l[0] \div 2 + 2 * t <= Words(inlen)
      /\ l[2] <= 2 * t
      /\ l[3] <= t + 2 + l[0] \div 510
      /\ l[4] <= Words(inlen) \div 2

ASSUME CallsAssumption ==
  \A c \in Calls :
    /\ c.inlen \in Nat /\ c.outlen \in Nat /\ c.level \in 1 .. 4 /\ c.zeroed \in BOOLEAN
    /\ c.keep \in {"buffer", "returned"} /\ c.len \in [Sections -> Nat]
    /\ c.inlen > 8 => Feasible(c.inlen, c.len)
    /\ \A s \in Sections : \A k \in EncodedLengths(c.len[s]) :
         k \in Nat /\ IsEncodedLength(k, c.len[s])

LIMIT_LEN == 8
MYREST_LEN == 8
SECTION_OVER == -10000

VARIABLES call,       \* the call under way
          outlenEx,   \* the length that the encoder is told
          flag,       \* whether a retry is left
          lz,         \* what the encoder returned
          items,      \* of the head at *pout; -1: nobody has written a head
          spilled,    \* something was stored behind the buffer
          stale,      \* bits were added to memory that had not been cleared
          ret,        \* what mylz16Encode returns
          got         \* "input" or "other": what mylz16Decode makes of it

callvars == <<call, outlenEx, flag, lz, items, spilled, stale, ret, got>>
vars == <<constvars, packvars, callvars, pc>>

Init ==
  /\ call \in Calls
  /\ outlen = call.outlen /\ outlenEx = call.outlen
  /\ flag = TRUE /\ lz = 0 /\ items = -1
  /\ spilled = FALSE /\ stale = FALSE
  /\ ret = 0 /\ got = "none"
  /\ len = [s \in Sections |-> 0]
  /\ PackInit
  /\ pc = "call"

-----------------------------------------------------------------------------
(* mylz16Encode.                                                           *)

\* The tests of lines 22 and 23.
refuse ==
  /\ pc = "call"
  /\ \/ call.inlen <= LIMIT_LEN /\ ret' = 0
     \/ call.inlen > LIMIT_LEN /\ outlen < 2 * call.inlen /\ ret' = -2
  /\ pc' = "refused"
  /\ UNCHANGED <<constvars, packvars, call, outlenEx, flag, lz, items, spilled, stale, got>>

accept ==
  /\ pc = "call"
  /\ call.inlen > LIMIT_LEN /\ outlen >= 2 * call.inlen
  /\ pc' = "block"
  /\ UNCHANGED <<constvars, packvars, callvars>>

\* CheckBuffer refuses the buffer, before there is a head.
check_buffer ==
  /\ pc = "block" /\ outlenEx < 1024
  /\ lz' = -10
  /\ pc' = "coded"
  /\ UNCHANGED <<constvars, packvars, call, outlenEx, flag, items, spilled, stale, ret, got>>

\* The hash table cannot be allocated, after the head was begun: ph->offset is
\* set, the rest cleared.  lz16ENhashDmc does not test it.
no_memory ==
  /\ pc = "block" /\ outlenEx >= 1024
  /\ IF call.level = 4 THEN pc' = "null" /\ UNCHANGED <<lz, items>>
     ELSE pc' = "coded" /\ lz' = -100 /\ items' = 0
  /\ UNCHANGED <<constvars, packvars, call, outlenEx, flag, spilled, stale, ret, got>>

Islarge == IF 2 * outlenEx >= 5 * call.inlen THEN 1 ELSE 0

savelen_more(s, f) ==
  LET n == call.inlen
  IN  CASE s = 0 -> (n * 3) \div 4 + f * (n \div 4) + (n % 2) + MYREST_LEN
        [] s = 2 -> n \div 2 + f * (n \div 4) + MYREST_LEN
        [] OTHER -> n \div 4 + f * (n \div 16) + MYREST_LEN

\* mylz16ENheadInitsectionlen: the capacities of the sections.
savelen(s, f) ==
  LET n == call.inlen
  IN  CASE s = 0 -> (n * 3) \div 4 + f * (n \div 4) + (n % 2) + MYREST_LEN
        [] s = 2 -> n \div 2 + f * (n \div 8) + MYREST_LEN
        [] OTHER -> n \div 4 + f * (n \div 16) + MYREST_LEN

pbuf(s, f) == HeadLen + FirstLens([k \in Sections |-> savelen(k, f)], s)

Total(l) == FirstLens(l, MYSECTION_COUNT)

\* An encoder: it writes the sections at their places, without looking at the
\* capacities; pflagExx, which it only adds bits to, may reach beyond the
\* 2 * inlen bytes that CheckBuffer has cleared.  mylz16GetCharlen then finds a
\* section that is over its capacity, or the sections are moved together.
encode_block ==
  /\ pc = "block" /\ outlenEx >= 1024
  /\ LET l == call.len
         f == Islarge
         cleared == IF call.zeroed THEN outlen ELSE 2 * call.inlen
         over == \E s \in Sections : l[s] > savelen(s, f)
     IN  /\ len' = l
         /\ spilled' = (spilled \/ \E s \in Sections : pbuf(s, f) + l[s] > outlen)
         /\ stale' = (pbuf(4, f) + l[4] > cleared)
         /\ IF over THEN lz' = (IF f = 1 THEN -1 ELSE SECTION_OVER) /\ items' = 0
            ELSE lz' = HeadLen + Total(l) /\ items' = 1
  /\ pc' = "coded"
  /\ UNCHANGED <<outlen, packvars, call, outlenEx, flag, ret, got>>

\* The retry: the encoder is told a length of 2.5 * inlen + 4, and that much is
\* allocated, but the loop starts with po=*pout again, and the memcpy behind it
\* copies the buffer onto itself.  (ph->len is the sum of
\* the capacities behind pchar, over 1.1 * inlen in any case.)
retry ==
  /\ pc = "coded" /\ lz = SECTION_OVER /\ flag
  /\ flag' = FALSE
  /\ outlenEx' = (5 * call.inlen) \div 2 + 4
  /\ pc' = "block"
  /\ UNCHANGED <<constvars, packvars, call, lz, items, spilled, stale, ret, got>>

store_keeping_items ==
  /\ pc = "coded" /\ ~(lz = SECTION_OVER /\ flag)
  /\ lz >= call.inlen \/ lz < 0
  /\ ret' = HeadLen + call.inlen
  /\ spilled' = (spilled \/ HeadLen + call.inlen > outlen)
  /\ stale' = (items = -1)
  /\ pc' = "returned"
  /\ UNCHANGED <<constvars, packvars, call, outlenEx, flag, lz, items, got>>

\* "not compress!": the head length is ph->offset, whatever it is.  Without a
\* head it is a byte of the caller's buffer.
store ==
  /\ pc = "coded" /\ ~(lz = SECTION_OVER /\ flag)
  /\ lz >= call.inlen \/ lz < 0
  /\ items' = 0
  /\ ret' = HeadLen + call.inlen
  /\ spilled' = (spilled \/ HeadLen + call.inlen > outlen)
  /\ stale' = (items = -1)
  /\ pc' = "returned"
  /\ UNCHANGED <<constvars, packvars, call, outlenEx, flag, lz, got>>

Smaller == pc = "coded" /\ lz >= 0 /\ lz < call.inlen

\* Levels 1 and 3.
return_lz16 ==
  /\ Smaller /\ call.level % 2 = 1
  /\ ret' = lz
  /\ pc' = "returned"
  /\ UNCHANGED <<constvars, packvars, call, outlenEx, flag, lz, items, spilled, stale, got>>

\* Levels 2 and 4: mylz16torans64 starts.
pack ==
  /\ Smaller /\ call.level % 2 = 0
  /\ pc' = "encode"
  /\ UNCHANGED <<constvars, packvars, callvars>>

pack_section == (copy_section \/ code_section \/ code_empty_section) /\ UNCHANGED callvars

\* mylz16torans64 returns 0, and the LZ16 block is used.
pack_nothing ==
  /\ return_uncoded
  /\ ret' = lz
  /\ UNCHANGED <<call, outlenEx, flag, lz, items, spilled, stale, got>>

\* phrans->myTotalbytes: the rANS head and what follows.  The copy of the LZ16
\* head in front of it is not counted.
pack_heads ==
  /\ write_heads
  /\ items' = 2
  /\ ret' = HeadLen + sum + sum_notrans
  /\ UNCHANGED <<call, outlenEx, flag, lz, spilled, stale, got>>

-----------------------------------------------------------------------------
(* mylz16Decode.                                                           *)

unpack_section == decode_section /\ UNCHANGED callvars

BlockBytes == CASE items = 0 -> HeadLen + call.inlen
                [] items = 1 -> HeadLen + Total(len)
                [] items = 2 -> 2 * HeadLen + sum + sum_notrans

\* A block is restored if it is what the encoder meant to write, and complete.
\* What is made of a spilled or stale block depends on bytes nobody controls.
\* A stored block is read as such only if its head says so.
Outcomes(kept) ==
  LET stored == lz >= call.inlen \/ lz < 0
  IN  IF spilled \/ stale THEN {"input", "other"}
      ELSE IF BlockBytes > kept \/ (stored # (items = 0)) THEN {"other"}
      ELSE {"input"}

mylz16Decode ==
  /\ pc \in {"returned", "lz16"} \/ (pc = "decode" /\ i = MYSECTION_COUNT)
  /\ got' \in Outcomes(IF call.keep = "buffer" THEN outlen ELSE ret)
  /\ pc' = "done"
  /\ UNCHANGED <<constvars, packvars, call, outlenEx, flag, lz, items, spilled, stale, ret>>

Next ==
  \/ refuse \/ accept \/ check_buffer \/ no_memory \/ encode_block \/ retry \/ store
  \/ return_lz16 \/ pack \/ pack_section \/ pack_nothing \/ pack_heads
  \/ unpack_section \/ mylz16Decode

Spec == Init /\ [][Next]_vars

-----------------------------------------------------------------------------

\* 2.5 * inlen + 90 bytes: what the layout of the larger sections may take.
HasRoom == outlen >= 1024 /\ 2 * outlen >= 5 * call.inlen + 180

\* With that much room the encoder takes the layout of the larger sections at
\* once, for which there is no overflow and no retry: neither its sections nor a
\* stored block end behind the caller's buffer, for all section lengths that
\* tokens can lead to.
EncoderInBuffer == HasRoom => ~spilled

\* Whenever mylz16Decode is reached, what it makes of the block is the input, for
\* every outcome of the encoder - smaller, not smaller, no memory at levels 1 to
\* 3, rANS used or not - if the buffer has room and was clear, and the caller
\* keeps all of it, or the block has not gone through rANS.  Each of these
\* conditions is needed.  Calls that do not return, for the null pointer of level
\* 4 or the division by zero of an empty section (EveryTableSums), are not spoken
\* of.
LosslessWithRoom ==
  pc = "done" /\ HasRoom /\ call.zeroed /\ (call.keep = "buffer" \/ items < 2) => got = "input"

\* README.md:2, "LZ16 is a lossless compression algorithm": of every call that is
\* not refused.
Lossless == pc = "done" => got = "input"
=============================================================================
