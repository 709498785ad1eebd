----------------------------- MODULE RpcBitmasks -----------------------------
(***************************************************************************)
(* The bit layouts and macros of src/common/rpc/esp_hosted_bitmasks.h,     *)
(* which pack WiFi config flags into one RPC word: each group names the    *)
(* bit positions of its flags (the enums), the first unused bit            *)
(* (the MAX_USED_BIT) and a mask of the bits above it that carry the     *)
(* "reserved" value (the RESERVED_BITMASK). GET_RESERVED_VAL extracts     *)
(* that value and SET_RESERVED_VAL ORs it in.                             *)
(*                                                                         *)
(* The macros are pure, so the module checks them over every input in      *)
(* range: the state is one input, fixed by Init.                           *)
(***************************************************************************)
EXTENDS Naturals, Bitwise, FiniteSets

\* A field is [pos, width]; a one-bit flag has width 1.
Flag(pos) == [pos |-> pos, width |-> 1]

\* Mutant: the station mask written as 0xFF80, one bit short of bit 6.
Layout_sta_mask_short ==
    [STA |-> [fields |-> {Flag(0), Flag(1), Flag(2), Flag(3), Flag(4), Flag(5)},
              maxUsed |-> 6, mask |-> 65408],
     SCAN_AP |-> [fields |-> {Flag(i) : i \in 0 .. 9}, maxUsed |-> 10, mask |-> 64512],
     STA_INFO |-> [fields |-> {Flag(i) : i \in 0 .. 5}, maxUsed |-> 6, mask |-> 65472],
     HE_STA |-> [fields |-> {Flag(0), [pos |-> 1, width |-> 2], [pos |-> 3, width |-> 2],
                             Flag(5), Flag(6), Flag(7), Flag(8), Flag(9)},
                 maxUsed |-> 10, mask |-> 64512],
     HE_AP_INFO |-> [fields |-> {[pos |-> 0, width |-> 6], Flag(6), Flag(7)},
                     maxUsed |-> 8, mask |-> 0]]

\* The enums and masks, group by group. HE_AP_INFO has no reserved macros.
Layout ==
    [STA |-> [fields |-> {Flag(0), Flag(1), Flag(2), Flag(3), Flag(4), Flag(5)},
              maxUsed |-> 6, mask |-> 65472],                          \* 0xFFC0
     SCAN_AP |-> [fields |-> {Flag(i) : i \in 0 .. 9},
                  maxUsed |-> 10, mask |-> 64512],                     \* 0xFC00
     STA_INFO |-> [fields |-> {Flag(i) : i \in 0 .. 5},
                   maxUsed |-> 6, mask |-> 65472],                     \* 0xFFC0
     HE_STA |-> [fields |-> {Flag(0), [pos |-> 1, width |-> 2],
                             [pos |-> 3, width |-> 2],
                             Flag(5), Flag(6), Flag(7), Flag(8), Flag(9)},
                 maxUsed |-> 10, mask |-> 64512],                      \* 0xFC00
     HE_AP_INFO |-> [fields |-> {[pos |-> 0, width |-> 6], Flag(6), Flag(7)},
                     maxUsed |-> 8, mask |-> 0]]

\* WIFI_HE_AP_INFO_BSS_COLOR_BITS: the six-bit bss_color field.
WIFI_HE_AP_INFO_BSS_COLOR_BITS == 63                                   \* 0x3F

\* The groups that have GET/SET_RESERVED_VAL macros.
ReservedGroups == {"STA", "SCAN_AP", "STA_INFO", "HE_STA"}

\* The RPC word the masks are written for.
WordBits == 16

FieldMask(f) == (2^f.width - 1) * 2^f.pos

H_SET_BIT(pos, val) == val | 2^pos

H_GET_BIT(pos, val) == IF (val & 2^pos) # 0 THEN 1 ELSE 0

\* Mutant: the extraction shifts by one bit less than *_MAX_USED_BIT.
GET_RESERVED_VAL_short_shift(g, num) ==
    shiftR(num & Layout[g].mask, Layout[g].maxUsed - 1)

\* *_GET_RESERVED_VAL(num): ((num & MASK) >> MAX_USED_BIT).
GET_RESERVED_VAL(g, num) ==
    shiftR(num & Layout[g].mask, Layout[g].maxUsed)

\* Mutant: the reserved value is shifted one bit too far.
SET_RESERVED_VAL_long_shift(g, reserved_in, num_out) ==
    num_out | (reserved_in * 2^(Layout[g].maxUsed + 1))

\* *_SET_RESERVED_VAL(reserved_in, num_out): num_out |= reserved_in << MAX_USED_BIT.
SET_RESERVED_VAL(g, reserved_in, num_out) ==
    num_out | (reserved_in * 2^Layout[g].maxUsed)

-----------------------------------------------------------------------------
VARIABLES group, flags, reserved

vars == <<group, flags, reserved>>

\* Every group, and every reserved value that fits above MAX_USED_BIT in the
\* word (none for HE_AP_INFO), with the flag bits all clear, all set, and
\* alternating.
Init ==
    /\ group \in DOMAIN Layout
    /\ LET used == 2^Layout[group].maxUsed - 1
       IN  flags \in {0, used, used & 21845}                            \* 0x5555
    /\ reserved \in IF group \in ReservedGroups
                    THEN 0 .. 2^(WordBits - Layout[group].maxUsed) - 1
                    ELSE {0}

Next == UNCHANGED vars

Spec == Init /\ [][Next]_vars

-----------------------------------------------------------------------------
\* The inputs, and the word SET_RESERVED_VAL builds from them, fit the
\* 16-bit RPC word.
TypeOK ==
    /\ group \in DOMAIN Layout
    /\ flags \in 0 .. 2^WordBits - 1
    /\ reserved \in 0 .. 2^WordBits - 1
    /\ SET_RESERVED_VAL(group, reserved, flags) \in 0 .. 2^WordBits - 1

(* The layouts agree with themselves: in each group the fields of the      *)
(* enum are pairwise disjoint and fill exactly the bits below              *)
(* *_MAX_USED_BIT, the reserved mask is exactly the bits from              *)
(* *_MAX_USED_BIT to the top of the 16-bit word, and                       *)
(* WIFI_HE_AP_INFO_BSS_COLOR_BITS covers exactly the bss_color field.      *)
LayoutConsistent ==
    LET L == Layout[group]
    IN  /\ \A f1, f2 \in L.fields : f1 # f2 => (FieldMask(f1) & FieldMask(f2)) = 0
        /\ \A f \in L.fields : f.pos + f.width <= L.maxUsed
        /\ \A i \in 0 .. L.maxUsed - 1 :
               \E f \in L.fields : f.pos <= i /\ i < f.pos + f.width
        /\ group \in ReservedGroups => L.mask = 2^WordBits - 2^L.maxUsed
        /\ group = "HE_AP_INFO" =>
               WIFI_HE_AP_INFO_BSS_COLOR_BITS
                   = FieldMask(CHOOSE f \in L.fields : f.pos = 0)

(* Round trip of the RPC encoding: a reserved value that fits in the       *)
(* reserved bits, set into a word whose flag bits are already packed,      *)
(* reads back unchanged with GET_RESERVED_VAL, and every flag bit keeps    *)
(* its value under H_GET_BIT; setting a flag with H_SET_BIT afterwards     *)
(* leaves the reserved value alone.                                        *)
ReservedRoundTrip ==
    group \in ReservedGroups =>
    LET word == SET_RESERVED_VAL(group, reserved, flags)
    IN  /\ GET_RESERVED_VAL(group, word) = reserved
        /\ \A i \in 0 .. Layout[group].maxUsed - 1 :
               /\ H_GET_BIT(i, word) = H_GET_BIT(i, flags)
               /\ GET_RESERVED_VAL(group, H_SET_BIT(i, word)) = reserved
=============================================================================
