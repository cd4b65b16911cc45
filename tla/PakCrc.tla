--------------------------------- MODULE PakCrc ---------------------------------
(***************************************************************************)
(* The two checksums of the N64 accessory bus, computed a bit at a time by *)
(* core_pak_addr_crc5 and core_pak_data_crc8, and the address word built   *)
(* from the first.  Bytes are numbers; the registers are sequences of      *)
(* bits, the most significant first.                                       *)
(*                                                                         *)
(* Divides is the definition they are measured against: a codeword is a    *)
(* multiple of the generator over GF(2), found by long division.           *)
(***************************************************************************)
EXTENDS Integers, Sequences, SequencesExt

Bits(n, width) == [i \in 1..width |-> (n \div 2^(width - i)) % 2 = 1]

Number(bits) ==
    LET Value[n \in 0..Len(bits)] ==
          IF n = 0 THEN 0 ELSE 2 * Value[n - 1] + (IF bits[n] THEN 1 ELSE 0)
    IN  Value[Len(bits)]

CORE_PAK_ADDR_BITS == 11

Poly5 == Bits(21, 5)                    \* 0x15

Poly8 == Bits(133, 8)                   \* 0x85

Zeros(width) == [i \in 1..width |-> FALSE]

(* One turn of either loop: the bit leaving the register selects the XOR. *)
Shift(poly, reg, b) ==
    LET out == Head(reg) # b
        moved == Append(Tail(reg), FALSE)
    IN  [i \in DOMAIN reg |-> IF out THEN moved[i] # poly[i] ELSE moved[i]]

Register(poly, message) ==
    FoldLeft(LAMBDA reg, b : Shift(poly, reg, b), Zeros(Len(poly)), message)

AddrCrc5(block) == Number(Register(Poly5, Bits(block, CORE_PAK_ADDR_BITS)))

AddrEncode(block) == block * 32 + AddrCrc5(block)

DataBits(data) ==
    [i \in 1..8 * Len(data) |-> Bits(data[1 + ((i - 1) \div 8)], 8)[1 + ((i - 1) % 8)]]

DataCrc8(data) == Number(Register(Poly8, DataBits(data)))

--------------------------------------------------------------------------------

(* One step of long division: cancel the leading one of the word at i. *)
Cancel(generator, word, i) ==
    [j \in DOMAIN word |->
        IF word[i] /\ j \in i..i + Len(generator) - 1
        THEN word[j] # generator[j - i + 1] ELSE word[j]]

Divides(poly, word) ==
    LET generator == <<TRUE>> \o poly
        rest == FoldLeft(LAMBDA w, i : Cancel(generator, w, i), word,
                         [i \in 1..Len(word) - Len(poly) |-> i])
    IN  \A i \in DOMAIN rest : ~rest[i]

================================================================================
