---------------------------- MODULE NonceBitmap ----------------------------
(***************************************************************************)
(* The bitmap in which a Bridge remembers the deposits it has executed:    *)
(* mapping(uint8 => mapping(uint256 => uint256)) usedNonces in             *)
(* src/contracts/Bridge.sol.  A bitmap is a function                       *)
(* [Origins -> [Words -> SUBSET Bits]]: a storage word is the set of the   *)
(* positions of its 1 bits.  The deposit numbered n lives at bit n % 256   *)
(* of word n / 256.                                                        *)
(***************************************************************************)
EXTENDS Integers

WordBits == 256

Bits == 0 .. (WordBits - 1)

\* Faulty variant of Word: every nonce in the same word.
SingleWord(nonce) == 0

Word(nonce) == nonce \div WordBits

\* Faulty variant of Bit: not reduced modulo the width of a word.
UnreducedBit(nonce) == nonce

Bit(nonce) == nonce % WordBits

IsExecuted(bitmap, origin, nonce) ==
    Bit(nonce) \in bitmap[origin][Word(nonce)]

\* usedNonces[origin][nonce / 256] |= 1 << (nonce % 256)
Mark(bitmap, origin, nonce) ==
    [bitmap EXCEPT ![origin][Word(nonce)] = @ \cup {Bit(nonce)}]

\* Faulty variant of Clear: wipes the whole word.
ClearWord(bitmap, origin, nonce) ==
    [bitmap EXCEPT ![origin][Word(nonce)] = {}]

\* usedNonces[origin][nonce / 256] &= ~(1 << (nonce % 256))
Clear(bitmap, origin, nonce) ==
    [bitmap EXCEPT ![origin][Word(nonce)] = @ \ {Bit(nonce)}]

============================================================================
