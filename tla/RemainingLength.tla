--------------------------- MODULE RemainingLength ---------------------------
(***************************************************************************)
(* The variable-length integers of MQTT (mqtt-core/src/common.rs), which   *)
(* give the length of a packet and of its properties.  A byte is a number  *)
(* below 2 * Base; its high bit says that it is at least Base.             *)
(***************************************************************************)
EXTENDS Integers, Sequences, SequencesExt

CONSTANTS
    Base,             \* one more than the largest length of one byte (128)
    MaxLengthBytes    \* MAX_REMAINING_LENGTH_BYTES (4)

ASSUME BaseAssumption == Base \in Nat \ {0, 1} /\ MaxLengthBytes \in Nat \ {0}

\* Seven bits a byte, the least significant first, until nothing is left; all but
\* the last byte have the high bit set.
EncodeLength(n) ==
    LET left[i \in 0 .. n + 1] == IF i = 0 THEN n ELSE left[i - 1] \div Base
        k == CHOOSE i \in 1 .. n + 1 : left[i] = 0 /\ \A j \in 1 .. i - 1 : left[j] # 0
    IN  [i \in 1 .. k |-> (left[i - 1] % Base) + (IF left[i] # 0 THEN Base ELSE 0)]

\* A length ends with the first byte that has no high bit, within the limit.
Ends(s) == {i \in DOMAIN s : i <= MaxLengthBytes /\ s[i] < Base}
HasLength(s) == Ends(s) # {}

\* decode_remaining_length, of a sequence that has a length: its value and the
\* number of its bytes.
DecodeLength(s) ==
    LET k == CHOOSE i \in Ends(s) : \A j \in Ends(s) : i <= j
        multiplier[i \in 0 .. k] == IF i = 0 THEN 1 ELSE multiplier[i - 1] * Base
        value[i \in 0 .. k] ==
            IF i = 0 THEN 0 ELSE value[i - 1] + (s[i] % Base) * multiplier[i - 1]
    IN  [value |-> value[k], bytes |-> k]
=============================================================================
