-------------------------- MODULE PacketNumbering --------------------------
(***************************************************************************)
(* AudioPacketManager (audio/oboe.rs): what the receiver of an unreliable  *)
(* stream makes of the number of a packet.  One bit of the number,         *)
(* WRAP_BYTE_MASK, is taken for a wrap flag and the others for the count.  *)
(* How many packets a gap stands for is only logged and left out, as is    *)
(* the overflow of the 32-bit number.                                      *)
(***************************************************************************)
EXTENDS Integers

CONSTANT Half   \* WRAP_BYTE_MASK

ASSUME HalfAssumption == Half \in Nat \ {0}

(* expected_next_packet_count and expected_next_counter_wrap_byte.         *)
FirstExpected == [count |-> 0, wrap |-> FALSE]

Wrap(n)  == (n \div Half) % 2 = 1
Count(n) == IF Wrap(n) THEN n - Half ELSE n

After(e, count) ==
    IF count + 1 = Half THEN [count |-> 0, wrap |-> ~e.wrap]
                        ELSE [e EXCEPT !.count = count + 1]

(* A bug: off by one in the comparison when the wrap flag has changed.     *)
CheckPacketTakesEqual(e, n) ==
    IF e.wrap = Wrap(n)
    THEN IF Count(n) < e.count THEN [status |-> "Discard", next |-> e]
         ELSE [status |-> "Normal", next |-> After(e, Count(n))]
    ELSE IF Count(n) <= e.count
         THEN [status |-> "PacketLoss", next |-> [count |-> Count(n) + 1, wrap |-> Wrap(n)]]
         ELSE [status |-> "Discard", next |-> e]

CheckPacket(e, n) ==
    LET Take(status, next) == [status |-> status, next |-> next]
        count == Count(n)
    IN CASE e.wrap = Wrap(n) /\ count = e.count -> Take("Normal", After(e, count))
         [] e.wrap = Wrap(n) /\ count > e.count -> Take("PacketLoss", After(e, count))
         [] e.wrap # Wrap(n) /\ count < e.count ->
                Take("PacketLoss", [count |-> count + 1, wrap |-> Wrap(n)])
         [] OTHER -> Take("Discard", e)
=============================================================================
