----------------------------- MODULE LedDriver -----------------------------
(***************************************************************************)
(* components/led_rgb/led_driver_rmt.c: the pulses led_driver_write sends  *)
(* for a frame, and, external, what a chain of WS2812 pixels makes of      *)
(* them.  A pulse is the ticks (0.1 us) the line is high, then low.        *)
(***************************************************************************)
EXTENDS LedCalls

PixelPulses == 24               \* WS2812_SYMBOLS_PER_PIXEL

Pulse(high, low) == [high |-> high, low |-> low]

\* led_driver_encode_bit.
EncodeBit(one) == IF one THEN Pulse(9, 3) ELSE Pulse(3, 9)

\* The bits of a byte, most significant first.
Weight == <<128, 64, 32, 16, 8, 4, 2, 1>>

BitSet(byte, k) == (byte \div Weight[k]) % 2 = 1

\* Mutant of Grb: the bytes go out as the structure holds them.
GrbAsStored(rgb) == rgb

\* The order a WS2812 takes the bytes in.
Grb(rgb) == <<rgb[2], rgb[1], rgb[3]>>

\* led_driver_encode_color.
EncodeColor(rgb) ==
    [n \in 1 .. PixelPulses |-> EncodeBit(BitSet(Grb(rgb)[((n - 1) \div 8) + 1], ((n - 1) % 8) + 1))]

\* What an LED is to show: nothing in the dark half of its blink period.
Shown(out) == IF out.on THEN Rgb(out.color) ELSE <<0, 0, 0>>

\* led_driver_write: the pixels' pulses in chain order.
Wire(frame) ==
    [n \in 1 .. Len(frame) * PixelPulses |->
        EncodeColor(Shown(frame[((n - 1) \div PixelPulses) + 1]))[((n - 1) % PixelPulses) + 1]]

(***************************************************************************)
(* The chain (external).  A pixel takes the first 24 pulses that reach it, *)
(* passes the others on, and reads a long high as a 1: green, red, blue.   *)
(***************************************************************************)
One(pulse) == IF pulse.high > pulse.low THEN 1 ELSE 0

ByteAt(pulses, from) ==
    LET bit(k) == Weight[k] * One(pulses[from + k])
    IN  bit(1) + bit(2) + bit(3) + bit(4) + bit(5) + bit(6) + bit(7) + bit(8)

\* The bytes r, g and b that pixel i (0 is the nearest) latches.
Latched(pulses, i) ==
    LET from == i * PixelPulses
    IN  <<ByteAt(pulses, from + 8), ByteAt(pulses, from), ByteAt(pulses, from + 16)>>
=============================================================================
