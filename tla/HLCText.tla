----------------------------- MODULE HLCText -----------------------------
(***************************************************************************)
(* The text a stamp is stored and compared as (format and pad of           *)
(* src/src/sync/hlc.ts), digit by digit: the digits matter, because every  *)
(* comparison of versions in the sync code is "<" on these strings.        *)
(***************************************************************************)
EXTENDS HLC, Sequences

CONSTANT Base,          \* digits a position can hold (10 in the code)
         CounterWidth,  \* COUNTER_WIDTH: positions the counter is padded to
         PhysicalWidth  \* PHYSICAL_WIDTH: positions the physical part is padded to

ASSUME WidthAssumption ==
  /\ Base \in Nat \ {0, 1}
  /\ CounterWidth \in Nat \ {0}
  /\ PhysicalWidth \in Nat \ {0}

(* Base to the power of d: the numbers that d positions can hold. *)
Power[d \in Nat] == IF d = 0 THEN 1 ELSE Base * Power[d - 1]

(* The text of a stamp: pad() never truncates, so a number past its width
   takes more positions.  ':' (0x3A) sorts after every digit. *)
Separator == Base

Positions(n, width) ==
  CHOOSE d \in width..(width + n) : n < Power[d] /\ \A e \in width..(d - 1) : n >= Power[e]

(* Mutant: padStart() forgotten. *)
NoPad(n, width) ==
  LET d == Positions(n, 1)
  IN  [i \in 1..d |-> (n \div Power[d - i]) % Base]

Pad(n, width) ==
  LET d == Positions(n, width)
  IN  [i \in 1..d |-> (n \div Power[d - i]) % Base]

Format(s) ==
  Pad(s.phys, PhysicalWidth) \o <<Separator>> \o Pad(s.ctr, CounterWidth)
    \o <<Separator, s.node>>

(* JavaScript's "<" on strings. *)
TextBefore(s, t) ==
  \E i \in 1..Len(t) :
    /\ \A j \in 1..(i - 1) : j <= Len(s) /\ s[j] = t[j]
    /\ i <= Len(s) => s[i] < t[i]
==========================================================================
