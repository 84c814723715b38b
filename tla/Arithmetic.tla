------------------------------ MODULE Arithmetic ------------------------------
(***************************************************************************)
(* TeX's numbers: the constants and internal quantities of                 *)
(* engine/integers.py and engine/dimensions.py, the registers and their    *)
(* arithmetic of engine/primitives/registers.py, and the printing of       *)
(* quantities.  The program computes dimensions as exact fractions and     *)
(* checks the result; TeX computes them in two machine words with          *)
(* truncations on the way.  A command that fails leaves no trace.          *)
(*                                                                         *)
(* The sizes are constants, for TLC's integers have 32 bits themselves: a  *)
(* scaled point is 1/Unity of a point, MaxDimen is Limit * Unity - 1.  A   *)
(* result is a set: of the value, or empty when the code raises.           *)
(*                                                                         *)
(* true, trueMag and failed are TeX's, as tex.web computes them.           *)
(***************************************************************************)
EXTENDS Integers, Sequences, SequencesExt

CONSTANTS
  Unity,        (* 65536.                                                     *)
  Limit,        (* 16384.                                                     *)
  MaxInteger,   (* 2147483647.                                                *)
  Numbers,      (* [negative, radix, digits]; radix 0 for \dimen0 instead.    *)
  Dimensions,   (* [negative, whole, fraction, unit, physical].               *)
  Widths,       (* The dimensions among them that glue starts with.          *)
  Stretches,    (* [negative, whole, fraction, order]: order 0 without fil.   *)
  Magnifications,
  MaxOps        (* Bound on the commands of a behaviour.                      *)

VARIABLES
  registers,    (* \count0, \dimen0 and \skip0.                               *)
  mag, prepared, (* \mag, and the magnification true units were used with.   *)
  refused,      (* The last command raised.                                   *)
  ops,          (* The commands so far, up to MaxOps.                         *)
  true, failed  (* TeX's registers, and whether the last command is an error. *)

vars == <<registers, mag, prepared, refused, ops, true, failed>>

MaxDimen == Limit * Unity - 1
UNITS == [pt |-> <<1, 1>>, pc |-> <<12, 1>>, in |-> <<7227, 100>>, bp |-> <<7227, 7200>>,
          cm |-> <<7227, 254>>, mm |-> <<7227, 2540>>, dd |-> <<1238, 1157>>, cc |-> <<14856, 1157>>,
          sp |-> <<1, Unity>>]
None == 0

Glue(width, stretch, so, shrink, sho) ==
  [width |-> width, stretch |-> stretch, so |-> so, shrink |-> shrink, sho |-> sho]

Init ==
  /\ registers = [count |-> 0, dimen |-> 0, skip |-> Glue(0, 0, 0, 0, 0)]
  /\ mag = 1000 /\ prepared = None
  /\ refused = FALSE /\ ops = 0
  /\ true = registers /\ failed = FALSE

-----------------------------------------------------------------------------
(* The program's arithmetic. *)

Abs(n) == IF n < 0 THEN -n ELSE n
Signed(negative, n) == IF negative THEN -n ELSE n
InRange(n, max) == -max <= n /\ n <= max

checked(n, max) == IF InRange(n, max) THEN {n} ELSE {}

trunc_div(n, d) ==
  IF d = 0 THEN {} ELSE {Signed((n < 0) # (d < 0), Abs(n) \div Abs(d))}

(* _integer: the digits up to the first that the radix does not have.      *)
integer(lit) ==
  LET stop == SelectInSeq(lit.digits, LAMBDA d : d >= lit.radix)
      prefix == IF stop = 0 THEN lit.digits ELSE SubSeq(lit.digits, 1, stop - 1)
      value == FoldLeft(LAMBDA v, d : IF v < 0 \/ v * lit.radix + d > MaxInteger
                                        THEN -1 ELSE v * lit.radix + d, 0, prefix)
  IN  IF lit.radix = 0 THEN {Signed(lit.negative, registers.dimen)}
      ELSE IF prefix = <<>> \/ value < 0 THEN {} ELSE {Signed(lit.negative, value)}

Decimals(fraction) == FoldLeft(LAMBDA v, d : 10 * v + d, 0, fraction)

(* The decimal fraction, rounded to a scaled point. *)
Rounded(fraction) ==
  LET d == 10 ^ Len(fraction) IN (Decimals(fraction) * Unity * 2 + d) \div (2 * d)

(* Mutant of Magnified: both ratios at once. *)
MagnifiedLate(scaled, m, num, den) == (scaled * 1000 * num) \div (m * den)

(* The magnification truncates before the unit does. *)
Magnified(scaled, m, num, den) == (((scaled * 1000) \div m) * num) \div den

(* A constant with a physical unit, under the magnification m. *)
Physical(lit, m) ==
  LET scaled == lit.whole * Unity + Rounded(lit.fraction)
      ratio == UNITS[lit.unit]
      value == IF lit.unit # "sp" THEN Magnified(scaled, m, ratio[1], ratio[2])
               ELSE IF m = 1000 THEN lit.whole ELSE ((scaled * 1000) \div m) \div Unity
  IN  checked(Signed(lit.negative, value), MaxDimen)

(* A constant times an internal dimension. *)
Relative(lit, v) ==
  LET scaled == lit.whole * Unity + Rounded(lit.fraction)
  IN  checked(Signed(lit.negative # (v < 0), (scaled * Abs(v)) \div Unity), MaxDimen)

(* dimension, without fil: true units are refused under another            *)
(* magnification than they were used with before.                          *)
MagnificationOK == InRange(mag - 1, 32767) /\ mag >= 1 /\ prepared \in {None, mag}
dimension(lit) ==
  IF lit.unit = "register" THEN Relative(lit, registers.dimen)
  ELSE IF ~lit.physical THEN Physical(lit, 1000)
  ELSE IF MagnificationOK THEN Physical(lit, mag) ELSE {}

stretch(lit) ==
  { <<n, lit.order>> : n \in checked(Signed(lit.negative, lit.whole * Unity + Rounded(lit.fraction)), MaxDimen) }

glue(width, p, m) ==
  { Glue(w, s[1], s[2], h[1], h[2]) : w \in dimension(width), s \in stretch(p), h \in stretch(m) }

added(a, ao, b, bo) ==
  IF a = 0 THEN {<<b, IF b = 0 THEN 0 ELSE bo>>}
  ELSE IF b = 0 THEN {<<a, ao>>}
  ELSE IF ao = bo THEN { <<n, ao>> : n \in checked(a + b, MaxDimen) }
  ELSE IF ao > bo THEN {<<a, ao>>} ELSE {<<b, bo>>}

plus(g, h) ==
  { Glue(w, p[1], p[2], m[1], m[2]) :
      w \in checked(g.width + h.width, MaxDimen),
      p \in added(g.stretch, g.so, h.stretch, h.so), m \in added(g.shrink, g.sho, h.shrink, h.sho) }

times(v, n, divide, max) == IF divide THEN trunc_div(v, n) ELSE checked(v * n, max)

scaled(g, n, divide) ==
  { Glue(w, p, g.so, m, g.sho) : w \in times(g.width, n, divide, MaxDimen),
      p \in times(g.stretch, n, divide, MaxDimen), m \in times(g.shrink, n, divide, MaxDimen) }

(* Printed: the digits behind the point, as print_scaled finds them. *)
Printed(n) ==
  LET digit[fraction \in Nat, delta \in Nat, k \in Nat] ==
        LET f == IF delta > Unity THEN fraction + Unity \div 2 - delta \div 2 ELSE fraction
            rest == 10 * (f % Unity)
        IN  <<f \div Unity>> \o (IF k = 0 \/ rest <= 10 * delta THEN <<>> ELSE digit[rest, 10 * delta, k - 1])
  IN  digit[10 * (Abs(n) % Unity) + 5, 10, 9]

-----------------------------------------------------------------------------
(* tex.web: round_decimals, xn_over_d and scan_dimen keep whole points and *)
(* the fraction apart and report an overflow where it happens; advance of  *)
(* glue works on a copy of the specification that is added.                *)

RoundDecimals(fraction) ==
  (FoldRight(LAMBDA d, a : (a + d * 2 * Unity) \div 10, fraction, 0) + 1) \div 2

Attached(cv, f) == IF cv >= Limit THEN {} ELSE checked(cv * Unity + f, MaxDimen)

TrueDimension(lit, truth) ==
  LET f0 == RoundDecimals(lit.fraction)
      m == IF lit.physical THEN mag ELSE 1000
      f1 == (1000 * f0 + Unity * ((lit.whole * 1000) % m)) \div m
      cv == IF m = 1000 THEN lit.whole ELSE (lit.whole * 1000) \div m + f1 \div Unity
      f == IF m = 1000 THEN f0 ELSE f1 % Unity
      num == UNITS[lit.unit][1]
      den == UNITS[lit.unit][2]
      g == (num * f + Unity * ((cv * num) % den)) \div den
      v == Abs(truth.dimen)
      found == CASE lit.unit = "register" ->
                      checked(lit.whole * v + (v * f0) \div Unity, MaxDimen)
                 [] lit.unit = "sp" -> checked(cv, MaxDimen)
                 [] lit.unit = "pt" -> Attached(cv, f)
                 [] OTHER -> Attached((cv * num) \div den + g \div Unity, g % Unity)
  IN  IF lit.physical /\ ~MagnificationOK THEN {}
      ELSE { Signed(lit.negative # (lit.unit = "register" /\ truth.dimen < 0), n) : n \in found }

TrueStretch(lit) ==
  { <<Signed(lit.negative, n), lit.order>> : n \in Attached(lit.whole, RoundDecimals(lit.fraction)) }

(* The value of the longest prefix of digits. *)
TrueInteger(lit, truth) ==
  LET wrong == { i \in DOMAIN lit.digits : lit.digits[i] >= lit.radix }
      last == CHOOSE n \in 0..Len(lit.digits) :
                /\ \A i \in wrong : n < i
                /\ n = Len(lit.digits) \/ n + 1 \in wrong
      value == FoldRight(LAMBDA i, v : v + lit.digits[i] * lit.radix ^ (last - i), [i \in 1..last |-> i], 0)
  IN  IF lit.radix = 0 THEN {Signed(lit.negative, truth.dimen)}
      ELSE IF last = 0 \/ value > MaxInteger THEN {} ELSE {Signed(lit.negative, value)}

TrueGlue(width, p, m, truth) ==
  { Glue(w, s[1], s[2], h[1], h[2]) :
      w \in TrueDimension(width, truth), s \in TrueStretch(p), h \in TrueStretch(m) }

(* The part of the new specification, the amount's, combined with the old. *)
Combined(old, oo, new, no) ==
  LET order == IF new = 0 THEN 0 ELSE no
  IN  IF order = oo THEN <<new + old, order>>
      ELSE IF order < oo /\ old # 0 THEN <<old, oo>> ELSE <<new, order>>

TrueSum(old, new) ==
  LET p == Combined(old.stretch, old.so, new.stretch, new.so)
      m == Combined(old.shrink, old.sho, new.shrink, new.sho)
  IN  { Glue(w, p[1], p[2], m[1], m[2]) : w \in checked(old.width + new.width, MaxDimen) }

(* x_over_n and nx_plus_y. *)
TrueTimes(v, n, divide, max) ==
  LET x == IF n < 0 THEN -v ELSE v
  IN  IF ~divide THEN checked(v * n, max)
      ELSE IF n = 0 THEN {} ELSE IF x >= 0 THEN {x \div Abs(n)} ELSE {-((-x) \div Abs(n))}

TrueScaled(g, n, divide) ==
  { Glue(w, p, g.so, m, g.sho) : w \in TrueTimes(g.width, n, divide, MaxDimen),
      p \in TrueTimes(g.stretch, n, divide, MaxDimen), m \in TrueTimes(g.shrink, n, divide, MaxDimen) }

-----------------------------------------------------------------------------
(* A command publishes its result or, refused, nothing. *)
Command(kind, results, truth) ==
  /\ ~refused /\ ops < MaxOps
  /\ ops' = ops + 1
  /\ refused' = (results = {}) /\ failed' = (truth = {})
  /\ registers' \in { [registers EXCEPT ![kind] = v] : v \in results }
                       \cup { registers : r \in IF results = {} THEN {0} ELSE {} }
  /\ true' \in { [true EXCEPT ![kind] = v] : v \in truth } \cup { true : r \in IF truth = {} THEN {0} ELSE {} }

Prepares(lit, results) == prepared' = IF lit.physical /\ results # {} THEN mag ELSE prepared

SetMagnification(m) ==
  /\ ~refused
  /\ mag' = m
  /\ UNCHANGED <<registers, prepared, refused, ops, true, failed>>

Limits == [count |-> MaxInteger, dimen |-> MaxDimen]
Sum(kind, n) == checked(registers[kind] + n, Limits[kind])
TrueSumOf(kind, n) == checked(true[kind] + n, Limits[kind])

AssignCount(lit) ==
  Command("count", integer(lit), TrueInteger(lit, true)) /\ UNCHANGED <<mag, prepared>>
AdvanceCount(lit) ==
  /\ Command("count", UNION { Sum("count", n) : n \in integer(lit) },
              UNION { TrueSumOf("count", n) : n \in TrueInteger(lit, true) })
  /\ UNCHANGED <<mag, prepared>>

AssignDimen(lit) ==
  /\ Command("dimen", dimension(lit), TrueDimension(lit, true))
  /\ Prepares(lit, dimension(lit)) /\ UNCHANGED mag
AdvanceDimen(lit) ==
  LET results == UNION { Sum("dimen", n) : n \in dimension(lit) }
  IN  /\ Command("dimen", results, UNION { TrueSumOf("dimen", n) : n \in TrueDimension(lit, true) })
      /\ Prepares(lit, results) /\ UNCHANGED mag

AssignSkip(width, p, m) ==
  /\ Command("skip", glue(width, p, m), TrueGlue(width, p, m, true))
  /\ Prepares(width, glue(width, p, m)) /\ UNCHANGED mag
AdvanceSkip(width, p, m) ==
  LET results == UNION { plus(registers.skip, g) : g \in glue(width, p, m) }
  IN  /\ Command("skip", results, UNION { TrueSum(true.skip, g) : g \in TrueGlue(width, p, m, true) })
      /\ Prepares(width, results) /\ UNCHANGED mag

(* multiply and divide, by an integer. *)
Scale(kind, lit, divide) ==
  /\ IF kind = "skip"
       THEN Command(kind, UNION { scaled(registers.skip, n, divide) : n \in integer(lit) },
                    UNION { TrueScaled(true.skip, n, divide) : n \in TrueInteger(lit, true) })
       ELSE Command(kind, UNION { times(registers[kind], n, divide, Limits[kind]) : n \in integer(lit) },
                    UNION { TrueTimes(true[kind], n, divide, Limits[kind]) : n \in TrueInteger(lit, true) })
  /\ UNCHANGED <<mag, prepared>>

Next ==
  \/ \E m \in Magnifications : SetMagnification(m)
  \/ \E lit \in Numbers : AssignCount(lit) \/ AdvanceCount(lit)
  \/ \E lit \in Dimensions : AssignDimen(lit) \/ AdvanceDimen(lit)
  \/ \E width \in Widths, p, m \in Stretches : AssignSkip(width, p, m) \/ AdvanceSkip(width, p, m)
  \/ \E kind \in DOMAIN registers, lit \in Numbers, divide \in BOOLEAN : Scale(kind, lit, divide)

Spec == Init /\ [][Next]_vars

-----------------------------------------------------------------------------
(* A command that is not refused leaves what TeX computes, and none is      *)
(* refused unless TeX reports an error or the sum leaves the range of the   *)
(* quantity.  Truncations happen where TeX's do, and nothing wraps.        *)
NumbersAsTeX ==
  /\ ~refused => ~failed /\ registers = true
  /\ refused => failed \/ ~InRange(true.skip.stretch, MaxDimen) \/ ~InRange(true.skip.shrink, MaxDimen)

(* \the of a dimension, read again, is the dimension. *)
PrintsReadBack ==
  \A n \in {registers.dimen, registers.skip.width, registers.skip.stretch} :
    (Abs(n) \div Unity) * Unity + Rounded(Printed(n)) = Abs(n)
=============================================================================
