------------------------------- MODULE Values --------------------------------
(***************************************************************************)
(* How the text of a cell becomes a value (internal/x/xproto/value.go) and *)
(* is checked by the options of its field (confgen/fieldprop/prop.go):     *)
(* numbers, versions, and fractions written with a decimal point.          *)
(*                                                                         *)
(* A number is known by its double, halves, so that 1.5 is 3, and by       *)
(* whether it is written with a point. An integer of 32 bits has twice     *)
(* Half32 values, one of 64 bits twice Half64. A limit of a range is given *)
(* or open (~).                                                            *)
(* A fraction is known by its ten-thousandths. Two versions of a pattern   *)
(* are compared: parts holds, of every part, the pattern's and theirs.     *)
(***************************************************************************)
EXTENDS Integers, Sequences, SequencesExt

CONSTANTS Half32,      \* how many negative numbers an int32 has
          Half64,      \* and how many an int64
          MaxHalves,   \* bound: numbers written in cells
          Limits,      \* limits that a range may give
          MaxFraction, \* bound: ten-thousandths written in cells
          MaxPart,     \* bound: of a part of a pattern or version
          MaxParts     \* bound: how many parts

ASSUME WidthsAssumption == Half32 \in Nat \ {0} /\ Half64 \in Nat \ {0}
ASSUME LimitsAssumption == Limits \subseteq Int
ASSUME ValueBoundsAssumption == MaxHalves \in Nat /\ MaxFraction \in Nat /\ MaxPart \in Nat

VARIABLES numberCell,    \* the cell of a number and the options of its field
          tenThousandths, \* the cell of a fraction
          parts          \* the cells of two versions

valueVars == <<numberCell, tenThousandths, parts>>

Open == [given |-> FALSE, at |-> 0]
Given(n) == [given |-> TRUE, at |-> n]
NoNumber == [kind |-> "int32", blank |-> TRUE, halves |-> 0, pointed |-> FALSE,
             required |-> FALSE, left |-> Open, right |-> Open]

InitValues == numberCell = NoNumber /\ tenThousandths = 0 /\ parts = <<>>

WriteNumber(kind, halves, pointed) ==
  /\ numberCell = NoNumber
  /\ halves % 2 = 1 => pointed
  /\ numberCell' = [NoNumber EXCEPT !.kind = kind, !.blank = FALSE,
                                    !.halves = halves, !.pointed = pointed]
  /\ UNCHANGED <<tenThousandths, parts>>

SetOptions(required, left, right) ==
  /\ ~numberCell.required /\ numberCell.left = Open /\ numberCell.right = Open
  /\ numberCell' = [numberCell EXCEPT !.required = required, !.left = left, !.right = right]
  /\ UNCHANGED <<tenThousandths, parts>>

WriteFraction(n) ==
  tenThousandths = 0 /\ tenThousandths' = n /\ UNCHANGED <<numberCell, parts>>

WritePart(pattern, one, other) ==
  /\ Len(parts) < MaxParts
  /\ parts' = Append(parts, [pattern |-> pattern, one |-> one, other |-> other])
  /\ UNCHANGED <<numberCell, tenThousandths>>

NumberKinds == {"int32", "uint32", "int64", "uint64"}

\* One of the three is written.
NextValues ==
  \/ /\ tenThousandths = 0 /\ parts = <<>>
     /\ \/ \E kind \in NumberKinds, halves \in (-MaxHalves)..MaxHalves, pointed \in BOOLEAN :
             WriteNumber(kind, halves, pointed)
        \/ \E required \in BOOLEAN, left, right \in {Open} \cup {Given(n) : n \in Limits} :
             SetOptions(required, left, right)
  \/ numberCell = NoNumber /\ parts = <<>> /\ \E n \in 1..MaxFraction : WriteFraction(n)
  \/ /\ numberCell = NoNumber /\ tenThousandths = 0
     /\ \E pattern, one, other \in 0..MaxPart : WritePart(pattern, one, other)

SpecValues == InitValues /\ [][NextValues]_valueVars
-----------------------------------------------------------------------------
Max64 == 2 * Half64 - 1

Lowest(kind) == CASE kind = "int32" -> -Half32
                  [] kind = "int64" -> -Half64
                  [] OTHER -> 0
Highest(kind) == CASE kind = "int32" -> Half32 - 1
                   [] kind = "uint32" -> 2 * Half32 - 1
                   [] kind = "int64" -> Half64 - 1
                   [] kind = "uint64" -> Max64

Signed(kind) == kind \in {"int32", "int64"}
Truncated(halves) == IF halves >= 0 THEN halves \div 2 ELSE -((-halves) \div 2)
GotValue(value) == [ok |-> TRUE, present |-> TRUE, value |-> value]
NoValue == [ok |-> TRUE, present |-> FALSE, value |-> 0]
Fails == [ok |-> FALSE, present |-> FALSE, value |-> 0]

\* ParseFieldValue: 32 bits are read as a float and cut off, 64 as integers.
ParseNumber(cell) ==
  IF cell.blank THEN NoValue
  ELSE IF \/ cell.halves < 2 * Lowest(cell.kind) \/ cell.halves > 2 * Highest(cell.kind)
          \/ cell.kind \in {"int64", "uint64"} /\ cell.pointed THEN Fails
  ELSE GotValue(Truncated(cell.halves))

\* CheckInRange: the limits of an unsigned field are parsed as unsigned.
LimitOk(kind, limit) == limit.given => (Signed(kind) \/ limit.at >= 0)

CheckInRange(cell, number) ==
  \/ ~cell.left.given /\ ~cell.right.given
  \/ ~number.present /\ ~cell.required
  \/ /\ LimitOk(cell.kind, cell.left) /\ LimitOk(cell.kind, cell.right)
     /\ cell.left.given => number.value >= cell.left.at
     /\ cell.right.given => number.value <= cell.right.at

CheckPresence(cell, number) == cell.required => number.present

ParseFieldValue(cell) ==
  LET number == ParseNumber(cell)
  IN IF number.ok /\ CheckPresence(cell, number) /\ CheckInRange(cell, number) THEN number
     ELSE Fails
-----------------------------------------------------------------------------
\* patternToSlice: what the parts of the pattern can count must fit 64 bits.
PatternFitsAlways(pattern) == TRUE

PatternFits(pattern) ==
  FoldLeft(LAMBDA acc, p : IF acc = 0 \/ acc > Max64 \div (p + 1) THEN 0 ELSE acc * (p + 1),
           1, pattern) # 0

VersionOk(version, pattern) ==
  PatternFits(pattern) /\ \A i \in DOMAIN pattern : version[i] <= pattern[i]

\* parseVersion: the integer form, in 64 bits.
VersionValue(version, pattern) ==
  FoldLeft(LAMBDA acc, i :
             LET sum == (acc + version[i]) % (Max64 + 1)
             IN IF i = Len(version) THEN sum ELSE (sum * (pattern[i + 1] + 1)) % (Max64 + 1),
           0, [i \in DOMAIN version |-> i])
-----------------------------------------------------------------------------
(* A fraction with a point: the double nearest to n / 10000 is multiplied   *)
(* by 10000 and cut off. Let that double be m / 2^s, where m has 53 bits.   *)
(* The product is off n by error / 2^s, and is rounded to n unless it is    *)
(* below by more than half the distance of the doubles there, which is      *)
(* 2^(c-54) if 2^(c-1) < n <= 2^c.                                          *)
MantissaBits == 53

Least(P(_), range) == CHOOSE j \in range : P(j) /\ \A k \in range : P(k) => j <= k

\* m / 2^s has its 53 bits for the least s with n * 2^s >= 10000 * 2^52.
Scale(n) == IF n < 10000
            THEN (MantissaBits - 1) + Least(LAMBDA j : n * 2^j >= 10000, 0..14)
            ELSE (MantissaBits - 1) - (Least(LAMBDA j : 10000 * 2^j > n, 0..14) - 1)

\* n * 2^s modulo 20000: the rest of 10000, and whether m is odd before rounding.
Residue(n) == FoldLeft(LAMBDA r, i : (2 * r) % 20000, n % 20000, [i \in 1..Scale(n) |-> i])

RoundingError(n) ==
  LET rest == Residue(n) % 10000
      down == rest < 5000 \/ (rest = 5000 /\ Residue(n) < 10000)
  IN IF down THEN -rest ELSE 10000 - rest

CutOff(n) ==
  LET c == Least(LAMBDA j : n <= 2^j, 0..15)
      e == Scale(n) + c - (MantissaBits + 1)
  IN IF e < 14 /\ -RoundingError(n) > (IF e < 0 THEN 0 ELSE 2^e) THEN n - 1 ELSE n

\* parseFraction: with the least of the denominators that will do.
ParseFraction(n) ==
  LET num == CutOff(n)
      unit == CHOOSE d \in {1, 10, 100, 1000, 10000} :
                num % d = 0 /\ \A e \in {1, 10, 100, 1000, 10000} : num % e = 0 => e <= d
  IN [ok |-> num # 0, num |-> num \div unit, den |-> 10000 \div unit]
-----------------------------------------------------------------------------
(* A number that is accepted is the one written, cut off at the point, lies *)
(* in its type and in the range of the option, and if the field is required *)
(* there is one; of two versions that a pattern accepts the smaller has the *)
(* smaller integer form; a fraction written with a point is the one       *)
(* written or one ten-thousandth less, with the least power of ten that it  *)
(* can have for its denominator.                                            *)
Smaller(a, b) == \E i \in DOMAIN a : a[i] < b[i] /\ \A j \in 1..(i - 1) : a[j] = b[j]

ValuesKeepMeaning ==
  /\ LET value == ParseFieldValue(numberCell)
     IN value.ok =>
          /\ value.present <=> ~numberCell.blank
          /\ numberCell.required => value.present
          /\ value.present =>
               /\ value.value \in Lowest(numberCell.kind)..Highest(numberCell.kind)
               /\ 2 * value.value - numberCell.halves \in {-1, 0, 1}
               /\ numberCell.left.given => value.value >= numberCell.left.at
               /\ numberCell.right.given => value.value <= numberCell.right.at
  /\ LET pattern == [i \in DOMAIN parts |-> parts[i].pattern]
         one == [i \in DOMAIN parts |-> parts[i].one]
         other == [i \in DOMAIN parts |-> parts[i].other]
     IN (VersionOk(one, pattern) /\ VersionOk(other, pattern)) =>
          (Smaller(one, other) <=> VersionValue(one, pattern) < VersionValue(other, pattern))
  /\ LET fraction == ParseFraction(tenThousandths)
     IN (tenThousandths # 0 /\ fraction.ok) =>
          /\ tenThousandths * fraction.den - fraction.num * 10000 \in {0, fraction.den}
          /\ \A d \in {10, 100, 1000, 10000} : fraction.den % d = 0 => fraction.num % d # 0
=============================================================================
