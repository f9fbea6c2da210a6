---------------------------- MODULE PasswordTools ----------------------------
(***************************************************************************)
(* The generator and the validator of passwords (backend/app/services/     *)
(* password_generator.py, password_validator.py, core/security.py).        *)
(*                                                                         *)
(* A password is its length, the classes of its characters, and whether a  *)
(* character stands next to itself, or twice, or three follow one another  *)
(* in the alphabet.  What random choices can yield is a set of passwords.  *)
(***************************************************************************)
EXTENDS Integers

Classes == {"lower", "upper", "digit", "special"}
Password(lengths, has) ==
  {p \in [length : lengths, has : has, pair : BOOLEAN, triple : BOOLEAN, run : BOOLEAN] :
     p.triple => p.pair}

\* Which classes an exclusion takes characters from.
Struck(similar, ambiguous) ==
  (IF similar THEN {"lower", "upper", "digit"} ELSE {})
    \cup (IF ambiguous THEN {"special"} ELSE {})

\* Faulty variant: the character required of a class is filtered whatever was asked.
GeneratedFiltered(length, asked, similar, ambiguous) ==
  Password({length}, (SUBSET asked) \ {{}})

\* generate_password: one character of every class asked for, unless the
\* exclusions strike it, and any of the remaining alphabet, shuffled.  With a
\* length of at least four (GenerateRequest) none is cut off.
Generated(length, asked, similar, ambiguous) ==
  Password({length}, {has \in (SUBSET asked) \ {{}} : asked \ Struck(similar, ambiguous) \subseteq has})

\* generate_temp_password: sixteen characters of one mixed alphabet.
Temporary == Password({16}, (SUBSET Classes) \ {{}})

-----------------------------------------------------------------------------
(* validate_password.                                                       *)

LengthScore(length) ==
  CASE length >= 16 -> 30 [] length \in 12 .. 15 -> 25 [] length \in 8 .. 11 -> 15
    [] length \in 6 .. 7 -> 10 [] OTHER -> 5

\* A sum over the classes a password has.
Weigh(has, lower, upper, digit, special) ==
  (IF "lower" \in has THEN lower ELSE 0) + (IF "upper" \in has THEN upper ELSE 0)
    + (IF "digit" \in has THEN digit ELSE 0) + (IF "special" \in has THEN special ELSE 0)

Types(has) == Weigh(has, 1, 1, 1, 1)
CharsetSize(has) == Weigh(has, 26, 26, 10, 32)

\* 1000 log2 of the sizes a charset can have, rounded down; for lengths up to
\* 128 the score is the one of the exact logarithm.
Log2(size) ==
  CASE size = 10 -> 3321 [] size = 26 -> 4700 [] size = 32 -> 5000 [] size = 36 -> 5169
    [] size = 42 -> 5392 [] size = 52 -> 5700 [] size = 58 -> 5857 [] size = 62 -> 5954
    [] size = 68 -> 6087 [] size = 84 -> 6392 [] size = 94 -> 6554
EntropyScore(length, has) ==
  LET score == (length * Log2(CharsetSize(has))) \div 4000 IN IF score > 25 THEN 25 ELSE score

\* A member of COMMON_PASSWORDS would cost 15 more; these have at most nine
\* characters, and the passwords whose score is at stake more than that.
Penalty(p) == (IF p.triple THEN 5 ELSE 0) + (IF p.run THEN 5 ELSE 0)

Bonus(p) ==
  LET types == Types(p.has) IN
  (IF p.length >= 12 /\ types >= 3 THEN 5 ELSE 0)
    + (IF p.length >= 16 /\ types >= 4 THEN 5 ELSE 0)
    + (IF p.pair THEN 0 ELSE 5)

Strength(p) ==
  LengthScore(p.length) + 7 * Types(p.has) + EntropyScore(p.length, p.has)
    - Penalty(p) + Bonus(p)

Level(p) ==
  LET s == Strength(p) IN
  CASE s >= 80 -> 4 [] s \in 60 .. 79 -> 3 [] s \in 40 .. 59 -> 2 [] s \in 20 .. 39 -> 1 [] s < 20 -> 0
=============================================================================
