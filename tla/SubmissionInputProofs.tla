----------------------- MODULE SubmissionInputProofs -------------------------
(***************************************************************************)
(* What a client writes is refused, stored, compared and shown as it was   *)
(* meant, in any number system, for any limits and any requests, unless an *)
(* amount is sent as a number that a double rounds.                        *)
(***************************************************************************)
EXTENDS SubmissionInput, TLAPS

-----------------------------------------------------------------------------
(* Arithmetic                                                              *)

\* Division without a remainder is undone by multiplication.
LEMMA DivisionUndone ==
    ASSUME NEW m \in Nat \ {0}, NEW x \in Nat, x % m = 0
    PROVE  x \div m \in Nat /\ (x \div m) * m = x
OBVIOUS

\* A number is split in one way into a multiple of m and a rest below m.
LEMMA OneSplit ==
    ASSUME NEW m \in Nat \ {0}, NEW x \in Nat, NEW y \in Nat, NEW u \in Nat, NEW v \in Nat,
           y < m, v < m, x * m + y = u * m + v
    PROVE  x = u /\ y = v
OBVIOUS

\* Below n multiples of m, there is less than n of them.
LEMMA SplitBelow ==
    ASSUME NEW m \in Nat \ {0}, NEW x \in Nat, NEW y \in Nat, NEW n \in Nat, y < m
    PROVE  x * m + y < n * m <=> x < n
<1>1. CASE x < n
  <2>1. x + 1 <= n
    BY <1>1
  <2>2. (x + 1) * m <= n * m
    BY <2>1
  <2> QED
    BY <1>1, <2>2
<1>2. CASE n <= x
  <2>1. n * m <= x * m
    BY <1>2
  <2> QED
    BY <1>2, <2>1
<1> QED
  BY <1>1, <1>2

\* Factors are cancelled.
LEMMA Cancelled ==
    ASSUME NEW m \in Nat \ {0}, NEW x \in Nat, NEW y \in Nat
    PROVE  /\ x * m < y * m => x < y
           /\ x * m = y * m => x = y
OBVIOUS

\* Multiples of b do not change what is left over when dividing by b.
LEMMA MultiplesLeaveRest ==
    ASSUME NEW b \in Nat \ {0}, NEW c \in Nat, NEW r \in Nat
    PROVE  (c * b + r) % b = r % b
<1> DEFINE x == c * b + r
<1>0. ASSUME NEW y \in Nat
      PROVE  /\ y \div b \in Nat /\ y % b \in Nat /\ y % b < b
             /\ y = ((y \div b) * b) + (y % b)
  OBVIOUS
<1>1. /\ x \in Nat
      /\ x \div b \in Nat /\ x % b \in Nat /\ x % b < b /\ x = ((x \div b) * b) + (x % b)
      /\ r \div b \in Nat /\ r % b \in Nat /\ r % b < b /\ r = ((r \div b) * b) + (r % b)
  <2>1. x \in Nat
    OBVIOUS
  <2> HIDE DEF x
  <2> QED
    BY <1>0, <2>1
<1>2. x = ((c + (r \div b)) * b) + (r % b)
  BY <1>1
<1> HIDE DEF x
<1>3. ((x \div b) * b) + (x % b) = ((c + (r \div b)) * b) + (r % b)
  BY <1>1, <1>2
<1>4. c + (r \div b) \in Nat
  BY <1>1
<1>5. x % b = r % b
  BY <1>1, <1>3, <1>4, OneSplit
<1> QED
  BY <1>5 DEF x

LEMMA ScaleType ==
    /\ DOMAIN Scale = 0..3
    /\ \A n \in 0..3 : Scale[n] \in Nat \ {0}
    /\ Scale[0] = 1
    /\ Scale[1] = Base
    /\ Scale[2] = Base * Base
    /\ Scale[3] = Base * Base * Base
<1>1. /\ DOMAIN Scale = 0..3
      /\ Scale[0] = 1
      /\ Scale[1] = Base
      /\ Scale[2] = Base * Base
      /\ Scale[3] = Base * Base * Base
  BY DEF Scale
<1>2. Base \in Nat \ {0} /\ Base * Base \in Nat \ {0} /\ Base * Base * Base \in Nat \ {0}
  BY InputAssumption
<1>3. \A n \in 0..3 : n = 0 \/ n = 1 \/ n = 2 \/ n = 3
  OBVIOUS
<1> QED
  BY <1>1, <1>2, <1>3

\* Scales multiply.
LEMMA ScaleSum ==
    ASSUME NEW m \in 0..3, NEW n \in 0..3, m + n <= 3
    PROVE  Scale[m + n] = Scale[m] * Scale[n]
<1>1. Base \in Nat
  BY InputAssumption
<1>2. m = 0 \/ m = 1 \/ m = 2 \/ m = 3
  OBVIOUS
<1>3. n = 0 \/ n = 1 \/ n = 2 \/ n = 3
  OBVIOUS
<1>4. CASE m = 0
  <2>1. Scale[m + n] = Scale[n] /\ Scale[m] = 1 /\ Scale[n] \in Nat
    BY <1>4, ScaleType
  <2> QED
    BY <2>1
<1>5. CASE n = 0
  <2>1. Scale[m + n] = Scale[m] /\ Scale[n] = 1 /\ Scale[m] \in Nat
    BY <1>5, ScaleType
  <2> QED
    BY <2>1
<1>6. CASE m = 1 /\ n = 1
  BY <1>6, ScaleType
<1>7. CASE m = 1 /\ n = 2
  BY <1>1, <1>7, ScaleType
<1>8. CASE m = 2 /\ n = 1
  BY <1>1, <1>8, ScaleType
<1> QED
  BY <1>2, <1>3, <1>4, <1>5, <1>6, <1>7, <1>8

-----------------------------------------------------------------------------
(* Amounts: what a number is printed as has the value it was rounded to,   *)
(* and what an amount is worth is all that its stored form tells.          *)

IsAmount(a) == a \in AmountType /\ a.fraction < Scale[a.places]

\* The places a value is printed with, given what it has below its integer part.
PrintedPlaces(rest, p) ==
    /\ rest % Scale[3 - p] = 0
    /\ \A q \in 0..(p - 1) : rest % Scale[3 - q] # 0

\* There are some: all there are, if no fewer will do.
LEMMA PlacesExist ==
    ASSUME NEW rest \in Nat
    PROVE  \E p \in 0..3 : PrintedPlaces(rest, p)
<1> DEFINE Whole(p) == rest % Scale[3 - p] = 0
<1>1. Whole(3)
  BY ScaleType
<1> HIDE DEF Whole
<1>2. \E p \in 0..3 : Whole(p) /\ \A q \in 0..(p - 1) : ~Whole(q)
  <2>1. CASE Whole(0)
    BY <2>1
  <2>2. CASE ~Whole(0) /\ Whole(1)
    BY <2>2
  <2>3. CASE ~Whole(0) /\ ~Whole(1) /\ Whole(2)
    BY <2>3
  <2>4. CASE ~Whole(0) /\ ~Whole(1) /\ ~Whole(2)
    BY <1>1, <2>4
  <2> QED
    BY <2>1, <2>2, <2>3, <2>4
<1> QED
  BY <1>2 DEF Whole, PrintedPlaces

\* At most two places suffice for the multiples of Base, and only for them.
LEMMA TwoPlaces ==
    ASSUME NEW value \in Nat, NEW p \in 0..3, PrintedPlaces(value % Scale[3], p)
    PROVE  p <= 2 <=> value % Base = 0
<1> DEFINE rest == value % Scale[3]
<1>1. /\ Base \in Nat \ {0} /\ Scale[2] \in Nat \ {0} /\ Scale[3] \in Nat \ {0}
      /\ Scale[1] = Base /\ Scale[3] = Scale[2] * Base
  BY InputAssumption, ScaleType
<1>2. /\ rest \in Nat
      /\ value \div Scale[3] \in Nat
      /\ value = (value \div Scale[3]) * Scale[3] + rest
  BY <1>1
<1>3. PICK k \in Nat : k = value \div Scale[3]
  BY <1>2
<1> HIDE DEF rest
<1>4. value % Base = rest % Base
  <2>1. value = (k * Scale[2]) * Base + rest
    <3>1. ASSUME NEW x \in Nat, NEW y \in Nat, NEW z \in Nat PROVE x * (y * z) = (x * y) * z
      OBVIOUS
    <3>2. k * Scale[3] = (k * Scale[2]) * Base
      BY <1>1, <3>1
    <3> QED
      BY <1>2, <1>3, <3>2
  <2>2. PICK j \in Nat : j = k * Scale[2]
    BY <1>1
  <2>3. (j * Base + rest) % Base = rest % Base
    BY <1>1, <1>2, MultiplesLeaveRest
  <2> QED
    BY <2>1, <2>2, <2>3
<1>5. rest % Scale[3 - p] = 0 /\ \A q \in 0..(p - 1) : rest % Scale[3 - q] # 0
  BY DEF rest, PrintedPlaces
<1>6. CASE p <= 2
  <2>1. 2 - p \in 0..3 /\ 3 - p = (2 - p) + 1 /\ 3 - p \in 0..3
    BY <1>6
  <2>2. Scale[3 - p] = Scale[2 - p] * Base
    BY <1>1, <2>1, ScaleSum
  <2>3. PICK m \in Nat : m = Scale[2 - p]
    BY <2>1, ScaleType
  <2>4. PICK d \in Nat \ {0} : d = Scale[3 - p]
    BY <2>1, ScaleType
  <2>5. rest \div d \in Nat /\ rest = (rest \div d) * d
    BY <1>2, <1>5, <2>4, DivisionUndone
  <2>6. PICK n \in Nat : n = rest \div d
    BY <2>5
  <2>7. rest = (n * m) * Base + 0
    <3>1. ASSUME NEW x \in Nat, NEW y \in Nat, NEW z \in Nat PROVE x * (y * z) = (x * y) * z
      OBVIOUS
    <3>2. n * d = (n * m) * Base
      BY <1>1, <2>2, <2>3, <2>4, <3>1
    <3> QED
      BY <1>1, <2>5, <2>6, <3>2
  <2>8. rest % Base = 0 % Base
    BY <1>1, <2>7, MultiplesLeaveRest
  <2>9. 0 % Base = 0
    BY <1>1
  <2> QED
    BY <1>4, <1>6, <2>8, <2>9
<1>7. CASE p = 3
  <2>1. rest % Scale[3 - 2] # 0
    BY <1>5, <1>7
  <2> QED
    BY <1>1, <1>4, <1>7, <2>1
<1> QED
  BY <1>6, <1>7

\* What is printed is worth what it was printed of.
LEMMA PrintedValue ==
    ASSUME NEW a, IsAmount(a), NEW value \in Nat
    PROVE  /\ IsAmount(Printed(a, value))
           /\ Printed(a, value).decimal = a.decimal
           /\ Thousandths(Printed(a, value)) = value
           /\ Printed(a, value).places <= 2 <=> value % Base = 0
<1> DEFINE rest == value % Scale[3]
           p == CHOOSE p \in 0..3 :
                    /\ rest % Scale[3 - p] = 0
                    /\ \A q \in 0..(p - 1) : rest % Scale[3 - q] # 0
           c == [a EXCEPT !.type = "string", !.integer = value \div Scale[3],
                          !.places = p, !.fraction = rest \div Scale[3 - p]]
<1>1. Printed(a, value) = c
  BY DEF Printed
<1>2. Scale[3] \in Nat \ {0}
  BY ScaleType
<1>3. /\ rest \in Nat /\ rest < Scale[3]
      /\ value \div Scale[3] \in Nat
      /\ value = (value \div Scale[3]) * Scale[3] + rest
  BY <1>2
<1>4. p \in 0..3 /\ PrintedPlaces(rest, p)
  BY <1>3, PlacesExist DEF PrintedPlaces
<1>5. p <= 2 <=> value % Base = 0
  BY <1>4, TwoPlaces
<1> HIDE DEF p, rest
<1>6. /\ 3 - p \in 0..3 /\ p + (3 - p) = 3
      /\ rest % Scale[3 - p] = 0
  BY <1>4 DEF PrintedPlaces
<1>7. Scale[3 - p] \in Nat \ {0} /\ Scale[p] \in Nat /\ Scale[3] = Scale[p] * Scale[3 - p]
  <2>1. Scale[p + (3 - p)] = Scale[p] * Scale[3 - p]
    BY <1>4, <1>6, ScaleSum
  <2> QED
    BY <1>4, <1>6, <2>1, ScaleType
<1>8. rest \div Scale[3 - p] \in Nat /\ (rest \div Scale[3 - p]) * Scale[3 - p] = rest
  BY <1>3, <1>6, <1>7, DivisionUndone
<1>9. rest \div Scale[3 - p] < Scale[p]
  BY <1>3, <1>7, <1>8, Cancelled
<1>10. /\ c.type = "string"
       /\ c.decimal = a.decimal
       /\ c.integer = value \div Scale[3]
       /\ c.places = p
       /\ c.fraction = rest \div Scale[3 - p]
  BY DEF IsAmount, AmountType
<1>11. c \in AmountType
  <2>1. p \in DOMAIN Scale
    BY <1>4, ScaleType
  <2> QED
    BY <1>3, <1>8, <2>1 DEF IsAmount, AmountType
<1> HIDE DEF c
<1>12. Thousandths(c) = value
  BY <1>3, <1>8, <1>10 DEF Thousandths
<1> QED
  BY <1>1, <1>5, <1>9, <1>10, <1>11, <1>12 DEF IsAmount

\* What has arrived of an amount.
Received(a) == IF a.type = "string" THEN Thousandths(a) ELSE Rounded[Thousandths(a)]

\* Coercion keeps a string, and prints what a number was rounded to.
LEMMA CoercedValue ==
    ASSUME NEW a, IsAmount(a), a.type = "number" => Rounded[Thousandths(a)] \in Nat
    PROVE  /\ IsAmount(Coerced(a))
           /\ Coerced(a).decimal = a.decimal
           /\ Thousandths(Coerced(a)) = Received(a)
           /\ IF a.type = "string" THEN Coerced(a) = a
              ELSE Coerced(a).places <= 2 <=> Received(a) % Base = 0
<1>1. a # Absent
  BY RequestsAssumption DEF IsAmount
<1>2. CASE a.type = "string"
  BY <1>2 DEF Coerced, Received
<1>3. CASE a.type # "string"
  <2>1. Rounded[Thousandths(a)] \in Nat
    BY <1>3 DEF IsAmount, AmountType
  <2>2. Coerced(a) = Printed(a, Received(a)) /\ Received(a) = Rounded[Thousandths(a)]
    BY <1>1, <1>3 DEF Coerced, Received
  <2> QED
    BY <1>3, <2>1, <2>2, PrintedValue
<1> QED
  BY <1>2, <1>3

\* The value below the integer part is less than one.
LEMMA FractionBelowOne ==
    ASSUME NEW a, IsAmount(a)
    PROVE  /\ a.integer \in Nat
           /\ a.fraction * Scale[3 - a.places] \in Nat
           /\ a.fraction * Scale[3 - a.places] < Scale[3]
           /\ a.fraction * Scale[3 - a.places] = 0 <=> a.fraction = 0
<1>1. /\ a.places \in 0..3
      /\ 3 - a.places \in 0..3
      /\ a.places + (3 - a.places) = 3
      /\ a.fraction \in Nat
      /\ a.integer \in Nat
      /\ a.fraction < Scale[a.places]
  BY ScaleType DEF IsAmount, AmountType
<1>2. Scale[3 - a.places] \in Nat \ {0} /\ Scale[a.places] \in Nat
  BY <1>1, ScaleType
<1>3. Scale[3] = Scale[a.places] * Scale[3 - a.places]
  BY <1>1, ScaleSum
<1>4. ASSUME NEW x \in Nat, NEW y \in Nat, NEW m \in Nat \ {0}, x < y
      PROVE  /\ x * m \in Nat
             /\ x * m < y * m
             /\ x * m = 0 <=> x = 0
  BY <1>4
<1>5. PICK m \in Nat \ {0} : m = Scale[3 - a.places]
  BY <1>2
<1>6. PICK x \in Nat, y \in Nat : x = a.fraction /\ y = Scale[a.places]
  BY <1>1, <1>2
<1>7. x * m \in Nat /\ x * m < y * m /\ (x * m = 0 <=> x = 0)
  BY <1>1, <1>4, <1>6
<1> QED
  BY <1>1, <1>3, <1>5, <1>6, <1>7

\* The rules about amounts are rules about their value, and there are at most
\* two places.
LEMMA SupportedByValue ==
    ASSUME NEW a, IsAmount(a), a.decimal, a.places <= 2
    PROVE  SupportedAmount(a) <=> Thousandths(a) \in 1..(IntegerLimit * Scale[3] - 1)
<1> DEFINE f == a.fraction * Scale[3 - a.places]
<1>1. /\ a.integer \in Nat
      /\ f \in Nat
      /\ f < Scale[3]
      /\ f = 0 <=> a.fraction = 0
  BY FractionBelowOne
<1>2. /\ Scale[3] \in Nat \ {0}
      /\ IntegerLimit \in Nat \ {0}
      /\ a.fraction \in Nat
  BY ScaleType, InputAssumption DEF IsAmount, AmountType
<1> HIDE DEF f
<1>3. a.integer * Scale[3] + f < IntegerLimit * Scale[3] <=> a.integer < IntegerLimit
  BY <1>1, <1>2, SplitBelow
<1>4. a.integer * Scale[3] + f > 0 <=> a.integer > 0 \/ f > 0
  BY <1>1, <1>2
<1>5. /\ a.integer * Scale[3] \in Nat
      /\ IntegerLimit * Scale[3] \in Nat
  BY <1>1, <1>2
<1>6. SupportedAmount(a) <=> (a.integer > 0 \/ f > 0) /\ a.integer < IntegerLimit
  BY <1>1, <1>2 DEF SupportedAmount, AMOUNT_PATTERN
<1>7. Thousandths(a) = a.integer * Scale[3] + f
  BY DEF Thousandths, f
<1> QED
  BY <1>1, <1>3, <1>4, <1>5, <1>6, <1>7

\* The stored amount is worth what was written.
LEMMA NormalizedValue ==
    ASSUME NEW a, IsAmount(a), a.places <= 2
    PROVE  /\ normalizeAmount(a).integer \in Nat
           /\ normalizeAmount(a).cents \in Nat
           /\ normalizeAmount(a).cents < Scale[2]
           /\ (normalizeAmount(a).integer * Scale[2] + normalizeAmount(a).cents) * Base
                  = Thousandths(a)
<1> DEFINE cents == a.fraction * Scale[2 - a.places]
<1>1. /\ a.places \in 0..2
      /\ 2 - a.places \in 0..3
      /\ a.places \in 0..3
      /\ a.places + (2 - a.places) = 2
      /\ 3 - a.places = (2 - a.places) + 1
      /\ a.fraction \in Nat
      /\ a.integer \in Nat
      /\ a.fraction < Scale[a.places]
  BY ScaleType DEF IsAmount, AmountType
<1>2. /\ Scale[2 - a.places] \in Nat \ {0}
      /\ Scale[a.places] \in Nat
      /\ Scale[2] \in Nat \ {0}
      /\ Base \in Nat \ {0}
  BY <1>1, ScaleType, InputAssumption
<1>3. Scale[2] = Scale[a.places] * Scale[2 - a.places]
  BY <1>1, ScaleSum
<1>4. Scale[3 - a.places] = Scale[2 - a.places] * Base /\ Scale[3] = Scale[2] * Base
  <2>1. Scale[3 - a.places] = Scale[2 - a.places] * Scale[1]
    BY <1>1, ScaleSum
  <2> QED
    BY <2>1, ScaleType
<1>5. ASSUME NEW x \in Nat, NEW y \in Nat, NEW m \in Nat \ {0}, x < y
      PROVE  x * m \in Nat /\ x * m < y * m
  BY <1>5
<1>6. cents \in Nat /\ cents < Scale[2]
  BY <1>1, <1>2, <1>3, <1>5
<1>7. ASSUME NEW i \in Nat, NEW s \in Nat, NEW x \in Nat, NEW y \in Nat, NEW b \in Nat
      PROVE  (i * s + x * y) * b = i * (s * b) + x * (y * b)
  OBVIOUS
<1>8. (a.integer * Scale[2] + cents) * Base = Thousandths(a)
  BY <1>1, <1>2, <1>4, <1>7 DEF Thousandths
<1> QED
  BY <1>1, <1>6, <1>8 DEF normalizeAmount

\* Two amounts are stored alike exactly if they are worth the same.
LEMMA SameValueSameAmount ==
    ASSUME NEW a, IsAmount(a), a.places <= 2, NEW b, IsAmount(b), b.places <= 2
    PROVE  normalizeAmount(a) = normalizeAmount(b) <=> Thousandths(a) = Thousandths(b)
<1> DEFINE x == normalizeAmount(a)
           y == normalizeAmount(b)
<1>1. /\ x.integer \in Nat /\ x.cents \in Nat /\ x.cents < Scale[2]
      /\ (x.integer * Scale[2] + x.cents) * Base = Thousandths(a)
  BY NormalizedValue
<1>2. /\ y.integer \in Nat /\ y.cents \in Nat /\ y.cents < Scale[2]
      /\ (y.integer * Scale[2] + y.cents) * Base = Thousandths(b)
  BY NormalizedValue
<1>3. x = y <=> x.integer = y.integer /\ x.cents = y.cents
  BY DEF normalizeAmount
<1>4. Scale[2] \in Nat \ {0} /\ Base \in Nat \ {0}
  BY ScaleType, InputAssumption
<1> HIDE DEF x, y
<1>5. x.integer * Scale[2] + x.cents \in Nat /\ y.integer * Scale[2] + y.cents \in Nat
  BY <1>1, <1>2, <1>4
<1>6. Thousandths(a) = Thousandths(b)
          => x.integer * Scale[2] + x.cents = y.integer * Scale[2] + y.cents
  BY <1>1, <1>2, <1>4, <1>5, Cancelled
<1>7. x.integer * Scale[2] + x.cents = y.integer * Scale[2] + y.cents
          => x.integer = y.integer /\ x.cents = y.cents
  BY <1>1, <1>2, <1>4, OneSplit
<1>8. x = y <=> Thousandths(a) = Thousandths(b)
  BY <1>1, <1>2, <1>3, <1>6, <1>7
<1> QED
  BY <1>8 DEF x, y

-----------------------------------------------------------------------------
(* Requests: what is refused, and when two say the same                    *)

Stored(r) == normalizePaymentSubmission(Validated(r))

Passes(r) == submitPaymentSchema(Validated(r)) /\ Normalizable(Validated(r))

\* Coercion leaves everything but the amount.
LEMMA ValidatedFields ==
    ASSUME NEW r \in Requests
    PROVE  /\ Validated(r).key = r.key
           /\ Validated(r).correlationId = r.correlationId
           /\ Validated(r).texts = r.texts
           /\ Validated(r).amount = Coerced(r.amount)
BY RequestsAssumption DEF Validated

\* A text is its word and the white space around it.
LEMMA TrimmedText ==
    ASSUME NEW t, IsText(t), t # Absent
    PROVE  /\ trim(t) = [word |-> t.word, pad |-> 0]
           /\ t.word.length \in Nat /\ t.word.units \in Nat /\ t.pad \in Nat
           /\ t.word.length <= t.word.units
<1>1. /\ t = [word |-> t.word, pad |-> t.pad]
      /\ {t.word.length, t.word.units, t.pad} \subseteq Nat
      /\ t.word.length <= t.word.units
  BY DEF IsText
<1>2. trim(t) = [word |-> t.word, pad |-> 0]
  BY <1>1 DEF trim
<1> QED
  BY <1>1, <1>2

LEMMA SameTexts ==
    ASSUME NEW s, IsText(s), s # Absent, NEW t, IsText(t), t # Absent
    PROVE  trim(s) = trim(t) <=> s.word = t.word
BY TrimmedText

\* A text that the schema and the domain let through is not bad.
LEMMA TextPasses ==
    ASSUME NEW t, IsText(t)
    PROVE  requiredStringSchema(t) /\ RequiredString(t) <=> ~BadText(t)
<1>1. CASE t = Absent
  BY <1>1 DEF requiredStringSchema, BadText
<1>2. CASE t # Absent
  BY <1>2, TrimmedText, InputAssumption
     DEF requiredStringSchema, RequiredString, RawLength, BadText
<1> QED
  BY <1>1, <1>2

\* An amount that passes is a decimal of at most two places.
LEMMA AmountPasses ==
    ASSUME NEW r \in Requests, r.amount # Absent
    PROVE  /\ IsAmount(r.amount)
           /\ IsAmount(Coerced(r.amount))
           /\ Thousandths(Coerced(r.amount)) = Received(r.amount)
           /\ IF r.amount.type = "string" THEN Coerced(r.amount) = r.amount
              ELSE Coerced(r.amount).places <= 2 <=> Received(r.amount) % Base = 0
           /\ AMOUNT_PATTERN(Coerced(r.amount)) /\ SupportedAmount(Coerced(r.amount))
                  <=> /\ r.amount.decimal
                      /\ Received(r.amount) \in 1..(IntegerLimit * Scale[3] - 1)
                      /\ Coerced(r.amount).places <= 2
<1>1. /\ IsAmount(r.amount)
      /\ r.amount.type = "number" => Rounded[Thousandths(r.amount)] \in Nat
  BY RequestsAssumption DEF IsAmount
<1>2. /\ IsAmount(Coerced(r.amount))
      /\ Thousandths(Coerced(r.amount)) = Received(r.amount)
      /\ Coerced(r.amount).decimal = r.amount.decimal
      /\ IF r.amount.type = "string" THEN Coerced(r.amount) = r.amount
         ELSE Coerced(r.amount).places <= 2 <=> Received(r.amount) % Base = 0
  BY <1>1, CoercedValue
<1>3. ASSUME Coerced(r.amount).decimal, Coerced(r.amount).places <= 2
      PROVE  SupportedAmount(Coerced(r.amount))
                 <=> Thousandths(Coerced(r.amount)) \in 1..(IntegerLimit * Scale[3] - 1)
  BY <1>2, <1>3, SupportedByValue
<1> QED
  BY <1>1, <1>2, <1>3 DEF AMOUNT_PATTERN

\* An exact amount arrives as it was sent.
LEMMA ExactReceived ==
    ASSUME NEW r \in Requests, Exact(r), r.amount # Absent
    PROVE  Received(r.amount) = Thousandths(r.amount)
<1>1. r.amount.type \in {"string", "number"}
  BY AmountPasses DEF IsAmount, AmountType
<1> QED
  BY <1>1 DEF Exact, Received

\* Of the exact requests, those that break a rule are refused.
LEMMA PassesUnlessBroken ==
    ASSUME NEW r \in Requests, Exact(r)
    PROVE  Passes(r) <=> ~BreaksRule(r)
<1> DEFINE v == Validated(r)
<1>1. /\ v.key = r.key
      /\ v.correlationId = r.correlationId
      /\ v.texts = r.texts
      /\ v.amount = Coerced(r.amount)
  BY ValidatedFields
<1>2. IsText(r.key) /\ IsText(r.correlationId) /\ \A f \in Fields : IsText(r.texts[f])
  BY RequestsAssumption DEF IsHeader
<1> DEFINE TextsPass == /\ requiredStringSchema(r.key) /\ RequiredString(r.key)
                        /\ \A f \in Fields :
                            requiredStringSchema(r.texts[f]) /\ RequiredString(r.texts[f])
           IdPasses == r.correlationId # Absent =>
                        requiredStringSchema(r.correlationId) /\ RequiredString(r.correlationId)
           AmountIsGood == /\ Coerced(r.amount) # Absent
                           /\ AMOUNT_PATTERN(Coerced(r.amount))
                           /\ SupportedAmount(Coerced(r.amount))
           BadAmount == \/ r.amount = Absent
                        \/ ~r.amount.decimal
                        \/ Thousandths(r.amount) \notin 1..(IntegerLimit * Scale[3] - 1)
                        \/ IF r.amount.type = "string" THEN r.amount.places > 2
                           ELSE Thousandths(r.amount) % Base # 0
<1>3. Passes(r) <=> TextsPass /\ IdPasses /\ AmountIsGood
  BY <1>1 DEF Passes, submitPaymentSchema, Normalizable
<1>4. TextsPass <=> ~BadText(r.key) /\ \A f \in Fields : ~BadText(r.texts[f])
  BY <1>2, TextPasses
<1>5. IdPasses <=> (r.correlationId # Absent => ~BadText(r.correlationId))
  BY <1>2, TextPasses
<1>6. AmountIsGood <=> ~BadAmount
  <2>1. CASE r.amount = Absent
    BY <2>1 DEF Coerced
  <2>2. CASE r.amount # Absent
    <3>1. Coerced(r.amount).places \in 0..3
      BY <2>2, AmountPasses, ScaleType DEF IsAmount, AmountType
    <3>2. Coerced(r.amount) # Absent
      BY <2>2, AmountPasses, RequestsAssumption DEF IsAmount
    <3>3. Received(r.amount) = Thousandths(r.amount)
      BY <2>2, ExactReceived
    <3>4. AmountIsGood <=> r.amount.decimal
                /\ Thousandths(r.amount) \in 1..(IntegerLimit * Scale[3] - 1)
                /\ Coerced(r.amount).places <= 2
      BY <2>2, <3>2, <3>3, AmountPasses
    <3>5. Coerced(r.amount).places <= 2 <=>
            IF r.amount.type = "string" THEN ~(r.amount.places > 2)
            ELSE Thousandths(r.amount) % Base = 0
      BY <2>2, <3>1, <3>3, AmountPasses
    <3> QED
      BY <2>2, <3>4, <3>5
  <2> QED
    BY <2>1, <2>2
<1> HIDE DEF TextsPass, IdPasses, AmountIsGood
<1>7. BreaksRule(r) <=>
        \/ BadText(r.key) \/ \E f \in Fields : BadText(r.texts[f])
        \/ r.correlationId # Absent /\ BadText(r.correlationId)
        \/ BadAmount
  BY DEF BreaksRule
<1> QED
  BY <1>3, <1>4, <1>5, <1>6, <1>7

\* What is known of a request that is not refused.
LEMMA PassedRequest ==
    ASSUME NEW r \in Requests, Passes(r)
    PROVE  /\ \A f \in Fields : /\ IsText(r.texts[f]) /\ r.texts[f] # Absent
                                /\ r.texts[f].word.length <= MaxLength
           /\ IsText(r.key) /\ r.key # Absent /\ r.amount # Absent
           /\ IsAmount(Coerced(r.amount))
           /\ Coerced(r.amount).places <= 2
           /\ Coerced(r.amount).integer < IntegerLimit
           /\ Thousandths(Coerced(r.amount)) = Received(r.amount)
<1>1. /\ requiredStringSchema(r.key)
      /\ \A f \in Fields : requiredStringSchema(r.texts[f]) /\ RequiredString(r.texts[f])
      /\ Coerced(r.amount) # Absent
      /\ AMOUNT_PATTERN(Coerced(r.amount)) /\ SupportedAmount(Coerced(r.amount))
  BY ValidatedFields DEF Passes, submitPaymentSchema, Normalizable
<1>2. /\ r.key # Absent /\ r.amount # Absent
      /\ \A f \in Fields : r.texts[f] # Absent
  BY <1>1 DEF requiredStringSchema, Coerced
<1>3. /\ IsText(r.key)
      /\ \A f \in Fields : IsText(r.texts[f])
  BY RequestsAssumption DEF IsHeader
<1>4. \A f \in Fields : r.texts[f].word.length <= MaxLength
  BY <1>1, <1>2, <1>3, TrimmedText, InputAssumption DEF requiredStringSchema, RawLength
<1> QED
  BY <1>1, <1>2, <1>3, <1>4, AmountPasses DEF AMOUNT_PATTERN, SupportedAmount

\* What is stored of a request.
LEMMA StoredParts ==
    ASSUME NEW r \in Requests
    PROVE  /\ Stored(r) = [texts |-> [f \in Fields |-> trim(r.texts[f])],
                           amount |-> normalizeAmount(Coerced(r.amount))]
           /\ Stored(r).texts["customerId"] = trim(r.texts["customerId"])
<1>1. Stored(r) = [texts |-> [f \in Fields |-> trim(r.texts[f])],
                   amount |-> normalizeAmount(Coerced(r.amount))]
  BY ValidatedFields DEF Stored, normalizePaymentSubmission, normalizeRequiredString
<1> QED
  BY <1>1, InputAssumption

\* Two exact requests are stored alike exactly if they say the same.
LEMMA SameMeaningSameStored ==
    ASSUME NEW r \in Requests, Passes(r), Exact(r), NEW s \in Requests, Passes(s), Exact(s)
    PROVE  Stored(r) = Stored(s) <=> Meaning(r) = Meaning(s)
<1>1. Stored(r) = Stored(s) <=>
        /\ \A f \in Fields : trim(r.texts[f]) = trim(s.texts[f])
        /\ normalizeAmount(Coerced(r.amount)) = normalizeAmount(Coerced(s.amount))
  <2>1. [f \in Fields |-> trim(r.texts[f])] = [f \in Fields |-> trim(s.texts[f])]
            <=> \A f \in Fields : trim(r.texts[f]) = trim(s.texts[f])
    BY Zenon
  <2> QED
    BY <2>1, StoredParts
<1>2. \A f \in Fields :
        trim(r.texts[f]) = trim(s.texts[f]) <=> r.texts[f].word = s.texts[f].word
  BY PassedRequest, SameTexts
<1>3. normalizeAmount(Coerced(r.amount)) = normalizeAmount(Coerced(s.amount))
            <=> Thousandths(r.amount) = Thousandths(s.amount)
  <2>1. normalizeAmount(Coerced(r.amount)) = normalizeAmount(Coerced(s.amount))
            <=> Thousandths(Coerced(r.amount)) = Thousandths(Coerced(s.amount))
    BY PassedRequest, SameValueSameAmount
  <2> QED
    BY <2>1, PassedRequest, ExactReceived
<1>4. Meaning(r) = Meaning(s) <=>
        /\ \A f \in Fields : r.texts[f].word = s.texts[f].word
        /\ Thousandths(r.amount) = Thousandths(s.amount)
  <2>1. [f \in Fields |-> r.texts[f].word] = [f \in Fields |-> s.texts[f].word]
            <=> \A f \in Fields : r.texts[f].word = s.texts[f].word
    BY Zenon
  <2> QED
    BY <2>1 DEF Meaning
<1> QED
  BY <1>1, <1>2, <1>3, <1>4

-----------------------------------------------------------------------------
(* Steps, by what they answer                                              *)

Uses(r, rec) == rec.customer = trim(r.texts["customerId"]) /\ rec.key = trim(r.key)

NewRecord(r, id) ==
    [customer |-> trim(r.texts["customerId"]), key |-> trim(r.key),
     requestHash |-> hashPaymentSubmission(Stored(r)), id |-> id]

Creates(r) ==
    /\ Passes(r)
    /\ \A rec \in records : ~Uses(r, rec)
    /\ payments' = Append(payments, Stored(r))
    /\ records' = records \cup {NewRecord(r, Len(payments) + 1)}
    /\ Log("POST", r, Answer(202, Len(payments) + 1, Stored(r)))

Resolves(r, rec) ==
    /\ Passes(r)
    /\ rec \in records /\ Uses(r, rec)
    /\ Log("POST", r, resolveExistingPayment(rec, hashPaymentSubmission(Stored(r))))
    /\ UNCHANGED <<payments, records>>

Refuses(r) ==
    /\ ~Passes(r)
    /\ Log("POST", r, Refused(400))
    /\ UNCHANGED <<payments, records>>

Fails(r) ==
    /\ Passes(r)
    /\ \E f \in Fields : r.texts[f].word.nul
    /\ \A rec \in records : ~Uses(r, rec)
    /\ Log("POST", r, Refused(500))
    /\ UNCHANGED <<payments, records>>

\* A POST is refused, creates a payment, or meets one with its key. A column
\* refuses nothing that the rules allow but a NUL.
LEMMA PostCases ==
    ASSUME NEW r \in Requests, Post(r)
    PROVE  Refuses(r) \/ Fails(r) \/ Creates(r) \/ \E rec \in records : Resolves(r, rec)
<1> DEFINE v == Validated(r)
<1>1. CASE ~Passes(r)
  BY <1>1 DEF Post, Refuses, Passes
<1>2. CASE Passes(r)
  <2> DEFINE payment == normalizePaymentSubmission(v)
             found == findByIdempotencyKey(payment.texts["customerId"], trim(v.key))
  <2>1. submitPayment(r, v)
    BY <1>2 DEF Post, Passes
  <2>2. /\ payment = Stored(r)
        /\ payment.texts["customerId"] = trim(r.texts["customerId"])
        /\ trim(v.key) = trim(r.key)
    BY StoredParts, ValidatedFields DEF Stored
  <2>3. found = {rec \in records : Uses(r, rec)}
    BY <2>2 DEF findByIdempotencyKey, Uses
  <2>4. FitsColumns(Stored(r)) \/ \E f \in Fields : r.texts[f].word.nul
    <3>1. normalizeAmount(Coerced(r.amount)).integer < IntegerLimit
      BY <1>2, PassedRequest DEF normalizeAmount
    <3>2. \A f \in Fields : /\ trim(r.texts[f]).word = r.texts[f].word
                            /\ r.texts[f].word.length <= MaxLength
      BY <1>2, PassedRequest, TrimmedText
    <3> QED
      BY <3>1, <3>2, StoredParts DEF FitsColumns
  <2>5. CASE found = {}
    <3>1. createPaymentSubmission(r, payment, trim(v.key), hashPaymentSubmission(payment))
      BY <2>1, <2>5 DEF submitPayment
    <3>2. CASE FitsColumns(Stored(r))
      <4>1. Creates(r)
        BY <1>2, <2>2, <2>3, <2>5, <3>1, <3>2 DEF createPaymentSubmission, Creates, NewRecord
      <4> QED
        BY <4>1
    <3>3. CASE ~FitsColumns(Stored(r))
      <4>1. Fails(r)
        BY <1>2, <2>2, <2>3, <2>4, <2>5, <3>1, <3>3 DEF createPaymentSubmission, Fails
      <4> QED
        BY <4>1
    <3> QED
      BY <3>2, <3>3
  <2>6. CASE found # {}
    <3>1. /\ \E rec \in found :
                Log("POST", r, resolveExistingPayment(rec, hashPaymentSubmission(payment)))
          /\ UNCHANGED <<payments, records>>
      BY <2>1, <2>6 DEF submitPayment
    <3> QED
      BY <1>2, <2>2, <2>3, <3>1 DEF Resolves
  <2> QED
    BY <2>5, <2>6
<1> QED
  BY <1>1, <1>2

-----------------------------------------------------------------------------
(* The invariant: the rows agree with each other, and the answers given so *)
(* far agree with the rows.                                                *)

PaymentType == {Stored(r) : r \in Requests}

AnswerType == [code: Nat, id: Nat \cup {Absent}, payment: PaymentType \cup {Absent}]

EntryType ==
    [method: {"POST"}, request: Requests, answer: AnswerType]
        \cup [method: {"GET"}, request: Nat \cup {Absent}, answer: AnswerType]

InputTypeOK == payments \in Seq(PaymentType) /\ log \in Seq(EntryType)

RecordsSound ==
    \A rec \in records :
        /\ rec.id \in DOMAIN payments
        /\ rec.requestHash = hashPaymentSubmission(payments[rec.id])

RecordsUnique ==
    \A r, s \in records : r.customer = s.customer /\ r.key = s.key => r = s

\* An answer with an identifier shows that payment, and says it is there.
AnswersShow ==
    \A i \in DOMAIN log : log[i].answer.id # Absent =>
        /\ log[i].answer.id \in DOMAIN payments
        /\ log[i].answer.payment = payments[log[i].answer.id]
        /\ log[i].answer.code \in {200, 202}

\* An accepted request has its payment and its record.
AcceptedStored ==
    \A i \in Accepted :
        /\ log[i].request \in Requests
        /\ Passes(log[i].request)
        /\ log[i].answer.id \in DOMAIN payments
        /\ payments[log[i].answer.id] = Stored(log[i].request)
        /\ \E rec \in records :
            Uses(log[i].request, rec) /\ rec.id = log[i].answer.id

\* No answer before the one that created a payment names it.
CreatedOnce ==
    \A i, j \in DOMAIN log :
        i < j /\ log[j].answer.code = 202 => log[i].answer.id # log[j].answer.id

\* What was accepted is found.
GetsFind ==
    \A i \in Accepted, j \in DOMAIN log :
        i < j /\ log[j].method = "GET" /\ log[j].request = log[i].answer.id =>
            log[j].answer.id = log[i].answer.id

InputInv ==
    /\ InputTypeOK
    /\ RecordsSound
    /\ RecordsUnique
    /\ AnswersShow
    /\ AcceptedStored
    /\ CreatedOnce
    /\ GetsFind
    /\ RefusedIffRuleBroken
    /\ SameMeaningSamePayment

Entry(method, request, answer) == [method |-> method, request |-> request, answer |-> answer]

\* The log only grows, at its end.
LEMMA LogGrows ==
    ASSUME InputTypeOK, NEW e \in EntryType, log' = Append(log, e)
    PROVE  /\ log' \in Seq(EntryType)
           /\ Len(log) + 1 \in DOMAIN log'
           /\ \A i \in DOMAIN log' : i \in Nat /\ i <= Len(log) + 1
           /\ \A i \in DOMAIN log' : i < Len(log) + 1 => i \in DOMAIN log
           /\ \A i \in DOMAIN log : i \in DOMAIN log' /\ i < Len(log) + 1
           /\ \A i \in DOMAIN log : log'[i] = log[i]
           /\ log'[Len(log) + 1] = e
BY DEF InputTypeOK

\* What the rows do for answers to stay true: payments stay where they are and
\* records are kept.
RowsStay ==
    /\ payments' \in Seq(PaymentType)
    /\ \A id \in DOMAIN payments : id \in DOMAIN payments' /\ payments'[id] = payments[id]
    /\ records \subseteq records'

\* The step of an answer, given that the new answer is right.
LEMMA AnswerStep ==
    ASSUME InputInv, RowsStay, RecordsSound', RecordsUnique',
           NEW e \in EntryType, log' = Append(log, e),
           e.answer.id # Absent =>
               /\ e.answer.id \in DOMAIN payments'
               /\ e.answer.payment = payments'[e.answer.id]
               /\ e.answer.code \in {200, 202},
           e.method = "POST" =>
               /\ e.answer.code = 500 => \E f \in Fields : e.request.texts[f].word.nul
               /\ Exact(e.request) => (e.answer.code = 400 <=> BreaksRule(e.request)),
           e.method = "POST" /\ e.answer.code \in {200, 202} =>
               /\ e.request \in Requests
               /\ Passes(e.request)
               /\ e.answer.id \in DOMAIN payments'
               /\ payments'[e.answer.id] = Stored(e.request)
               /\ \E rec \in records' : Uses(e.request, rec) /\ rec.id = e.answer.id,
           e.answer.code = 202 => e.answer.id \notin DOMAIN payments \cup {Absent},
           e.method = "GET" => \A id \in DOMAIN payments : e.request = id => e.answer.id = id,
           \A i \in Accepted :
               e.method = "POST" /\ e.answer.code # 400 /\ SameUse(log[i].request, e.request)
                   /\ Exact(log[i].request) /\ Exact(e.request) =>
                   LET same == Meaning(log[i].request) = Meaning(e.request) IN
                   /\ e.answer.code = IF same THEN 200 ELSE 409
                   /\ e.answer.id = IF same THEN log[i].answer.id ELSE Absent
    PROVE  InputInv'
<1> DEFINE n == Len(log) + 1
<1>1. /\ log' \in Seq(EntryType)
      /\ n \in DOMAIN log'
      /\ \A i \in DOMAIN log' : i \in Nat /\ i <= n
      /\ \A i \in DOMAIN log' : i < n => i \in DOMAIN log
      /\ \A i \in DOMAIN log : i \in DOMAIN log' /\ i < n
      /\ \A i \in DOMAIN log : log'[i] = log[i]
      /\ log'[n] = e
  BY LogGrows DEF InputInv
<1>0. n \in Nat
  BY DEF InputInv, InputTypeOK
<1> HIDE DEF n
<1>2. \A i \in DOMAIN log' : i = n \/ (i \in DOMAIN log /\ log'[i] = log[i])
  BY <1>0, <1>1
<1>3. /\ \A i \in Accepted' : i = n \/ (i \in Accepted /\ log'[i] = log[i])
      /\ n \in Accepted' => e.method = "POST" /\ e.answer.code \in {200, 202}
      /\ \A i \in Posts' : i = n \/ (i \in Posts /\ log'[i] = log[i])
      /\ n \in Posts' => e.method = "POST"
  BY <1>1, <1>2 DEF Accepted, Posts
<1>4. /\ \A i \in Accepted : i \in DOMAIN log
      /\ \A i \in Accepted' : i \in DOMAIN log'
      /\ \A i \in Posts' : i \in DOMAIN log'
  BY DEF Accepted, Posts
<1>5. InputTypeOK'
  BY <1>1 DEF InputTypeOK, RowsStay
<1>6. AnswersShow'
  BY <1>1, <1>2 DEF AnswersShow, InputInv, RowsStay
<1>7. AcceptedStored'
  <2> SUFFICES ASSUME NEW i \in Accepted'
               PROVE  /\ log'[i].request \in Requests
                      /\ Passes(log'[i].request)
                      /\ log'[i].answer.id \in DOMAIN payments'
                      /\ payments'[log'[i].answer.id] = Stored(log'[i].request)
                      /\ \E rec \in records' :
                            Uses(log'[i].request, rec) /\ rec.id = log'[i].answer.id
    BY DEF AcceptedStored
  <2>1. CASE i = n
    BY <1>1, <1>3, <2>1
  <2>2. CASE i # n
    <3>1. i \in Accepted /\ log'[i] = log[i]
      BY <1>3, <2>2 DEF Accepted, Posts
    <3>2. /\ log[i].request \in Requests
          /\ Passes(log[i].request)
          /\ log[i].answer.id \in DOMAIN payments
          /\ payments[log[i].answer.id] = Stored(log[i].request)
          /\ \E rec \in records :
                Uses(log[i].request, rec) /\ rec.id = log[i].answer.id
      BY <3>1 DEF AcceptedStored, InputInv
    <3> QED
      BY <3>1, <3>2 DEF RowsStay
  <2> QED
    BY <2>1, <2>2
<1>8. CreatedOnce'
  <2> SUFFICES ASSUME NEW i \in DOMAIN log', NEW j \in DOMAIN log', i < j,
                      log'[j].answer.code = 202
               PROVE  log'[i].answer.id # log'[j].answer.id
    BY DEF CreatedOnce
  <2>1. i \in DOMAIN log /\ log'[i] = log[i]
    BY <1>0, <1>1
  <2>2. CASE j = n
    <3>1. log[i].answer.id \in DOMAIN payments \cup {Absent}
      BY <2>1 DEF InputInv, AnswersShow
    <3> QED
      BY <1>1, <2>1, <2>2, <3>1
  <2>3. CASE j # n
    BY <1>2, <2>1, <2>3 DEF InputInv, CreatedOnce
  <2> QED
    BY <2>2, <2>3
<1>9. GetsFind'
  <2> SUFFICES ASSUME NEW i \in Accepted', NEW j \in DOMAIN log', i < j,
                      log'[j].method = "GET", log'[j].request = log'[i].answer.id
               PROVE  log'[j].answer.id = log'[i].answer.id
    BY DEF GetsFind, Accepted, Posts
  <2>1. i \in Accepted /\ log'[i] = log[i]
    BY <1>0, <1>1, <1>3, <1>4
  <2>2. CASE j = n
    <3>1. log[i].answer.id \in DOMAIN payments
      BY <2>1 DEF InputInv, AcceptedStored
    <3> QED
      BY <1>1, <2>1, <2>2, <3>1
  <2>3. CASE j # n
    <3>1. j \in DOMAIN log /\ log'[j] = log[j]
      BY <1>2, <2>3
    <3> QED
      BY <2>1, <3>1 DEF InputInv, GetsFind
  <2> QED
    BY <2>2, <2>3
<1>10. RefusedIffRuleBroken'
  <2> SUFFICES ASSUME NEW i \in Posts'
               PROVE  LET r == log'[i].request IN
                      /\ log'[i].answer.code = 500 => \E f \in Fields : r.texts[f].word.nul
                      /\ Exact(r) => (log'[i].answer.code = 400 <=> BreaksRule(r))
    BY DEF RefusedIffRuleBroken
  <2>1. CASE i = n
    BY <1>1, <1>3, <2>1
  <2>2. CASE i # n
    <3>1. i \in Posts /\ log'[i] = log[i]
      BY <1>3, <2>2 DEF Posts
    <3>2. LET r == log[i].request IN
          /\ log[i].answer.code = 500 => \E f \in Fields : r.texts[f].word.nul
          /\ Exact(r) => (log[i].answer.code = 400 <=> BreaksRule(r))
      BY <3>1 DEF RefusedIffRuleBroken, InputInv
    <3> QED
      BY <3>1, <3>2
  <2> QED
    BY <2>1, <2>2
<1>11. SameMeaningSamePayment'
  <2> SUFFICES ASSUME NEW i \in Accepted', NEW j \in Posts', i < j,
                      log'[j].answer.code # 400,
                      SameUse(log'[i].request, log'[j].request),
                      Exact(log'[i].request), Exact(log'[j].request)
               PROVE  LET same == Meaning(log'[i].request) = Meaning(log'[j].request) IN
                      /\ log'[j].answer.code = IF same THEN 200 ELSE 409
                      /\ log'[j].answer.id = IF same THEN log'[i].answer.id ELSE Absent
    BY DEF SameMeaningSamePayment, Accepted, Posts
  <2>0. j \in DOMAIN log'
    BY DEF Posts
  <2>1. i \in Accepted /\ log'[i] = log[i]
    BY <1>0, <1>1, <1>3, <2>0 DEF Accepted, Posts
  <2>2. CASE j = n
    <3>1. log'[j] = e /\ e.method = "POST"
      BY <1>1, <1>3, <2>2
    <3> QED
      BY <2>1, <3>1
  <2>3. CASE j # n
    <3>1. j \in Posts /\ log'[j] = log[j]
      BY <1>3, <2>3 DEF Posts
    <3>2. /\ log[j].answer.code # 400
          /\ SameUse(log[i].request, log[j].request)
          /\ Exact(log[i].request) /\ Exact(log[j].request)
      BY <2>1, <3>1
    <3>3. LET same == Meaning(log[i].request) = Meaning(log[j].request) IN
          /\ log[j].answer.code = IF same THEN 200 ELSE 409
          /\ log[j].answer.id = IF same THEN log[i].answer.id ELSE Absent
      BY <2>1, <3>1, <3>2 DEF InputInv, SameMeaningSamePayment
    <3> QED
      BY <2>1, <3>1, <3>3
  <2> QED
    BY <2>2, <2>3
<1> QED
  BY <1>5, <1>6, <1>7, <1>8, <1>9, <1>10, <1>11 DEF InputInv

\* Hashes of different payments differ.
LEMMA HashesDiffer ==
    ASSUME NEW p, NEW q
    PROVE  hashPaymentSubmission(p) = hashPaymentSubmission(q) <=> p = q
BY DEF hashPaymentSubmission

\* The entries that the handlers write.
LEMMA Entries ==
    ASSUME NEW r \in Requests, NEW m \in Nat \cup {Absent}, NEW p \in PaymentType,
           NEW c \in Nat, NEW id \in Nat
    PROVE  /\ Entry("POST", r, Refused(c)) \in EntryType
           /\ Entry("POST", r, Answer(c, id, p)) \in EntryType
           /\ Entry("GET", m, Refused(c)) \in EntryType
           /\ Entry("GET", m, Answer(c, id, p)) \in EntryType
<1>1. /\ Answer(c, id, p) \in AnswerType
      /\ Refused(c) \in AnswerType
  BY DEF Answer, Refused, AnswerType
<1> QED
  BY <1>1 DEF Entry, EntryType

LEMMA LogsEntry ==
    ASSUME NEW method, NEW request, NEW answer, Log(method, request, answer)
    PROVE  log' = Append(log, Entry(method, request, answer))
BY DEF Log, Entry

\* A key without a record was not accepted before.
LEMMA UnusedKey ==
    ASSUME InputInv, NEW r \in Requests, \A rec \in records : ~Uses(r, rec)
    PROVE  \A i \in Accepted : ~SameUse(log[i].request, r)
<1> SUFFICES ASSUME NEW i \in Accepted, SameUse(log[i].request, r) PROVE FALSE
  OBVIOUS
<1>1. PICK rec \in records : Uses(log[i].request, rec)
  BY DEF InputInv, AcceptedStored
<1> QED
  BY <1>1 DEF Uses, SameUse

LEMMA RefusesStep ==
    ASSUME InputInv, NEW r \in Requests, Refuses(r)
    PROVE  InputInv'
<1> DEFINE e == Entry("POST", r, Refused(400))
<1>1. log' = Append(log, e)
  BY LogsEntry DEF Refuses
<1>2. e \in EntryType
  BY Entries DEF EntryType, Entry, Refused, Answer, AnswerType
<1>3. RowsStay /\ RecordsSound' /\ RecordsUnique'
  BY DEF Refuses, RowsStay, InputInv, InputTypeOK, RecordsSound, RecordsUnique
<1>4. /\ e.method = "POST" /\ e.request = r
      /\ e.answer.id = Absent /\ e.answer.code = 400
  BY DEF Entry, Refused, Answer
<1>5. Exact(r) => BreaksRule(r)
  BY PassesUnlessBroken DEF Refuses
<1> HIDE DEF e
<1> QED
  BY <1>1, <1>2, <1>3, <1>4, <1>5, AnswerStep

LEMMA FailsStep ==
    ASSUME InputInv, NEW r \in Requests, Fails(r)
    PROVE  InputInv'
<1> DEFINE e == Entry("POST", r, Refused(500))
<1>1. log' = Append(log, e)
  BY LogsEntry DEF Fails
<1>2. e \in EntryType
  BY Entries DEF EntryType, Entry, Refused, Answer, AnswerType
<1>3. RowsStay /\ RecordsSound' /\ RecordsUnique'
  BY DEF Fails, RowsStay, InputInv, InputTypeOK, RecordsSound, RecordsUnique
<1>4. /\ e.method = "POST" /\ e.request = r
      /\ e.answer.id = Absent /\ e.answer.code = 500
  BY DEF Entry, Refused, Answer
<1>5. (Exact(r) => ~BreaksRule(r)) /\ \E f \in Fields : r.texts[f].word.nul
  BY PassesUnlessBroken DEF Fails
<1>6. \A i \in Accepted : ~SameUse(log[i].request, r)
  BY UnusedKey DEF Fails
<1> HIDE DEF e
<1> QED
  BY <1>1, <1>2, <1>3, <1>4, <1>5, <1>6, AnswerStep

LEMMA GetStep ==
    ASSUME InputInv, NEW id \in 1..MaxRequests \cup {Absent}, Get(id)
    PROVE  InputInv'
<1> DEFINE answer == IF id = Absent THEN Refused(400) ELSE getPayment(id)
           e == Entry("GET", id, answer)
<1>1. log' = Append(log, e)
  BY LogsEntry DEF Get
<1>2. e \in EntryType
  <2>1. id \in Nat \cup {Absent}
    OBVIOUS
  <2>2. CASE id # Absent /\ id \in DOMAIN payments
    <3>1. payments[id] \in PaymentType /\ id \in Nat
      BY <2>2 DEF InputInv, InputTypeOK
    <3>2. Answer(200, id, payments[id]) \in AnswerType
      BY <3>1 DEF Answer, AnswerType
    <3> QED
      BY <2>1, <2>2, <3>2 DEF getPayment, Entry, EntryType
  <2>3. CASE ~(id # Absent /\ id \in DOMAIN payments)
    <3>1. Refused(400) \in AnswerType /\ Refused(404) \in AnswerType
      BY DEF Refused, Answer, AnswerType
    <3> QED
      BY <2>1, <2>3, <3>1 DEF getPayment, Entry, EntryType
  <2> QED
    BY <2>2, <2>3
<1>3. RowsStay /\ RecordsSound' /\ RecordsUnique'
  BY DEF Get, RowsStay, InputInv, InputTypeOK, RecordsSound, RecordsUnique
<1>4. payments' = payments
  BY DEF Get
<1>5. /\ e.method = "GET" /\ e.request = id /\ e.answer = answer
  BY DEF Entry
<1>6. /\ answer.id # Absent => /\ answer.id \in DOMAIN payments
                               /\ answer.payment = payments[answer.id]
                               /\ answer.code = 200
      /\ answer.code # 202
      /\ \A p \in DOMAIN payments : id = p => answer.id = p
  <2>1. \A p \in DOMAIN payments : p # Absent
    BY RequestsAssumption DEF InputInv, InputTypeOK
  <2> QED
    BY <2>1 DEF getPayment, Refused, Answer
<1> HIDE DEF e, answer
<1> QED
  BY <1>1, <1>2, <1>3, <1>4, <1>5, <1>6, AnswerStep

LEMMA CreatesStep ==
    ASSUME InputInv, NEW r \in Requests, Creates(r)
    PROVE  InputInv'
<1> DEFINE n == Len(payments) + 1
           e == Entry("POST", r, Answer(202, n, Stored(r)))
<1>1. log' = Append(log, e)
  BY LogsEntry DEF Creates
<1>2. /\ payments \in Seq(PaymentType)
      /\ Stored(r) \in PaymentType
      /\ payments' = Append(payments, Stored(r))
      /\ records' = records \cup {NewRecord(r, n)}
      /\ Passes(r) /\ (Exact(r) => ~BreaksRule(r))
  BY PassesUnlessBroken DEF Creates, InputInv, InputTypeOK, PaymentType
<1>3. /\ n \in Nat
      /\ payments' \in Seq(PaymentType)
      /\ n \in DOMAIN payments' /\ payments'[n] = Stored(r)
      /\ n \notin DOMAIN payments
      /\ \A id \in DOMAIN payments : id \in DOMAIN payments' /\ payments'[id] = payments[id]
  BY <1>2
<1>4. e \in EntryType
  <2>1. Answer(202, n, Stored(r)) \in AnswerType
    BY <1>2, <1>3 DEF Answer, AnswerType
  <2> QED
    BY <2>1 DEF Entry, EntryType
<1>5. /\ e.method = "POST" /\ e.request = r
      /\ e.answer.code = 202 /\ e.answer.id = n /\ e.answer.payment = Stored(r)
  BY DEF Entry, Answer
<1> HIDE DEF n, e
<1>6. RowsStay
  BY <1>2, <1>3 DEF RowsStay
<1>7. /\ NewRecord(r, n).customer = trim(r.texts["customerId"])
      /\ NewRecord(r, n).key = trim(r.key)
      /\ NewRecord(r, n).requestHash = hashPaymentSubmission(Stored(r))
      /\ NewRecord(r, n).id = n
  BY DEF NewRecord
<1>8. RecordsSound'
  BY <1>2, <1>3, <1>7 DEF RecordsSound, InputInv
<1>9. \A rec \in records : ~Uses(r, rec)
  BY DEF Creates
<1>10. RecordsUnique'
  BY <1>2, <1>7, <1>9 DEF RecordsUnique, InputInv, Uses
<1>11. Uses(r, NewRecord(r, n)) /\ NewRecord(r, n) \in records'
  BY <1>2, <1>7 DEF Uses
<1>12. \A i \in Accepted : ~SameUse(log[i].request, r)
  BY <1>9, UnusedKey
<1>13. n # Absent
  BY <1>3, RequestsAssumption
<1>14. \E rec \in records' : Uses(e.request, rec) /\ rec.id = e.answer.id
  BY <1>5, <1>7, <1>11
<1>15. e.answer.id \notin DOMAIN payments \cup {Absent}
  BY <1>3, <1>5, <1>13
<1> QED
  BY <1>1, <1>2, <1>3, <1>4, <1>5, <1>6, <1>8, <1>10, <1>12, <1>14, <1>15, AnswerStep

LEMMA ResolvesStep ==
    ASSUME InputInv, NEW r \in Requests, NEW rec \in records, Resolves(r, rec)
    PROVE  InputInv'
<1> DEFINE answer == resolveExistingPayment(rec, hashPaymentSubmission(Stored(r)))
           e == Entry("POST", r, answer)
<1>1. log' = Append(log, e)
  BY LogsEntry DEF Resolves
<1>2. /\ payments' = payments /\ records' = records
      /\ Passes(r) /\ (Exact(r) => ~BreaksRule(r))
      /\ Uses(r, rec)
  BY PassesUnlessBroken DEF Resolves
<1>3. /\ rec.id \in DOMAIN payments
      /\ rec.id \in Nat
      /\ payments[rec.id] \in PaymentType
      /\ rec.requestHash = hashPaymentSubmission(payments[rec.id])
  BY DEF InputInv, RecordsSound, InputTypeOK
<1>4. answer = IF payments[rec.id] = Stored(r)
               THEN Answer(200, rec.id, payments[rec.id]) ELSE Refused(409)
  BY <1>3, HashesDiffer DEF resolveExistingPayment
<1>5. answer \in AnswerType
  <2>1. Answer(200, rec.id, payments[rec.id]) \in AnswerType /\ Refused(409) \in AnswerType
    BY <1>3 DEF Answer, Refused, AnswerType
  <2> QED
    BY <1>4, <2>1
<1>6. IF payments[rec.id] = Stored(r)
      THEN answer.code = 200 /\ answer.id = rec.id /\ answer.payment = payments[rec.id]
      ELSE answer.code = 409 /\ answer.id = Absent
  BY <1>4 DEF Answer, Refused
<1>7. e \in EntryType
  BY <1>5 DEF Entry, EntryType
<1>8. e.method = "POST" /\ e.request = r /\ e.answer = answer
  BY DEF Entry
<1> HIDE DEF answer, e
<1>9. RowsStay /\ RecordsSound' /\ RecordsUnique'
  BY <1>2 DEF RowsStay, InputInv, InputTypeOK, RecordsSound, RecordsUnique
<1>10. ASSUME NEW i \in Accepted, SameUse(log[i].request, r),
              Exact(log[i].request), Exact(r)
       PROVE  LET same == Meaning(log[i].request) = Meaning(r) IN
              /\ e.answer.code = IF same THEN 200 ELSE 409
              /\ e.answer.id = IF same THEN log[i].answer.id ELSE Absent
  <2>1. /\ log[i].request \in Requests
        /\ Passes(log[i].request)
        /\ payments[log[i].answer.id] = Stored(log[i].request)
    BY DEF InputInv, AcceptedStored
  <2>2. PICK own \in records :
            Uses(log[i].request, own) /\ own.id = log[i].answer.id
    BY DEF InputInv, AcceptedStored
  <2>3. own = rec
    BY <1>2, <1>10, <2>2 DEF InputInv, RecordsUnique, Uses, SameUse
  <2>4. Stored(log[i].request) = Stored(r) <=> Meaning(log[i].request) = Meaning(r)
    BY <1>2, <1>10, <2>1, SameMeaningSameStored
  <2> QED
    BY <1>6, <1>8, <2>1, <2>2, <2>3, <2>4
<1>11. e.answer.id # Absent =>
        /\ e.answer.id = rec.id /\ e.answer.payment = payments[rec.id]
        /\ e.answer.code = 200
  BY <1>6, <1>8
<1>12. e.answer.code = 200 => e.answer.id = rec.id /\ payments[rec.id] = Stored(r)
  BY <1>6, <1>8
<1>13. e.answer.code \in {200, 409}
  BY <1>6, <1>8
<1> QED
  BY <1>1, <1>2, <1>3, <1>7, <1>8, <1>9, <1>10, <1>11, <1>12, <1>13, AnswerStep

LEMMA InputStep == InputInv /\ [Next]_vars => InputInv'
<1> SUFFICES ASSUME InputInv, [Next]_vars PROVE InputInv'
  OBVIOUS
<1>1. ASSUME NEW sent \in Requests, Post(sent) PROVE InputInv'
  BY <1>1, PostCases, RefusesStep, FailsStep, CreatesStep, ResolvesStep
<1>2. ASSUME NEW id \in 1..MaxRequests \cup {Absent}, Get(id) PROVE InputInv'
  BY <1>2, GetStep
<1>3. CASE UNCHANGED vars
  BY <1>3 DEF vars, InputInv, InputTypeOK, RecordsSound, RecordsUnique, AnswersShow,
              AcceptedStored, CreatedOnce, GetsFind, RefusedIffRuleBroken,
              SameMeaningSamePayment, Accepted, Posts
<1> QED
  BY <1>1, <1>2, <1>3 DEF Next

LEMMA InputInit == Init => InputInv
BY DEF Init, InputInv, InputTypeOK, RecordsSound, RecordsUnique, AnswersShow,
       AcceptedStored, CreatedOnce, GetsFind, RefusedIffRuleBroken,
       SameMeaningSamePayment, Accepted, Posts

LEMMA InputInvariant == Spec => []InputInv
BY InputInit, InputStep, PTL DEF Spec

-----------------------------------------------------------------------------
\* A payment shows the words and the amount of the exact request it was stored
\* for.
LEMMA StoredShows ==
    ASSUME NEW r \in Requests, Passes(r), Exact(r)
    PROVE  Shows(Stored(r), r)
<1>1. /\ Stored(r).amount = normalizeAmount(Coerced(r.amount))
      /\ \A f \in Fields : Stored(r).texts[f] = trim(r.texts[f])
  BY StoredParts
<1>2. /\ normalizeAmount(Coerced(r.amount)).cents < Scale[2]
      /\ (normalizeAmount(Coerced(r.amount)).integer * Scale[2]
            + normalizeAmount(Coerced(r.amount)).cents) * Base
                = Thousandths(r.amount)
  <2>1. /\ IsAmount(Coerced(r.amount)) /\ Coerced(r.amount).places <= 2
        /\ Thousandths(Coerced(r.amount)) = Thousandths(r.amount)
    BY PassedRequest, ExactReceived
  <2> QED
    BY <2>1, NormalizedValue
<1>3. \A f \in Fields : trim(r.texts[f]).word = r.texts[f].word
  BY PassedRequest, TrimmedText
<1>4. /\ \A f \in Fields : Meaning(r).words[f] = r.texts[f].word
      /\ Meaning(r).thousandths = Thousandths(r.amount)
  BY DEF Meaning
<1> QED
  BY <1>1, <1>2, <1>3, <1>4 DEF Shows

LEMMA InvShows == InputInv => ShownAsSubmitted
<1> SUFFICES ASSUME InputInv, NEW i \in Accepted, NEW j \in DOMAIN log,
                    log[i].answer.code = 202, i <= j, Names(log[j], log[i].answer.id)
             PROVE  /\ log[j].answer.code = IF i = j THEN 202 ELSE 200
                    /\ Exact(log[i].request) => Shows(log[j].answer.payment, log[i].request)
  BY DEF ShownAsSubmitted
<1>1. i \in DOMAIN log /\ i \in Nat /\ j \in Nat
  BY DEF Accepted, Posts, InputInv, InputTypeOK
<1>2. /\ log[i].request \in Requests
      /\ Passes(log[i].request)
      /\ log[i].answer.id \in DOMAIN payments
      /\ payments[log[i].answer.id] = Stored(log[i].request)
  BY DEF InputInv, AcceptedStored
<1>3. log[j].answer.id = log[i].answer.id
  BY <1>1 DEF InputInv, GetsFind, Names
<1>4. log[i].answer.id # Absent
  BY <1>2, RequestsAssumption DEF InputInv, InputTypeOK
<1>5. /\ log[j].answer.payment = Stored(log[i].request)
      /\ log[j].answer.code \in {200, 202}
  BY <1>2, <1>3, <1>4 DEF InputInv, AnswersShow
<1>6. log[j].answer.code = IF i = j THEN 202 ELSE 200
  BY <1>1, <1>3, <1>5 DEF InputInv, CreatedOnce
<1> QED
  BY <1>2, <1>5, <1>6, StoredShows

-----------------------------------------------------------------------------
\* However it is written, a request sent again is answered with the payment of
\* its first use, and a key used for another payment is a conflict: for amounts
\* written as strings, and as numbers that a double does not round.
THEOREM SameRequestSamePayment == Spec => []SameMeaningSamePayment
<1>1. InputInv => SameMeaningSamePayment
  BY DEF InputInv
<1> QED
  BY <1>1, InputInvariant, PTL

\* Of the requests whose amount is a string or a number that a double does not
\* round, exactly those that break one of the rules in BreaksRule are answered
\* 400, and only a text with a NUL makes a column refuse what passed.
THEOREM RefusalsFollowRules == Spec => []RefusedIffRuleBroken
<1>1. InputInv => RefusedIffRuleBroken
  BY DEF InputInv
<1> QED
  BY <1>1, InputInvariant, PTL

\* What a client submitted is what it, and everybody else, is shown, if its
\* amount was a string or a number that a double does not round.
THEOREM SubmissionsAreShown == Spec => []ShownAsSubmitted
BY InvShows, InputInvariant, PTL

=============================================================================
