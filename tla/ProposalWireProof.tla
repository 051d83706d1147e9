-------------------------- MODULE ProposalWireProof --------------------------
(***************************************************************************)
(* The bounded parser of proposal documents counts right, what it admits   *)
(* sets exactly the mandatory keys, the parser of kind 2 parts from that   *)
(* of kind 1 over its new key only, and no number has two encodings: for   *)
(* any table of keys, any base and bounds, and documents of any length.    *)
(*                                                                         *)
(* The mask of seen keys is set when a name is read and the value when its *)
(* digits end; the invariant says that between the two the parser owes the *)
(* value of one key, the last one, and at other times none.                *)
(***************************************************************************)
EXTENDS ProposalWire, FiniteSetTheorems, WellFoundedInduction, TLAPS

Shape(s) ==
  s = [mode |-> s.mode, why |-> s.why, seen |-> s.seen, count |-> s.count, key |-> s.key,
       digits |-> s.digits, value |-> s.value, hex |-> s.hex, context |-> s.context, values |-> s.values,
       numerals |-> s.numerals]

Typed(v, s) ==
  /\ s.mode \in Modes
  /\ s.seen \subseteq Table(v) /\ s.key \in Table(v)
  /\ s.count \in Nat
  /\ s.hex \in 0 .. HexLen /\ s.value \in Nat
  /\ s.digits \in Seq(Digits) /\ Len(s.digits) <= MaxDigits
  /\ s.context \in BOOLEAN

\* The keys whose values have been read, and those whose names have.
Got(s) == DOMAIN s.values \cup (IF s.context THEN {ContextKey} ELSE {})
Owed(s) == IF s.mode \in Pending THEN {s.key} ELSE {}

Accounted(s) ==
  /\ s.count + (IF s.mode \in Pending THEN 1 ELSE 0) = Cardinality(s.seen)
  /\ Owed(s) \subseteq s.seen
  /\ Got(s) = s.seen \ Owed(s)
  /\ ContextKey \notin DOMAIN s.values
  /\ s.mode = "hex" => s.key = ContextKey
  /\ s.mode = "digits" => s.key # ContextKey

Good(v, s) == Shape(s) /\ Typed(v, s) /\ (s.mode # "failed" => Accounted(s))

LEMMA TableFacts ==
  ASSUME NEW v \in Kinds
  PROVE  /\ IsFiniteSet(Table(v))
         /\ KindKey \in Table(v) /\ ContextKey \in Table(v)
<1>1. IsFiniteSet(Key) /\ IsFiniteSet(Key \cup {PhaseKey})
  BY KeyAssumption, FS_AddElement
<1> QED BY <1>1, KeyAssumption DEF Table

LEMMA OneMore ==
  ASSUME NEW n \in Nat, NEW h \in 0 .. n, h < n
  PROVE  h + 1 \in 0 .. n
OBVIOUS

LEMMA OneMoreDigit ==
  ASSUME NEW d \in Seq(Digits), NEW x \in Digits, Len(d) < MaxDigits
  PROVE  Append(d, x) \in Seq(Digits) /\ Len(Append(d, x)) <= MaxDigits
BY BoundAssumption

LEMMA NextValue ==
  ASSUME NEW n \in Nat, NEW b \in Nat, NEW x \in Nat
  PROVE  n * b + x \in Nat
OBVIOUS

LEMMA DigitFacts ==
  ASSUME NEW c \in Symbols, c[1] = "digit"
  PROVE  c[2] \in Digits
<1>1. CASE \E k \in Names : c = <<"name", k>>
  BY <1>1
<1>2. CASE \E d \in Digits : c = <<"digit", d>>
  BY <1>2
<1>3. CASE \E x \in {"{", "}", ",", ":", "quote", "space", "letter a-f", "any other", "end"} :
             c = <<x, 0>>
  BY <1>3
<1> QED BY <1>1, <1>2, <1>3 DEF Symbols

LEMMA StartIsGood ==
  ASSUME NEW v \in Kinds
  PROVE  Good(v, Start)
<1>1. Typed(v, Start)
  BY TableFacts, BoundAssumption DEF Typed, Start, Modes
<1>2. Accounted(Start)
  BY FS_EmptySet DEF Accounted, Start, Pending, Got, Owed
<1> QED BY <1>1, <1>2 DEF Good, Shape, Start

\* A refusal keeps the types, and nothing else is asked of it.
LEMMA FailIsGood ==
  ASSUME NEW v \in Kinds, NEW s, Good(v, s), NEW why
  PROVE  Good(v, Fail(s, why))
<1> DEFINE n == [mode |-> "failed", why |-> why, seen |-> s.seen, count |-> s.count,
                 key |-> s.key, digits |-> s.digits, value |-> s.value, hex |-> s.hex,
                 context |-> s.context, values |-> s.values, numerals |-> s.numerals]
<1>1. Fail(s, why) = n
  <2>1. Shape(s)
    BY DEF Good
  <2>2. [s EXCEPT !.mode = "failed"] =
          [mode |-> "failed", why |-> s.why, seen |-> s.seen, count |-> s.count,
           key |-> s.key, digits |-> s.digits, value |-> s.value, hex |-> s.hex,
           context |-> s.context, values |-> s.values, numerals |-> s.numerals]
    BY <2>1 DEF Shape
  <2>3. Fail(s, why) = [[s EXCEPT !.mode = "failed"] EXCEPT !.why = why]
    BY DEF Fail
  <2> QED BY <2>2, <2>3
<1> QED BY <1>1 DEF Good, Shape, Typed, Modes

\* To wait for something else changes nothing about the key that is owed.
LEMMA AwaitIsGood ==
  ASSUME NEW v \in Kinds, NEW s, Good(v, s), s.mode # "failed",
         NEW mode \in Modes \ {"hex", "digits", "failed"},
         mode \in Pending <=> s.mode \in Pending
  PROVE  Good(v, Await(s, mode))
<1>1. Await(s, mode) = [mode |-> mode, why |-> s.why, seen |-> s.seen, count |-> s.count,
                        key |-> s.key, digits |-> s.digits, value |-> s.value, hex |-> s.hex,
                        context |-> s.context, values |-> s.values, numerals |-> s.numerals]
  BY DEF Good, Shape, Await
<1> QED BY <1>1 DEF Good, Shape, Typed, Accounted, Got, Owed

LEMMA ReadKeyIsGood ==
  ASSUME NEW v \in Kinds, NEW s, Good(v, s), s.mode = "key", NEW c \in Symbols
  PROVE  Good(v, ReadKey(v, s, c))
<1>1. CASE c[1] = "name" /\ c[2] \in Table(v) /\ c[2] \notin s.seen
  <2> DEFINE n == [mode |-> "colon", why |-> s.why, seen |-> s.seen \cup {c[2]},
                   count |-> s.count, key |-> c[2], digits |-> s.digits, value |-> s.value, hex |-> s.hex,
                   context |-> s.context, values |-> s.values, numerals |-> s.numerals]
  <2>1. ReadKey(v, s, c) = n
    BY <1>1 DEF Good, Shape, ReadKey
  <2>2. IsFiniteSet(s.seen)
    BY TableFacts, FS_Subset DEF Good, Typed
  <2>3. Cardinality(n.seen) = Cardinality(s.seen) + 1
    BY <1>1, <2>2, FS_AddElement
  <2>4. Typed(v, n)
    BY <1>1 DEF Good, Typed, Modes
  <2>5. s.count = Cardinality(s.seen) /\ Got(s) = s.seen /\ ContextKey \notin DOMAIN s.values
    <3>1. s.count \in Nat /\ Accounted(s)
      BY DEF Good, Typed
    <3>2. s.mode \notin Pending
      BY DEF Pending
    <3> QED BY <3>1, <3>2 DEF Accounted, Owed
  <2>6. Accounted(n)
    BY <1>1, <2>3, <2>5 DEF Accounted, Pending, Got, Owed
  <2> QED BY <2>1, <2>4, <2>6 DEF Good, Shape
<1>2. CASE ~(c[1] = "name" /\ c[2] \in Table(v) /\ c[2] \notin s.seen)
  BY <1>2, FailIsGood DEF ReadKey
<1> QED BY <1>1, <1>2

LEMMA ReadValueIsGood ==
  ASSUME NEW v \in Kinds, NEW s, Good(v, s), s.mode = "value", NEW c \in Symbols
  PROVE  Good(v, ReadValue(s, c))
<1>1. CASE s.key = ContextKey /\ c[1] = "quote"
  <2> DEFINE n == [mode |-> "hex", why |-> s.why, seen |-> s.seen, count |-> s.count,
                   key |-> s.key, digits |-> s.digits, value |-> s.value, hex |-> 0, context |-> s.context,
                   values |-> s.values, numerals |-> s.numerals]
  <2>1. ReadValue(s, c) = n
    BY <1>1 DEF Good, Shape, ReadValue
  <2> QED BY <1>1, <2>1, BoundAssumption
          DEF Good, Shape, Typed, Accounted, Pending, Got, Owed, Modes
<1>2. CASE s.key # ContextKey /\ c[1] = "digit"
  <2> DEFINE n == [mode |-> "digits", why |-> s.why, seen |-> s.seen, count |-> s.count,
                   key |-> s.key, digits |-> <<c[2]>>, value |-> c[2], hex |-> s.hex, context |-> s.context,
                   values |-> s.values, numerals |-> s.numerals]
  <2>1. ReadValue(s, c) = n
    BY <1>2 DEF Good, Shape, ReadValue
  <2>2. c[2] \in Digits
    BY <1>2, DigitFacts
  <2>3. <<c[2]>> \in Seq(Digits) /\ Len(<<c[2]>>) <= MaxDigits
    BY <2>2, BoundAssumption
  <2>4. c[2] \in Nat
    BY <2>2, BoundAssumption DEF Digits
  <2> QED BY <1>2, <2>1, <2>3, <2>4
          DEF Good, Shape, Typed, Accounted, Pending, Got, Owed, Modes
<1>3. CASE ~(s.key = ContextKey /\ c[1] = "quote") /\ ~(s.key # ContextKey /\ c[1] = "digit")
  BY <1>3, FailIsGood DEF ReadValue
<1> QED BY <1>1, <1>2, <1>3

LEMMA AfterIsGood ==
  ASSUME NEW v \in Kinds, NEW s, Good(v, s), s.mode = "after", NEW c \in Symbols
  PROVE  Good(v, After(v, s, c))
<1>1. Good(v, Await(s, "closed")) /\ Good(v, Await(s, "key"))
  BY AwaitIsGood DEF Modes, Pending
<1> QED BY <1>1, FailIsGood DEF After

LEMMA ReadHexIsGood ==
  ASSUME NEW v \in Kinds, NEW s, Good(v, s), s.mode = "hex", NEW c \in Symbols
  PROVE  Good(v, ReadHex(s, c))
<1>1. CASE s.hex < HexLen /\ c[1] \in {"digit", "letter a-f"}
  <2> DEFINE n == [mode |-> s.mode, why |-> s.why, seen |-> s.seen, count |-> s.count,
                   key |-> s.key, digits |-> s.digits, value |-> s.value, hex |-> s.hex + 1,
                   context |-> s.context, values |-> s.values, numerals |-> s.numerals]
  <2>1. ReadHex(s, c) = n
    BY <1>1 DEF Good, Shape, ReadHex
  <2>2. s.hex + 1 \in 0 .. HexLen
    <3>1. s.hex \in 0 .. HexLen
      BY DEF Good, Typed
    <3>2. HexLen \in Nat
      BY BoundAssumption
    <3>3. s.hex < HexLen
      BY <1>1
    <3> QED BY <3>1, <3>2, <3>3, OneMore
  <2> QED BY <2>1, <2>2 DEF Good, Shape, Typed, Accounted, Pending, Got, Owed, Modes
<1>2. CASE ~(s.hex < HexLen) /\ c[1] = "quote"
  <2> DEFINE n == [mode |-> "after", why |-> s.why, seen |-> s.seen, count |-> s.count + 1,
                   key |-> s.key, digits |-> s.digits, value |-> s.value, hex |-> s.hex, context |-> TRUE,
                   values |-> s.values, numerals |-> s.numerals]
  <2>1. ReadHex(s, c) = n
    BY <1>2 DEF Good, Shape, ReadHex
  <2>2. Typed(v, n)
    BY DEF Good, Typed, Modes
  <2>3. /\ s.count + 1 = Cardinality(s.seen) /\ ContextKey \in s.seen
        /\ Got(s) = s.seen \ {ContextKey} /\ ContextKey \notin DOMAIN s.values
    BY DEF Good, Accounted, Pending, Owed
  <2>4. Accounted(n)
    BY <2>3 DEF Good, Typed, Accounted, Pending, Got, Owed
  <2> QED BY <2>1, <2>2, <2>4 DEF Good, Shape
<1>3. CASE ~(s.hex < HexLen /\ c[1] \in {"digit", "letter a-f"})
             /\ ~(~(s.hex < HexLen) /\ c[1] = "quote")
  BY <1>3, FailIsGood DEF ReadHex
<1> QED BY <1>1, <1>2, <1>3

LEMMA StoreIsGood ==
  ASSUME NEW v \in Kinds, NEW s, Good(v, s), s.mode = "digits"
  PROVE  Good(v, Store(s)) /\ Store(s).mode = "after"
<1> DEFINE with(f, x) == [k \in DOMAIN f \cup {s.key} |-> IF k = s.key THEN x ELSE f[k]]
           n == [mode |-> "after", why |-> s.why, seen |-> s.seen, count |-> s.count + 1,
                 key |-> s.key, digits |-> s.digits, value |-> s.value, hex |-> s.hex, context |-> s.context,
                 values |-> with(s.values, s.value),
                 numerals |-> with(s.numerals, s.digits)]
<1>1. Store(s) = n
  <2>1. s = [mode |-> s.mode, why |-> s.why, seen |-> s.seen, count |-> s.count,
             key |-> s.key, digits |-> s.digits, value |-> s.value, hex |-> s.hex, context |-> s.context,
             values |-> s.values, numerals |-> s.numerals]
    BY DEF Good, Shape
  <2>2. Store(s) =
          [s EXCEPT !.count = @ + 1,
                    !.mode = "after",
                    !.values = with(@, s.value),
                    !.numerals = with(@, s.digits)]
    BY Zenon DEF Store
  <2> HIDE DEF with
  <2> QED BY <2>1, <2>2
<1>2. DOMAIN n.values = DOMAIN s.values \cup {s.key}
  OBVIOUS
<1>3. Typed(v, n)
  BY DEF Good, Typed, Modes
<1>4. /\ s.count + 1 = Cardinality(s.seen) /\ s.key \in s.seen /\ s.key # ContextKey
      /\ Got(s) = s.seen \ {s.key} /\ ContextKey \notin DOMAIN s.values
  BY DEF Good, Accounted, Pending, Owed
<1> HIDE DEF with
<1>5. Accounted(n)
  BY <1>2, <1>4 DEF Good, Typed, Accounted, Pending, Got, Owed
<1> QED BY <1>1, <1>3, <1>5 DEF Good, Shape

LEMMA ReadDigitIsGood ==
  ASSUME NEW v \in Kinds, NEW s, Good(v, s), s.mode = "digits", NEW c \in Symbols
  PROVE  Good(v, ReadDigit(v, s, c))
<1>1. CASE c[1] = "digit" /\ Len(s.digits) < MaxDigits
  <2> DEFINE n == [mode |-> s.mode, why |-> s.why, seen |-> s.seen, count |-> s.count,
                   key |-> s.key, digits |-> Append(s.digits, c[2]), value |-> s.value * Base + c[2], hex |-> s.hex,
                   context |-> s.context, values |-> s.values, numerals |-> s.numerals]
  <2>1. Len(s.digits) \in Nat /\ MaxDigits \in Nat /\ s.digits \in Seq(Digits)
    BY BoundAssumption DEF Good, Typed
  <2>2. c[2] \in Digits
    BY <1>1, DigitFacts
  <2>3. Append(s.digits, c[2]) \in Seq(Digits) /\ Len(Append(s.digits, c[2])) <= MaxDigits
    BY <1>1, <2>1, <2>2, OneMoreDigit
  <2>4. ReadDigit(v, s, c) = n
    <3>1. ~(Len(s.digits) >= MaxDigits)
      BY <1>1, <2>1
    <3>2. ReadDigit(v, s, c) = [s EXCEPT !.digits = Append(s.digits, c[2]), !.value = s.value * Base + c[2]]
      BY <1>1, <3>1, Zenon DEF ReadDigit
    <3> QED BY <3>2 DEF Good, Shape
  <2>5. s.value * Base + c[2] \in Nat
    <3>1. s.value \in Nat /\ Base \in Nat /\ c[2] \in Nat
      BY <2>2, BoundAssumption DEF Good, Typed, Digits
    <3> QED BY <3>1, NextValue
  <2> QED BY <2>3, <2>4, <2>5 DEF Good, Shape, Typed, Accounted, Pending, Got, Owed, Modes
<1>2. CASE c[1] = "digit" /\ ~(Len(s.digits) < MaxDigits)
  <2>1. Len(s.digits) \in Nat /\ MaxDigits \in Nat
    BY BoundAssumption DEF Good, Typed
  <2>2. ReadDigit(v, s, c) = Fail(s, "too many digits")
    <3>1. Len(s.digits) >= MaxDigits
      BY <1>2, <2>1
    <3> QED BY <1>2, <3>1, Zenon DEF ReadDigit
  <2> QED BY <2>2, FailIsGood
<1>3. CASE c[1] # "digit"
  BY <1>3, FailIsGood, StoreIsGood, AfterIsGood DEF ReadDigit, OnSpace
<1> QED BY <1>1, <1>2, <1>3

LEMMA StepIsGood ==
  ASSUME NEW v \in Kinds, NEW s, Good(v, s), NEW c \in Symbols
  PROVE  Good(v, Step(v, s, c))
<1>m. s.mode \in Modes
  BY DEF Good, Typed
<1>1. CASE s.mode \in {"failed", "valid"}
  BY <1>1 DEF Step
<1>2. CASE s.mode = "open"
  <2>1. Good(v, Await(s, "key"))
    BY <1>2, AwaitIsGood DEF Modes, Pending
  <2> QED BY <1>2, <2>1, FailIsGood DEF Step, OnSpace
<1>3. CASE s.mode = "key"
  BY <1>3, ReadKeyIsGood DEF Step, OnSpace
<1>4. CASE s.mode = "colon"
  <2>1. Good(v, Await(s, "value"))
    BY <1>4, AwaitIsGood DEF Modes, Pending
  <2> QED BY <1>4, <2>1, FailIsGood DEF Step, OnSpace
<1>5. CASE s.mode = "value"
  BY <1>5, ReadValueIsGood DEF Step, OnSpace
<1>6. CASE s.mode = "hex"
  BY <1>6, ReadHexIsGood DEF Step
<1>7. CASE s.mode = "digits"
  BY <1>7, ReadDigitIsGood DEF Step
<1>8. CASE s.mode = "after"
  BY <1>8, AfterIsGood DEF Step, OnSpace
<1>9. CASE s.mode = "closed"
  <2>1. Good(v, Await(s, "valid"))
    BY <1>9, AwaitIsGood DEF Modes, Pending
  <2> QED BY <1>9, <2>1, FailIsGood DEF Step, OnSpace
<1> QED BY <1>m, <1>1, <1>2, <1>3, <1>4, <1>5, <1>6, <1>7, <1>8, <1>9 DEF Modes

----------------------------------------------------------------------------
IInv == ended \in BOOLEAN /\ \A v \in Kinds : Good(v, parser[v])

LEMMA AlwaysGood == Spec => []IInv
<1>1. Init => IInv
  BY StartIsGood, FailIsGood DEF Init, IInv
<1>2. IInv /\ [Next]_vars => IInv'
  <2> SUFFICES ASSUME IInv, [Next]_vars PROVE IInv'
    OBVIOUS
  <2>1. CASE Read
    <3>1. PICK c \in Symbols : /\ parser' = [v \in Kinds |-> Step(v, parser[v], c)]
                               /\ ended' = (c[1] = "end")
      BY <2>1 DEF Read
    <3> QED BY <3>1, StepIsGood DEF IInv
  <2>2. CASE UNCHANGED vars
    BY <2>2 DEF vars, IInv
  <2> QED BY <2>1, <2>2 DEF Next
<1> QED BY <1>1, <1>2, PTL DEF Spec

\* The parser's registers stay within the tables and bounds of the code.
THEOREM TypeCorrect == Spec => []TypeOK
<1>1. IInv => TypeOK
  BY DEF IInv, Good, Typed, TypeOK
<1> QED BY AlwaysGood, <1>1, PTL

(***************************************************************************)
(* Members counted and keys seen never drift apart, so the loop bound is   *)
(* reached only when the table is exhausted.                               *)
(***************************************************************************)
THEOREM CountCorrect == Spec => []CountIsSeen
<1>1. IInv => CountIsSeen
  BY DEF IInv, Good, Accounted, CountIsSeen
<1> QED BY AlwaysGood, <1>1, PTL

(***************************************************************************)
(* parse and admissible (lines 54-185): what is admitted has set every     *)
(* mandatory key once, no key of the context, and names its own kind; if   *)
(* that is 2, with a phase in range.                                       *)
(***************************************************************************)
THEOREM AdmissionExact == Spec => []AdmissibleIsExact
<1>1. IInv => AdmissibleIsExact
  <2> SUFFICES ASSUME IInv, NEW v \in Kinds, Admissible(v)
               PROVE  /\ parser[v].seen \cap ContextOnly = {}
                      /\ DOMAIN parser[v].values \cup {ContextKey} = Table(v) \ ContextOnly
                      /\ parser[v].count = Cardinality(Table(v)) - Cardinality(ContextOnly)
                      /\ parser[v].values[KindKey] = v
                      /\ (v = 2) = (PhaseKey \in DOMAIN parser[v].values)
                      /\ v = 2 => parser[v].values[PhaseKey] \in 0 .. PhaseLimit - 1
    BY DEF AdmissibleIsExact
  <2> DEFINE s == parser[v]
  <2>1. s.mode = "valid" /\ Reasons(v) = {}
    BY DEF Admissible, Reasons
  <2>2. /\ s.seen = Mask(v) /\ s.context
        /\ (IF KindKey \in DOMAIN s.values THEN s.values[KindKey] ELSE -1) = v
    BY <2>1 DEF Reasons
  <2>3. Good(v, s)
    BY DEF IInv
  <2>4. /\ s.count = Cardinality(s.seen)
        /\ DOMAIN s.values \cup {ContextKey} = s.seen /\ ContextKey \notin DOMAIN s.values
    BY <2>1, <2>2, <2>3 DEF Good, Typed, Accounted, Pending, Got, Owed
  <2>5. Cardinality(s.seen) = Cardinality(Table(v)) - Cardinality(ContextOnly)
    <3>1. ContextOnly \subseteq Table(v)
      BY KeyAssumption DEF Table
    <3>2. Table(v) \cap ContextOnly = ContextOnly
      BY <3>1
    <3> QED BY <2>2, <3>2, TableFacts, FS_Difference DEF Mask
  <2>6. s.values[KindKey] = v
    BY <2>2 DEF Kinds
  <2>7. (v = 2) = (PhaseKey \in DOMAIN s.values)
    BY <2>2, <2>4, KeyAssumption DEF Mask, Table, Kinds
  <2>8. v = 2 => s.values[PhaseKey] \in 0 .. PhaseLimit - 1
    BY <2>1, <2>7 DEF Reasons
  <2> QED BY <2>2, <2>4, <2>5, <2>6, <2>7, <2>8 DEF Mask
<1> QED BY AlwaysGood, <1>1, PTL

-----------------------------------------------------------------------------
(* The two parsers, side by side. *)

\* Waiting and failing forget no key.
LEMMA SeenStays ==
  ASSUME NEW v \in Kinds, NEW s, Good(v, s), NEW m
  PROVE  /\ Await(s, m).seen = s.seen /\ Fail(s, m).seen = s.seen
         /\ Fail(s, m).mode = "failed" /\ Fail(s, m).why = m
<1>1. Shape(s)
  BY DEF Good
<1>2. /\ [s EXCEPT !.mode = m] =
           [mode |-> m, why |-> s.why, seen |-> s.seen, count |-> s.count,
            key |-> s.key, digits |-> s.digits, value |-> s.value, hex |-> s.hex,
            context |-> s.context, values |-> s.values, numerals |-> s.numerals]
      /\ [s EXCEPT !.mode = "failed"] =
           [mode |-> "failed", why |-> s.why, seen |-> s.seen, count |-> s.count,
            key |-> s.key, digits |-> s.digits, value |-> s.value, hex |-> s.hex,
            context |-> s.context, values |-> s.values, numerals |-> s.numerals]
  BY <1>1 DEF Shape
<1>3. Fail(s, m) = [[s EXCEPT !.mode = "failed"] EXCEPT !.why = m]
  BY DEF Fail
<1>4. Fail(s, m) = [mode |-> "failed", why |-> m, seen |-> s.seen, count |-> s.count,
                    key |-> s.key, digits |-> s.digits, value |-> s.value, hex |-> s.hex,
                    context |-> s.context, values |-> s.values, numerals |-> s.numerals]
  BY <1>2, <1>3
<1> QED BY <1>2, <1>4 DEF Await

LEMMA StoreKeepsSeen ==
  ASSUME NEW v \in Kinds, NEW s, Good(v, s)
  PROVE  Store(s).seen = s.seen
<1> DEFINE with(f, x) == [k \in DOMAIN f \cup {s.key} |-> IF k = s.key THEN x ELSE f[k]]
<1>1. Shape(s)
  BY DEF Good
<1>2. Store(s) =
          [s EXCEPT !.count = @ + 1,
                    !.mode = "after",
                    !.values = with(@, s.value),
                    !.numerals = with(@, s.digits)]
    BY Zenon DEF Store
<1> HIDE DEF with
<1> QED BY <1>1, <1>2 DEF Shape

LEMMA AfterKeepsSeen ==
  ASSUME NEW v \in Kinds, NEW s, Good(v, s), NEW c \in Symbols
  PROVE  After(v, s, c).seen = s.seen
BY SeenStays, ZenonT(60) DEF After

LEMMA ReadingKeepsSeen ==
  ASSUME NEW v \in Kinds, NEW s, Good(v, s), NEW c \in Symbols
  PROVE  /\ s.seen \subseteq ReadKey(v, s, c).seen
         /\ ReadValue(s, c).seen = s.seen /\ ReadHex(s, c).seen = s.seen
         /\ After(v, s, c).seen = s.seen /\ (s.mode = "digits" => ReadDigit(v, s, c).seen = s.seen)
<1>1. Shape(s) /\ \A why : Fail(s, why).seen = s.seen
  BY SeenStays DEF Good
<1>2. s.seen \subseteq ReadKey(v, s, c).seen
  BY <1>1 DEF ReadKey, Shape
<1>3. ReadValue(s, c).seen = s.seen
  BY <1>1 DEF ReadValue, Shape
<1>4. ReadHex(s, c).seen = s.seen
  BY <1>1 DEF ReadHex, Shape
<1>5. After(v, s, c).seen = s.seen
  BY AfterKeepsSeen
<1>6. ASSUME s.mode = "digits" PROVE ReadDigit(v, s, c).seen = s.seen
  <2>1. CASE c[1] = "digit"
    BY <1>1, <2>1 DEF ReadDigit, Shape
  <2>2. CASE c[1] # "digit" /\ Len(s.digits) > 1 /\ s.digits[1] = 0
    BY <1>1, <2>2 DEF ReadDigit
  <2>3. CASE c[1] # "digit" /\ ~(Len(s.digits) > 1 /\ s.digits[1] = 0)
    <3>1. ReadDigit(v, s, c) = OnSpace(Store(s), c, After(v, Store(s), c))
      BY <2>3, Zenon DEF ReadDigit
    <3>2. Store(s).seen = s.seen /\ Good(v, Store(s))
      BY <1>6, StoreKeepsSeen, StoreIsGood
    <3>3. After(v, Store(s), c).seen = s.seen
      BY <3>2, AfterKeepsSeen
    <3> QED BY <3>1, <3>2, <3>3 DEF OnSpace
  <2> QED BY <2>1, <2>2, <2>3
<1> QED BY <1>2, <1>3, <1>4, <1>5, <1>6

\* No key is forgotten.
LEMMA StepKeepsSeen ==
  ASSUME NEW v \in Kinds, NEW s, Good(v, s), NEW c \in Symbols
  PROVE  s.seen \subseteq Step(v, s, c).seen
<1>1. s.mode \in Modes
  BY DEF Good, Typed
<1>2. /\ \A m : Await(s, m).seen = s.seen /\ Fail(s, m).seen = s.seen
      /\ s.seen \subseteq ReadKey(v, s, c).seen
      /\ ReadValue(s, c).seen = s.seen /\ ReadHex(s, c).seen = s.seen
      /\ After(v, s, c).seen = s.seen
      /\ s.mode = "digits" => ReadDigit(v, s, c).seen = s.seen
  BY SeenStays, ReadingKeepsSeen
<1>3. CASE s.mode \in {"failed", "valid"}
  BY <1>3 DEF Step
<1>4. CASE s.mode = "digits"
  BY <1>2, <1>4 DEF Step
<1>5. CASE s.mode = "hex"
  BY <1>2, <1>5 DEF Step
<1>6. CASE s.mode = "open"
  BY <1>2, <1>6 DEF Step, OnSpace
<1>7. CASE s.mode = "key"
  BY <1>2, <1>7 DEF Step, OnSpace
<1>8. CASE s.mode = "colon"
  BY <1>2, <1>8 DEF Step, OnSpace
<1>9. CASE s.mode = "value"
  BY <1>2, <1>9 DEF Step, OnSpace
<1>10. CASE s.mode = "after"
  BY <1>2, <1>10 DEF Step, OnSpace
<1>11. CASE s.mode = "closed"
  BY <1>2, <1>11 DEF Step, OnSpace
<1> QED BY <1>1, <1>3, <1>4, <1>5, <1>6, <1>7, <1>8, <1>9, <1>10, <1>11 DEF Modes

\* How the state of the one parser may come to differ from that of the other.
Apart(s, t) ==
  \/ s = t
  \/ s.mode = "failed" /\ s.why = "unknown key" /\ PhaseKey \in t.seen
  \/ s.mode = "failed" /\ s.why = "loop bound" /\ Key \subseteq t.seen

LEMMA LimitFacts ==
  /\ Table(1) = Key /\ Table(2) = Key \cup {PhaseKey} /\ 1 \in Kinds /\ 2 \in Kinds
  /\ Limit(1) \in Nat /\ Limit(2) = Limit(1) + 1 /\ IsFiniteSet(Key)
<1>1. IsFiniteSet(Key) /\ PhaseKey \notin Key
  BY KeyAssumption
<1>2. Cardinality(Key) \in Nat /\ Cardinality(Key \cup {PhaseKey}) = Cardinality(Key) + 1
  BY <1>1, FS_CardinalityType, FS_AddElement
<1> QED BY <1>1, <1>2 DEF Table, Limit, Kinds

LEMMA ReadKeyApart ==
  ASSUME NEW s, Good(1, s), Good(2, s), s.mode = "key", NEW c \in Symbols
  PROVE  Apart(ReadKey(1, s, c), ReadKey(2, s, c))
<1>1. s.seen \subseteq Key
  BY LimitFacts DEF Good, Typed
<1>2. CASE c[1] = "name" /\ c[2] = PhaseKey
  <2>1. ReadKey(1, s, c) = Fail(s, "unknown key")
    BY <1>2, LimitFacts, KeyAssumption DEF ReadKey
  <2>2. PhaseKey \in ReadKey(2, s, c).seen
    <3>1. c[2] \in Table(2) /\ c[2] \notin s.seen
      BY <1>1, <1>2, LimitFacts, KeyAssumption
    <3>2. ReadKey(2, s, c) =
            [mode |-> "colon", why |-> s.why, seen |-> s.seen \cup {c[2]},
             count |-> s.count, key |-> c[2], digits |-> s.digits, value |-> s.value, hex |-> s.hex,
             context |-> s.context, values |-> s.values, numerals |-> s.numerals]
      BY <1>2, <3>1 DEF Good, Shape, ReadKey
    <3> QED BY <1>2, <3>2
  <2>3. Fail(s, "unknown key").mode = "failed" /\ Fail(s, "unknown key").why = "unknown key"
    <3>1. 1 \in Kinds
      BY LimitFacts
    <3>2. \A why : Fail(s, why).mode = "failed" /\ Fail(s, why).why = why
      BY <3>1, SeenStays
    <3> QED BY <3>2
  <2> QED BY <2>1, <2>2, <2>3, Zenon DEF Apart
<1>3. CASE ~(c[1] = "name" /\ c[2] = PhaseKey)
  <2>1. c[1] = "name" => (c[2] \in Table(1) <=> c[2] \in Table(2))
    BY <1>3, LimitFacts
  <2>2. ReadKey(1, s, c) = ReadKey(2, s, c)
    BY <2>1, Zenon DEF ReadKey
  <2> QED BY <2>2 DEF Apart
<1> QED BY <1>2, <1>3

LEMMA AfterApart ==
  ASSUME NEW s, Good(1, s), Good(2, s), s.mode = "after", NEW c \in Symbols
  PROVE  Apart(After(1, s, c), After(2, s, c))
<1>1. /\ s.seen \subseteq Key /\ s.count = Cardinality(s.seen) /\ s.count \in Nat
  <2>1. Accounted(s) /\ s.count \in Nat /\ s.mode \notin Pending
    BY LimitFacts DEF Good, Typed, Pending
  <2> QED BY <2>1, LimitFacts DEF Good, Typed, Accounted
<1>2. CASE c[1] = "," /\ ~(s.count < Limit(1))
  <2>1. s.seen = Key
    <3>1. Limit(1) = Cardinality(Key) /\ IsFiniteSet(Key)
      BY LimitFacts DEF Limit
    <3>2. /\ Cardinality(s.seen) <= Cardinality(Key)
          /\ Cardinality(s.seen) = Cardinality(Key) => s.seen = Key
      BY <1>1, <3>1, FS_Subset
    <3>3. Limit(1) \in Nat /\ s.count \in Nat /\ ~(s.count < Limit(1)) /\ s.count <= Limit(1)
      BY <1>1, <1>2, <3>1, <3>2, LimitFacts
    <3>4. s.count = Limit(1)
      BY <3>3
    <3>5. Cardinality(s.seen) = Cardinality(Key)
      BY <1>1, <3>1, <3>4, Zenon
    <3> QED BY <3>2, <3>5
  <2>2. After(1, s, c) = Fail(s, "loop bound")
    BY <1>2 DEF After
  <2>3. After(2, s, c).seen = s.seen
    BY LimitFacts, AfterKeepsSeen
  <2>4. Fail(s, "loop bound").mode = "failed" /\ Fail(s, "loop bound").why = "loop bound"
    <3>1. 1 \in Kinds
      BY LimitFacts
    <3>2. \A why : Fail(s, why).mode = "failed" /\ Fail(s, why).why = why
      BY <3>1, SeenStays
    <3> QED BY <3>2
  <2>5. Key \subseteq After(2, s, c).seen
    BY <2>1, <2>3
  <2> QED BY <2>2, <2>4, <2>5, Zenon DEF Apart
<1>3. CASE ~(c[1] = "," /\ ~(s.count < Limit(1)))
  <2>1. c[1] = "," => s.count < Limit(1) /\ s.count < Limit(2)
    <3>1. s.count \in Nat /\ Limit(1) \in Nat /\ Limit(2) = Limit(1) + 1
      BY <1>1, LimitFacts
    <3>2. s.count < Limit(1) => s.count < Limit(2)
      BY <3>1
    <3> QED BY <1>3, <3>2, Zenon
  <2>2. After(1, s, c) = After(2, s, c)
    BY <2>1 DEF After
  <2> QED BY <2>2 DEF Apart
<1> QED BY <1>2, <1>3

LEMMA StepApart ==
  ASSUME NEW s, Good(1, s), Good(2, s), NEW c \in Symbols
  PROVE  Apart(Step(1, s, c), Step(2, s, c))
<1>1. s.mode \in Modes
  BY DEF Good, Typed
<1>2. CASE s.mode = "key"
  <2>1. /\ Step(1, s, c) = OnSpace(s, c, ReadKey(1, s, c))
        /\ Step(2, s, c) = OnSpace(s, c, ReadKey(2, s, c))
    BY <1>2 DEF Step
  <2>2. CASE c[1] = "space"
    BY <2>1, <2>2, Zenon DEF OnSpace, Apart
  <2>3. CASE c[1] # "space"
    <3>1. Step(1, s, c) = ReadKey(1, s, c) /\ Step(2, s, c) = ReadKey(2, s, c)
      BY <2>1, <2>3, Zenon DEF OnSpace
    <3> QED BY <1>2, <3>1, ReadKeyApart
  <2> QED BY <2>2, <2>3
<1>3. CASE s.mode = "after"
  <2>1. /\ Step(1, s, c) = OnSpace(s, c, After(1, s, c))
        /\ Step(2, s, c) = OnSpace(s, c, After(2, s, c))
    BY <1>3 DEF Step
  <2>2. CASE c[1] = "space"
    BY <2>1, <2>2, Zenon DEF OnSpace, Apart
  <2>3. CASE c[1] # "space"
    <3>1. Step(1, s, c) = After(1, s, c) /\ Step(2, s, c) = After(2, s, c)
      BY <2>1, <2>3, Zenon DEF OnSpace
    <3> QED BY <1>3, <3>1, AfterApart
  <2> QED BY <2>2, <2>3
<1>4. CASE s.mode = "digits"
  <2>1. Step(1, s, c) = ReadDigit(1, s, c) /\ Step(2, s, c) = ReadDigit(2, s, c)
    BY <1>4 DEF Step
  <2>2. CASE c[1] = "digit" \/ (Len(s.digits) > 1 /\ s.digits[1] = 0)
    <3>1. ReadDigit(1, s, c) = ReadDigit(2, s, c)
      BY <2>2, Zenon DEF ReadDigit
    <3> QED BY <2>1, <3>1 DEF Apart
  <2>3. CASE ~(c[1] = "digit" \/ (Len(s.digits) > 1 /\ s.digits[1] = 0))
    <3> DEFINE t == Store(s)
    <3>1. /\ ReadDigit(1, s, c) = OnSpace(t, c, After(1, t, c))
          /\ ReadDigit(2, s, c) = OnSpace(t, c, After(2, t, c))
      BY <2>3, Zenon DEF ReadDigit
    <3>2. Good(1, t) /\ Good(2, t) /\ t.mode = "after"
      BY <1>4, StoreIsGood, LimitFacts
    <3> HIDE DEF t
    <3>3. Apart(After(1, t, c), After(2, t, c))
      BY <3>2, AfterApart
    <3> QED BY <2>1, <3>1, <3>3 DEF OnSpace, Apart
  <2> QED BY <2>2, <2>3
<1>5. CASE s.mode \in Modes \ {"key", "after", "digits"}
  <2>1. Step(1, s, c) = Step(2, s, c)
    BY <1>5 DEF Step, Modes
  <2> QED BY <2>1 DEF Apart
<1> QED BY <1>1, <1>2, <1>3, <1>4, <1>5

(***************************************************************************)
(* The parser of kind 2 is the parser of kind 1 and one key more: until a  *)
(* document names that key, or goes on when all the old ones are there,    *)
(* both are in the same state (parse, lines 54-150).                       *)
(***************************************************************************)
THEOREM OneKeyMore == Spec => []ExtensionIsConservative
<1>1. Init => ExtensionIsConservative
  BY LimitFacts DEF Init, ExtensionIsConservative
<1>2. IInv /\ ExtensionIsConservative /\ [Next]_vars => ExtensionIsConservative'
  <2> SUFFICES ASSUME IInv, ExtensionIsConservative, [Next]_vars PROVE ExtensionIsConservative'
    OBVIOUS
  <2>1. CASE Read
    <3>1. PICK c \in Symbols : parser' = [v \in Kinds |-> Step(v, parser[v], c)]
      BY <2>1 DEF Read
    <3>2. parser'[1] = Step(1, parser[1], c) /\ parser'[2] = Step(2, parser[2], c)
      BY <3>1, LimitFacts
    <3>3. Good(1, parser[1]) /\ Good(2, parser[2])
      BY LimitFacts DEF IInv
    <3>4. CASE parser[1] = parser[2]
      <4>1. Apart(parser'[1], parser'[2])
        BY <3>2, <3>3, <3>4, StepApart
      <4> QED BY <4>1 DEF Apart, ExtensionIsConservative
    <3>5. CASE parser[1].mode = "failed"
      <4>1. parser'[1] = parser[1]
        BY <3>2, <3>5 DEF Step
      <4>2. parser[2].seen \subseteq parser'[2].seen
        BY <3>2, <3>3, LimitFacts, StepKeepsSeen
      <4> QED BY <3>4, <4>1, <4>2 DEF ExtensionIsConservative
    <3> QED BY <3>4, <3>5 DEF ExtensionIsConservative
  <2>2. CASE UNCHANGED vars
    BY <2>2 DEF vars, ExtensionIsConservative
  <2> QED BY <2>1, <2>2 DEF Next
<1> QED BY <1>1, <1>2, AlwaysGood, PTL DEF Spec

-----------------------------------------------------------------------------
(* Induction over the naturals, for a set. *)
Below == OpToRel(<, Nat)

LEMMA LeastElement ==
  ASSUME NEW S \in SUBSET Nat, S # {}
  PROVE  \E n \in S : \A m \in S : n <= m
<1>1. \A x, y \in Nat : <<x, y>> \in Below <=> x < y
  BY DEF Below, OpToRel
<1>2. IsWellFoundedOn(Below, Nat)
  BY NatLessThanWellFounded, Zenon DEF Below
<1>3. PICK n \in S : \A m \in S : ~(<<m, n>> \in Below)
  BY <1>2, WFMin, Zenon
<1>4. \A m \in S : ~(m < n)
  BY <1>1, <1>3
<1> QED BY <1>4

LEMMA Induction ==
  ASSUME NEW S \in SUBSET Nat, \A n \in Nat : (\A m \in 0 .. n - 1 : m \in S) => n \in S
  PROVE  S = Nat
<1> SUFFICES ASSUME Nat \ S # {} PROVE FALSE
  OBVIOUS
<1>1. PICK n \in Nat \ S : \A m \in Nat \ S : n <= m
  BY LeastElement
<1>2. \A m \in 0 .. n - 1 : m \in S
  BY <1>1
<1> QED BY <1>1, <1>2

-----------------------------------------------------------------------------
(* Canonical numerals: the definition by recursion has a solution. *)

\* Quotient and remainder.
LEMMA Quotient ==
  ASSUME NEW n \in Nat, NEW x \in Digits
  PROVE  (n * Base + x) \div Base = n /\ (n * Base + x) % Base = x
<1>1. Base \in Nat /\ Base > 0 /\ x \in Nat /\ x < Base
  BY BoundAssumption DEF Digits
<1> DEFINE y == n * Base + x
           q == y \div Base
           r == y % Base
<1>2. y \in Nat
  BY <1>1, NextValue
<1>3. q \in Nat /\ r \in 0 .. Base - 1 /\ y = q * Base + r
  <2> HIDE DEF y
  <2> QED BY <1>1, <1>2
<1>4. q = n
  <2> HIDE DEF q, r
  <2>1. q * Base + r = n * Base + x
    BY <1>3
  <2>2. CASE q < n
    <3>1. PICK k \in Nat : n = q + 1 + k
      BY <1>3, <2>2
    <3>2. n * Base = q * Base + Base + k * Base /\ k * Base \in Nat
      BY <1>1, <1>3, <3>1
    <3> QED BY <1>1, <1>3, <2>1, <3>2
  <2>3. CASE n < q
    <3>1. PICK k \in Nat : q = n + 1 + k
      BY <1>3, <2>3
    <3>2. q * Base = n * Base + Base + k * Base /\ k * Base \in Nat
      BY <1>1, <1>3, <3>1
    <3> QED BY <1>1, <1>3, <2>1, <3>2
  <2> QED BY <1>3, <2>2, <2>3
<1>5. r = x
  BY <1>1, <1>3, <1>4
<1> QED BY <1>4, <1>5

LEMMA QuotientIsLess ==
  ASSUME NEW n \in Nat, ~(n < Base)
  PROVE  n \div Base \in Nat /\ n \div Base < n /\ n \div Base > 0
<1>1. Base \in Nat /\ Base > 1
  BY BoundAssumption
<1> DEFINE q == n \div Base
           r == n % Base
<1>2. q \in Nat /\ r \in 0 .. Base - 1 /\ n = q * Base + r
  BY <1>1
<1> HIDE DEF q, r
<1>3. q # 0
  BY <1>1, <1>2
<1>4. q * Base >= q * 2
  <2>1. PICK k \in Nat : Base = 2 + k
    BY <1>1
  <2>2. q * Base = q * 2 + q * k /\ q * k \in Nat
    BY <1>2, <2>1
  <2> QED BY <1>2, <2>2
<1> QED BY <1>1, <1>2, <1>3, <1>4 DEF q

Entry(f, n) == IF n < Base THEN <<n>> ELSE Append(f[n \div Base], n % Base)
Numerals(f, m) == DOMAIN f = 0 .. m - 1 /\ \A n \in 0 .. m - 1 : f[n] = Entry(f, n)

LEMMA NumeralsExist == \A m \in Nat : \E f : Numerals(f, m)
<1> DEFINE S == {m \in Nat : \E f : Numerals(f, m)}
<1>1. ASSUME NEW m \in Nat, NEW f, Numerals(f, m) PROVE \E g : Numerals(g, m + 1)
  <2> DEFINE g == [n \in 0 .. m |-> IF n = m THEN Entry(f, m) ELSE f[n]]
  <2>1. \A n \in 0 .. m : ~(n < Base) => n \div Base \in 0 .. m - 1
    BY QuotientIsLess
  <2>2. \A n \in 0 .. m - 1 : g[n] = f[n]
    BY DEF g
  <2>3. \A n \in 0 .. m : Entry(g, n) = Entry(f, n)
    BY <2>1, <2>2 DEF Entry
  <2>4. \A n \in 0 .. m : g[n] = Entry(f, n)
    BY <1>1 DEF Numerals
  <2>5. DOMAIN g = 0 .. (m + 1) - 1
    OBVIOUS
  <2> HIDE DEF g
  <2> QED BY <2>3, <2>4, <2>5 DEF Numerals
<1>2. Numerals([n \in {} |-> 0], 0)
  BY DEF Numerals
<1>3. S = Nat
  <2>1. ASSUME NEW n \in Nat, \A m \in 0 .. n - 1 : m \in S PROVE n \in S
    <3>1. CASE n = 0
      BY <1>2, <3>1
    <3>2. CASE n > 0
      <4>1. n - 1 \in S /\ n - 1 \in Nat /\ (n - 1) + 1 = n
        BY <2>1, <3>2
      <4> QED BY <4>1, <1>1
    <3> QED BY <3>1, <3>2
  <2> HIDE DEF S
  <2>2. S \in SUBSET Nat
    BY DEF S
  <2> QED BY <2>1, <2>2, Induction
<1> QED BY <1>3

LEMMA NumeralsAgree ==
  ASSUME NEW f, NEW g, NEW k \in Nat, NEW l \in Nat, Numerals(f, k), Numerals(g, l),
         NEW n \in Nat, n < k, n < l
  PROVE  f[n] = g[n]
<1> DEFINE S == {i \in Nat : i < k /\ i < l => f[i] = g[i]}
<1>1. ASSUME NEW i \in Nat, \A j \in 0 .. i - 1 : j \in S PROVE i \in S
  <2> SUFFICES ASSUME i < k, i < l PROVE f[i] = g[i]
    OBVIOUS
  <2>1. f[i] = Entry(f, i) /\ g[i] = Entry(g, i)
    BY DEF Numerals
  <2>2. CASE i < Base
    BY <2>1, <2>2 DEF Entry
  <2>3. CASE ~(i < Base)
    <3>1. i \div Base \in 0 .. i - 1
      BY <2>3, QuotientIsLess
    <3>2. f[i \div Base] = g[i \div Base]
      BY <1>1, <3>1
    <3> QED BY <2>1, <3>2 DEF Entry
  <2> QED BY <2>2, <2>3
<1> HIDE DEF S
<1>2. S \in SUBSET Nat
  BY DEF S
<1>3. S = Nat
  BY <1>1, <1>2, Induction
<1> QED BY <1>3 DEF S

LEMMA CanonicalIs ==
  Canonical = [n \in Nat |-> IF n < Base THEN <<n>> ELSE Append(Canonical[n \div Base], n % Base)]
<1> DEFINE T(n) == CHOOSE f : Numerals(f, n)
           F == [n \in Nat |-> T(n + 1)[n]]
<1>1. \A n \in Nat : Numerals(T(n), n)
  BY NumeralsExist
<1> HIDE DEF T
<1>2. ASSUME NEW n \in Nat
      PROVE  F[n] = IF n < Base THEN <<n>> ELSE Append(F[n \div Base], n % Base)
  <2>1. F[n] = Entry(T(n + 1), n)
    BY <1>1 DEF Numerals
  <2>2. CASE ~(n < Base)
    <3> DEFINE q == n \div Base
    <3>1. q \in Nat /\ q < n
      BY <2>2, QuotientIsLess
    <3> HIDE DEF q
    <3>2. Numerals(T(n + 1), n + 1) /\ Numerals(T(q + 1), q + 1) /\ q < n + 1 /\ q < q + 1
      BY <1>1, <3>1
    <3>3. T(n + 1)[q] = T(q + 1)[q]
      BY <3>1, <3>2, NumeralsAgree
    <3>4. F[q] = T(n + 1)[q]
      BY <3>1, <3>3
    <3> HIDE DEF F
    <3> QED BY <2>1, <2>2, <3>4 DEF Entry, q
  <2>3. CASE n < Base
    BY <2>1, <2>3 DEF Entry
  <2> QED BY <2>2, <2>3
<1>3. F = [n \in Nat |-> IF n < Base THEN <<n>> ELSE Append(F[n \div Base], n % Base)]
  <2>1. F = [n \in Nat |-> F[n]]
    OBVIOUS
  <2> HIDE DEF F
  <2> QED BY <1>2, <2>1
<1>4. \E c : c = [n \in Nat |-> IF n < Base THEN <<n>> ELSE Append(c[n \div Base], n % Base)]
  BY <1>3, Zenon
<1>5. Canonical = CHOOSE c :
        c = [n \in Nat |-> IF n < Base THEN <<n>> ELSE Append(c[n \div Base], n % Base)]
  BY Zenon DEF Canonical
<1> QED BY <1>4, <1>5, Zenon

LEMMA CanonicalDigit ==
  ASSUME NEW x \in Digits
  PROVE  Canonical[x] = <<x>>
<1>1. x \in Nat /\ x < Base
  BY BoundAssumption DEF Digits
<1>2. Canonical[x] = IF x < Base THEN <<x>> ELSE Append(Canonical[x \div Base], x % Base)
  BY <1>1, CanonicalIs, Zenon
<1> QED BY <1>1, <1>2

LEMMA CanonicalNext ==
  ASSUME NEW n \in Nat, n > 0, NEW x \in Digits
  PROVE  Canonical[n * Base + x] = Append(Canonical[n], x)
<1> DEFINE y == n * Base + x
<1>1. Base \in Nat /\ x \in Nat
  BY BoundAssumption DEF Digits
<1>2. y \in Nat
  BY <1>1, NextValue
<1>3. ~(y < Base)
  <2>1. PICK k \in Nat : n = 1 + k
    OBVIOUS
  <2>2. n * Base = Base + k * Base /\ k * Base \in Nat
    BY <1>1, <2>1
  <2> QED BY <1>1, <2>2
<1>4. y \div Base = n /\ y % Base = x
  BY Quotient
<1> HIDE DEF y
<1>5. Canonical[y] = IF y < Base THEN <<y>> ELSE Append(Canonical[y \div Base], y % Base)
  BY <1>2, CanonicalIs, Zenon
<1> QED BY <1>3, <1>4, <1>5 DEF y

-----------------------------------------------------------------------------
(***************************************************************************)
(* What has been read of a numeral is that of the value so far, unless it  *)
(* has a leading zero, and then Store is never reached.                    *)
(***************************************************************************)
Padded(d) == Len(d) > 1 /\ d[1] = 0
Spells(d, n) == d = Canonical[n] /\ (n > 0 \/ d = <<0>>)

Recorded(s) ==
  \A k \in DOMAIN s.values : k \in DOMAIN s.numerals /\ s.numerals[k] = Canonical[s.values[k]]
Encoded(s) ==
  s.mode # "failed" =>
    Recorded(s) /\ (s.mode = "digits" => Padded(s.digits) \/ Spells(s.digits, s.value))

LEMMA FirstDigit ==
  ASSUME NEW x \in Digits
  PROVE  Spells(<<x>>, x)
<1>1. x \in Nat
  BY BoundAssumption DEF Digits
<1> QED BY <1>1, CanonicalDigit DEF Spells

LEMMA AnotherDigit ==
  ASSUME NEW d \in Seq(Digits), NEW n \in Nat, NEW x \in Digits, Padded(d) \/ Spells(d, n)
  PROVE  Padded(Append(d, x)) \/ Spells(Append(d, x), n * Base + x)
<1>1. Base \in Nat \ {0} /\ x \in Nat /\ Len(d) \in Nat
  BY BoundAssumption DEF Digits
<1>2. CASE Padded(d) \/ d = <<0>>
  <2>1. Len(d) > 0 /\ d[1] = 0
    BY <1>1, <1>2 DEF Padded
  <2>2. Len(Append(d, x)) = Len(d) + 1 /\ Append(d, x)[1] = d[1]
    BY <1>1, <2>1
  <2>3. Len(Append(d, x)) > 1
    BY <1>1, <2>1, <2>2
  <2> QED BY <2>1, <2>2, <2>3, Zenon DEF Padded
<1>3. CASE n > 0 /\ d = Canonical[n]
  <2>1. Canonical[n * Base + x] = Append(d, x)
    BY <1>3, CanonicalNext, Zenon
  <2>2. n * Base + x > 0
    <3>1. PICK k \in Nat : n = 1 + k
      BY <1>3
    <3>2. n * Base = Base + k * Base /\ k * Base \in Nat
      BY <1>1, <3>1
    <3> QED BY <1>1, <3>2
  <2> QED BY <2>1, <2>2 DEF Spells
<1> QED BY <1>2, <1>3 DEF Spells

\* Steps that touch no value and leave no numeral under way.
LEMMA AwaitIsEncoded ==
  ASSUME NEW v \in Kinds, NEW s, Good(v, s), s.mode # "failed", Encoded(s),
         NEW mode \in Modes \ {"digits"}
  PROVE  Encoded(Await(s, mode))
<1>1. /\ Await(s, mode).mode = mode
      /\ Await(s, mode).values = s.values /\ Await(s, mode).numerals = s.numerals
  BY DEF Good, Shape, Await
<1> QED BY <1>1 DEF Encoded, Recorded

LEMMA FailIsEncoded ==
  ASSUME NEW v \in Kinds, NEW s, Good(v, s)
  PROVE  \A why : Encoded(Fail(s, why))
BY SeenStays DEF Encoded

LEMMA AfterIsEncoded ==
  ASSUME NEW v \in Kinds, NEW s, Good(v, s), s.mode = "after", Encoded(s), NEW c \in Symbols
  PROVE  Encoded(After(v, s, c))
<1>1. Encoded(Await(s, "closed")) /\ Encoded(Await(s, "key"))
  BY AwaitIsEncoded DEF Modes
<1> QED BY <1>1, FailIsEncoded DEF After

LEMMA ReadKeyIsEncoded ==
  ASSUME NEW v \in Kinds, NEW s, Good(v, s), s.mode = "key", Encoded(s), NEW c \in Symbols
  PROVE  Encoded(ReadKey(v, s, c))
<1> DEFINE n == [s EXCEPT !.mode = "colon", !.seen = @ \cup {c[2]}, !.key = c[2]]
<1>1. n.mode = "colon" /\ n.values = s.values /\ n.numerals = s.numerals
  BY DEF Good, Shape
<1>2. Encoded(n)
  BY <1>1 DEF Encoded, Recorded
<1> HIDE DEF n
<1>3. ReadKey(v, s, c) = n \/ \E why : ReadKey(v, s, c) = Fail(s, why)
  BY Zenon DEF ReadKey, n
<1> QED BY <1>2, <1>3, FailIsEncoded

LEMMA ReadValueIsEncoded ==
  ASSUME NEW v \in Kinds, NEW s, Good(v, s), s.mode = "value", Encoded(s), NEW c \in Symbols
  PROVE  Encoded(ReadValue(s, c))
<1> DEFINE h == [s EXCEPT !.mode = "hex", !.hex = 0]
           d == [s EXCEPT !.mode = "digits", !.digits = <<c[2]>>, !.value = c[2]]
<1>1. /\ h.mode = "hex" /\ h.values = s.values /\ h.numerals = s.numerals
      /\ d.mode = "digits" /\ d.values = s.values /\ d.numerals = s.numerals
      /\ d.digits = <<c[2]>> /\ d.value = c[2]
  BY DEF Good, Shape
<1>2. Encoded(h)
  BY <1>1 DEF Encoded, Recorded
<1>3. ASSUME c[1] = "digit" PROVE Encoded(d)
  <2>1. Spells(d.digits, d.value)
    BY <1>1, <1>3, DigitFacts, FirstDigit
  <2> QED BY <1>1, <2>1 DEF Encoded, Recorded
<1> HIDE DEF h, d
<1>4. \/ ReadValue(s, c) = h
      \/ c[1] = "digit" /\ ReadValue(s, c) = d
      \/ \E why : ReadValue(s, c) = Fail(s, why)
  BY Zenon DEF ReadValue, h, d
<1> QED BY <1>2, <1>3, <1>4, FailIsEncoded

LEMMA ReadHexIsEncoded ==
  ASSUME NEW v \in Kinds, NEW s, Good(v, s), s.mode = "hex", Encoded(s), NEW c \in Symbols
  PROVE  Encoded(ReadHex(s, c))
<1> DEFINE h == [s EXCEPT !.hex = @ + 1]
           q == [s EXCEPT !.mode = "after", !.context = TRUE, !.count = @ + 1]
<1>1. /\ h.mode = "hex" /\ h.values = s.values /\ h.numerals = s.numerals
      /\ q.mode = "after" /\ q.values = s.values /\ q.numerals = s.numerals
  BY DEF Good, Shape
<1>2. Encoded(h) /\ Encoded(q)
  BY <1>1 DEF Encoded, Recorded
<1> HIDE DEF h, q
<1>3. \/ ReadHex(s, c) = h
      \/ ReadHex(s, c) = q
      \/ \E why : ReadHex(s, c) = Fail(s, why)
  BY Zenon DEF ReadHex, h, q
<1> QED BY <1>2, <1>3, FailIsEncoded

\* A value is stored together with the numeral it was read from.
LEMMA StoreIsEncoded ==
  ASSUME NEW v \in Kinds, NEW s, Good(v, s), s.mode = "digits", Encoded(s), ~ Padded(s.digits)
  PROVE  Encoded(Store(s))
<1> DEFINE with(f, x) == [k \in DOMAIN f \cup {s.key} |-> IF k = s.key THEN x ELSE f[k]]
<1>1. Shape(s)
  BY DEF Good
<1>2. Store(s) =
          [s EXCEPT !.count = @ + 1,
                    !.mode = "after",
                    !.values = with(@, s.value),
                    !.numerals = with(@, s.digits)]
    BY Zenon DEF Store
<1>3. /\ DOMAIN with(s.values, s.value) = DOMAIN s.values \cup {s.key}
      /\ DOMAIN with(s.numerals, s.digits) = DOMAIN s.numerals \cup {s.key}
      /\ \A k \in DOMAIN s.values \cup {s.key} :
           with(s.values, s.value)[k] = IF k = s.key THEN s.value ELSE s.values[k]
      /\ \A k \in DOMAIN s.numerals \cup {s.key} :
           with(s.numerals, s.digits)[k] = IF k = s.key THEN s.digits ELSE s.numerals[k]
  OBVIOUS
<1> HIDE DEF with
<1>4. /\ Store(s).mode = "after"
      /\ Store(s).values = with(s.values, s.value)
      /\ Store(s).numerals = with(s.numerals, s.digits)
  BY <1>1, <1>2 DEF Shape
<1>5. s.digits = Canonical[s.value] /\ Recorded(s)
  BY DEF Encoded, Spells
<1>6. Recorded(Store(s))
  BY <1>3, <1>4, <1>5 DEF Recorded
<1> QED BY <1>4, <1>6 DEF Encoded

LEMMA ReadDigitIsEncoded ==
  ASSUME NEW v \in Kinds, NEW s, Good(v, s), s.mode = "digits", Encoded(s), NEW c \in Symbols
  PROVE  Encoded(ReadDigit(v, s, c))
<1> DEFINE n == [s EXCEPT !.digits = Append(@, c[2]), !.value = @ * Base + c[2]]
<1>1. ASSUME c[1] = "digit" PROVE Encoded(n)
  <2>1. /\ n.mode = "digits" /\ n.values = s.values /\ n.numerals = s.numerals
        /\ n.digits = Append(s.digits, c[2]) /\ n.value = s.value * Base + c[2]
    BY DEF Good, Shape
  <2>2. s.digits \in Seq(Digits) /\ s.value \in Nat /\ c[2] \in Digits
    BY <1>1, DigitFacts DEF Good, Typed
  <2>3. Padded(n.digits) \/ Spells(n.digits, n.value)
    <3>1. Padded(s.digits) \/ Spells(s.digits, s.value)
      BY DEF Encoded
    <3> QED BY <2>1, <2>2, <3>1, AnotherDigit
  <2> HIDE DEF n
  <2> QED BY <2>1, <2>3 DEF Encoded, Recorded
<1> HIDE DEF n
<1>2. \/ c[1] = "digit" /\ ReadDigit(v, s, c) = n
      \/ \E why : ReadDigit(v, s, c) = Fail(s, why)
      \/ ~ Padded(s.digits) /\ ReadDigit(v, s, c) = OnSpace(Store(s), c, After(v, Store(s), c))
  BY Zenon DEF ReadDigit, Padded, n
<1>3. ASSUME ~ Padded(s.digits) PROVE Encoded(OnSpace(Store(s), c, After(v, Store(s), c)))
  <2>1. Good(v, Store(s)) /\ Store(s).mode = "after" /\ Encoded(Store(s))
    BY <1>3, StoreIsGood, StoreIsEncoded
  <2>2. Encoded(After(v, Store(s), c))
    BY <2>1, AfterIsEncoded
  <2> QED BY <2>1, <2>2 DEF OnSpace
<1> QED BY <1>1, <1>2, <1>3, FailIsEncoded

LEMMA StepIsEncoded ==
  ASSUME NEW v \in Kinds, NEW s, Good(v, s), Encoded(s), NEW c \in Symbols
  PROVE  Encoded(Step(v, s, c))
<1>m. s.mode \in Modes
  BY DEF Good, Typed
<1>f. \A why : Encoded(Fail(s, why))
  BY FailIsEncoded
<1>1. CASE s.mode \in {"failed", "valid"}
  BY <1>1 DEF Step
<1>2. CASE s.mode = "open"
  <2>1. Encoded(Await(s, "key"))
    BY <1>2, AwaitIsEncoded DEF Modes
  <2> QED BY <1>2, <1>f, <2>1 DEF Step, OnSpace
<1>3. CASE s.mode = "key"
  BY <1>3, ReadKeyIsEncoded DEF Step, OnSpace
<1>4. CASE s.mode = "colon"
  <2>1. Encoded(Await(s, "value"))
    BY <1>4, AwaitIsEncoded DEF Modes
  <2> QED BY <1>4, <1>f, <2>1 DEF Step, OnSpace
<1>5. CASE s.mode = "value"
  BY <1>5, ReadValueIsEncoded DEF Step, OnSpace
<1>6. CASE s.mode = "hex"
  BY <1>6, ReadHexIsEncoded DEF Step
<1>7. CASE s.mode = "digits"
  BY <1>7, ReadDigitIsEncoded DEF Step
<1>8. CASE s.mode = "after"
  BY <1>8, AfterIsEncoded DEF Step, OnSpace
<1>9. CASE s.mode = "closed"
  <2>1. Encoded(Await(s, "valid"))
    BY <1>9, AwaitIsEncoded DEF Modes
  <2> QED BY <1>9, <1>f, <2>1 DEF Step, OnSpace
<1> QED BY <1>m, <1>1, <1>2, <1>3, <1>4, <1>5, <1>6, <1>7, <1>8, <1>9 DEF Modes

(***************************************************************************)
(* parse (lines 131-142): no number that a document carries could          *)
(* have been written in another way.                                       *)
(***************************************************************************)
THEOREM NumbersAreCanonical == Spec => []OneEncoding
<1> DEFINE Enc == \A v \in Kinds : Encoded(parser[v])
<1>1. Init => Enc
  <2>1. Encoded(Start)
    BY DEF Encoded, Recorded, Start
  <2>2. Encoded(Fail(Start, "size"))
    BY LimitFacts, StartIsGood, FailIsEncoded
  <2> QED BY <2>1, <2>2 DEF Init
<1>2. IInv /\ Enc /\ [Next]_vars => Enc'
  <2> SUFFICES ASSUME IInv, Enc, [Next]_vars PROVE Enc'
    OBVIOUS
  <2>1. CASE Read
    <3>1. PICK c \in Symbols : parser' = [v \in Kinds |-> Step(v, parser[v], c)]
      BY <2>1 DEF Read
    <3> QED BY <3>1, StepIsEncoded DEF IInv
  <2>2. CASE UNCHANGED vars
    BY <2>2 DEF vars
  <2> QED BY <2>1, <2>2 DEF Next
<1>3. Enc => OneEncoding
  BY DEF Encoded, Recorded, OneEncoding
<1> QED BY <1>1, <1>2, <1>3, AlwaysGood, PTL DEF Spec
=============================================================================
