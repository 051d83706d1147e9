---------------------------- MODULE ProposalWire ----------------------------
(***************************************************************************)
(* tools/eisa_h/pireus_proposal_wire_oracle.py: the bounded parser of      *)
(* proposal documents, for the keys of a kind=1 proposal and for those of  *)
(* a kind=2 one, which has a key more.  Both read the same document here,  *)
(* symbol by symbol; any symbol may come next, so every document is read.  *)
(* A quoted name is one symbol, every other symbol is a character.         *)
(***************************************************************************)
EXTENDS Integers, Sequences, FiniteSets

CONSTANTS Key,           \* V1_KEYS
          ContextKey, KindKey,
          PhaseKey,      \* V2_ADDED_KEY
          ContextOnly,   \* keys that a proposal may not carry
          Base,          \* 10 in the code
          MaxDigits,     \* 9
          HexLen,        \* 64
          PhaseLimit     \* 2^16

ASSUME KeyAssumption ==
  /\ IsFiniteSet(Key) /\ PhaseKey \notin Key
  /\ {ContextKey, KindKey} \subseteq Key /\ ContextKey # KindKey
  /\ ContextOnly \subseteq Key \ {ContextKey, KindKey}
ASSUME BoundAssumption ==
  /\ Base \in Nat \ {0, 1, 2} /\ MaxDigits \in Nat \ {0}
  /\ HexLen \in Nat \ {0} /\ PhaseLimit \in Nat \ {0}

Kinds == {1, 2}
Table(v) == IF v = 1 THEN Key ELSE Key \cup {PhaseKey}
\* Mutant: the loop is left a key early.
LimitShort(v) == Cardinality(Table(v)) - 1
Limit(v) == Cardinality(Table(v))

\* Mutant: context-only keys are let through.
MaskAll(v) == Table(v)
Mask(v) == Table(v) \ ContextOnly

Names == Key \cup {PhaseKey, "another"}
Digits == 0 .. Base - 1
Symbols ==
  {<<"name", k>> : k \in Names} \cup {<<"digit", d>> : d \in Digits}
    \cup {<<c, 0>> : c \in {"{", "}", ",", ":", "quote", "space", "letter a-f", "any other", "end"}}

-----------------------------------------------------------------------------
(***************************************************************************)
(* Where a parser is.  mode says what it reads next; why, the reason of a  *)
(* refusal.  numerals is history: the digits each value was read from.     *)
(***************************************************************************)
Start ==
  [mode |-> "open", why |-> "", seen |-> {}, count |-> 0, key |-> KindKey, digits |-> <<>>,
   value |-> 0, hex |-> 0, context |-> FALSE, values |-> <<>>, numerals |-> <<>>]

Fail(s, reason) == [s EXCEPT !.mode = "failed", !.why = reason]
Await(s, mode) == [s EXCEPT !.mode = mode]

\* skip(p): white space leaves the parser where it is.
OnSpace(s, c, next) == IF c[1] = "space" THEN s ELSE next

\* The name of a key: in the table, and not there before.
ReadKey(v, s, c) ==
  IF c[1] # "name" THEN Fail(s, "syntax")
  ELSE IF c[2] \notin Table(v) THEN Fail(s, "unknown key")
  ELSE IF c[2] \in s.seen THEN Fail(s, "duplicate key")
  ELSE [s EXCEPT !.mode = "colon", !.seen = @ \cup {c[2]}, !.key = c[2]]

ReadValue(s, c) ==
  IF s.key = ContextKey
  THEN IF c[1] = "quote" THEN [s EXCEPT !.mode = "hex", !.hex = 0] ELSE Fail(s, "syntax")
  ELSE IF c[1] = "digit" THEN [s EXCEPT !.mode = "digits", !.digits = <<c[2]>>, !.value = c[2]]
  ELSE Fail(s, "syntax")

\* Mutant: a digit more, and the member is not counted.
ReadHexLong(s, c) ==
  IF c[1] \in {"digit", "letter a-f"} /\ s.hex <= HexLen THEN [s EXCEPT !.hex = @ + 1]
  ELSE IF c[1] = "quote" /\ s.hex >= HexLen THEN [s EXCEPT !.mode = "after", !.context = TRUE]
  ELSE Fail(s, "syntax")

ReadHex(s, c) ==
  IF s.hex < HexLen
  THEN IF c[1] \in {"digit", "letter a-f"} THEN [s EXCEPT !.hex = @ + 1] ELSE Fail(s, "syntax")
  ELSE IF c[1] = "quote"
  THEN [s EXCEPT !.mode = "after", !.context = TRUE, !.count = @ + 1]
  ELSE Fail(s, "syntax")

\* After a member: another one unless the table is exhausted, or the end.
After(v, s, c) ==
  CASE c[1] = "}" -> Await(s, "closed")
    [] c[1] = "," -> IF s.count < Limit(v) THEN Await(s, "key") ELSE Fail(s, "loop bound")
    [] OTHER      -> Fail(s, "syntax")

Store(s) ==
  [s EXCEPT !.count = @ + 1,
            !.mode = "after",
            !.values = [k \in DOMAIN @ \cup {s.key} |->
                          IF k = s.key THEN s.value ELSE @[k]],
            !.numerals = [k \in DOMAIN @ \cup {s.key} |->
                            IF k = s.key THEN s.digits ELSE @[k]]]

\* Mutant: 007 is a numeral.
ReadDigitPadded(v, s, c) ==
  IF c[1] = "digit"
  THEN IF Len(s.digits) >= MaxDigits THEN Fail(s, "too many digits")
       ELSE [s EXCEPT !.digits = Append(@, c[2]), !.value = @ * Base + c[2]]
  ELSE OnSpace(Store(s), c, After(v, Store(s), c))

ReadDigit(v, s, c) ==
  IF c[1] = "digit"
  THEN IF Len(s.digits) >= MaxDigits THEN Fail(s, "too many digits")
       ELSE [s EXCEPT !.digits = Append(@, c[2]), !.value = @ * Base + c[2]]
  ELSE IF Len(s.digits) > 1 /\ s.digits[1] = 0 THEN Fail(s, "leading zero")
  ELSE OnSpace(Store(s), c, After(v, Store(s), c))

\* One symbol of the document read by the parser of kind v.
Step(v, s, c) ==
  CASE s.mode \in {"failed", "valid"} -> s
    [] s.mode = "open"   -> OnSpace(s, c, IF c[1] = "{" THEN Await(s, "key") ELSE Fail(s, "syntax"))
    [] s.mode = "key"    -> OnSpace(s, c, ReadKey(v, s, c))
    [] s.mode = "colon"  -> OnSpace(s, c, IF c[1] = ":" THEN Await(s, "value") ELSE Fail(s, "syntax"))
    [] s.mode = "value"  -> OnSpace(s, c, ReadValue(s, c))
    [] s.mode = "hex"    -> ReadHex(s, c)
    [] s.mode = "digits" -> ReadDigit(v, s, c)
    [] s.mode = "after"  -> OnSpace(s, c, After(v, s, c))
    [] s.mode = "closed" -> OnSpace(s, c, IF c[1] = "end" THEN Await(s, "valid") ELSE Fail(s, "syntax"))

-----------------------------------------------------------------------------
VARIABLES parser,   \* of each kind
          ended     \* the document has been read to its end

vars == <<parser, ended>>

\* A document that is empty or too long is refused without being read.
Init ==
  \/ parser = [v \in Kinds |-> Start] /\ ended = FALSE
  \/ parser = [v \in Kinds |-> Fail(Start, "size")] /\ ended = TRUE

Read ==
  /\ ~ended
  /\ \E c \in Symbols :
       /\ parser' = [v \in Kinds |-> Step(v, parser[v], c)]
       /\ ended' = (c[1] = "end")

Next == Read
Spec == Init /\ [][Next]_vars

-----------------------------------------------------------------------------
(***************************************************************************)
(* admissible(document, v): what is asked of a document that parses.       *)
(***************************************************************************)
Reasons(v) ==
  LET s        == parser[v]
      value(k) == IF k \in DOMAIN s.values THEN s.values[k] ELSE -1
  IN  IF s.mode # "valid" THEN {"PROPOSAL_FORMAT"}
      ELSE {r \in {"SEEN_MASK", "NO_CONTEXT", "KIND", "PHASE_RANGE"} :
              CASE r = "SEEN_MASK"   -> s.seen # Mask(v)
                [] r = "NO_CONTEXT"  -> ~s.context
                [] r = "KIND"        -> value(KindKey) # v
                [] r = "PHASE_RANGE" -> v = 2 /\ value(PhaseKey) \notin 0 .. PhaseLimit - 1}

Admissible(v) == ended /\ Reasons(v) = {}

-----------------------------------------------------------------------------
Modes == {"open", "key", "colon", "value", "hex", "digits", "after", "closed", "valid", "failed"}

TypeOK ==
  /\ ended \in BOOLEAN
  /\ \A v \in Kinds :
       /\ parser[v].mode \in Modes
       /\ parser[v].seen \subseteq Table(v) /\ parser[v].key \in Table(v)
       /\ parser[v].hex \in 0 .. HexLen
       /\ Len(parser[v].digits) <= MaxDigits /\ parser[v].value \in Nat
       /\ parser[v].context \in BOOLEAN

(***************************************************************************)
(* The number of members read is the number of keys seen, so the loop      *)
(* bound is never the reason unless every key of the table has been read.  *)
(***************************************************************************)
Pending == {"colon", "value", "hex", "digits"}

CountIsSeen ==
  \A v \in Kinds :
    parser[v].mode # "failed" =>
      parser[v].count + (IF parser[v].mode \in Pending THEN 1 ELSE 0) = Cardinality(parser[v].seen)

(***************************************************************************)
(* One key and no other change to the language: until a document names the *)
(* new key, or goes on after all the old ones, the two parsers are in the  *)
(* same state.                                                             *)
(***************************************************************************)
ExtensionIsConservative ==
  \/ parser[1] = parser[2]
  \/ parser[1].mode = "failed" /\ parser[1].why = "unknown key" /\ PhaseKey \in parser[2].seen
  \/ parser[1].mode = "failed" /\ parser[1].why = "loop bound" /\ Key \subseteq parser[2].seen

(***************************************************************************)
(* An admissible document sets each mandatory key exactly once, none that  *)
(* belongs to the context, and names its own kind; of kind 2, it gives a   *)
(* phase in range.  Nothing is asked of its other values.                  *)
(***************************************************************************)
AdmissibleIsExact ==
  \A v \in Kinds :
    Admissible(v) =>
      /\ parser[v].seen \cap ContextOnly = {}
      /\ DOMAIN parser[v].values \cup {ContextKey} = Table(v) \ ContextOnly
      /\ parser[v].count = Cardinality(Table(v)) - Cardinality(ContextOnly)
      /\ parser[v].values[KindKey] = v
      /\ (v = 2) = (PhaseKey \in DOMAIN parser[v].values)
      /\ v = 2 => parser[v].values[PhaseKey] \in 0 .. PhaseLimit - 1

(***************************************************************************)
(* Each value has one encoding on the wire: what makes the digest of a     *)
(* proposal mean something.                                                *)
(***************************************************************************)
Canonical[n \in Nat] ==
  IF n < Base THEN <<n>> ELSE Append(Canonical[n \div Base], n % Base)

OneEncoding ==
  \A v \in Kinds :
    parser[v].mode = "valid" =>
      \A k \in DOMAIN parser[v].values : parser[v].numerals[k] = Canonical[parser[v].values[k]]
=============================================================================
