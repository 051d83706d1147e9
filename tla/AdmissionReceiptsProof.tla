----------------------- MODULE AdmissionReceiptsProof -----------------------
(***************************************************************************)
(* What the two receipts of measurements made outside the oracles can be   *)
(* trusted for: CrossEngine and MaterialParity, each with its own state.   *)
(*                                                                         *)
(* A match of CrossEngine binds, for any number of bits, any codes, any    *)
(* counts the contract may declare and any amount of tampering.            *)
(* The cases are fixed once the run begins, and a result is only returned  *)
(* for a case without a fault: Judged counts them off.  That equal tensors *)
(* belong to equal codes needs no algebra: the code is read back from the  *)
(* tensor's cells at powers of two, and every case was required to give    *)
(* back its own.                                                           *)
(* That this last requirement never fails does need algebra: the form of   *)
(* a code at two powers of two is the bit of the code there.               *)
(*                                                                         *)
(* A receipt of MaterialParity is accepted for a failed measurement only   *)
(* after three edits, for every dimension, every measurement and any       *)
(* number of edits.  Six of its lines bind the measurement; an edit loses  *)
(* one of them at most, and an acceptance needs three to be lost.          *)
(***************************************************************************)
EXTENDS CrossEngine, MaterialParity, FiniteSetTheorems, WellFoundedInduction, TLAPS

\* A sequence, whatever of.
IsSeq(s) == s \in Seq({s[n] : n \in DOMAIN s})

Shape == IsSeq(cases) /\ IsSeq(results)

Judged ==
  /\ verdict = "recording" => results = <<>>
  /\ Len(results) <= Len(cases)
  /\ \A n \in 1 .. Len(results) : CaseFault(cases[n]) = "none"
  /\ verdict = "match" => Len(results) = Len(cases) /\ common.base = Tensor({})
  /\ verdict \in {"checking", "match"} => common.digest = common.context

\* A result says what its case says.
Answered ==
  \A n \in 1 .. Len(results) :
    results[n] = [kind |-> cases[n].kind, phase |-> CodeOf(cases[n]), tensor |-> cases[n].tensor]

IInv == Shape /\ Judged /\ Answered

-----------------------------------------------------------------------------
(* Sequences. *)

LEMMA EmptyIsSeq == IsSeq(<<>>) /\ Len(<<>>) = 0
BY DEF IsSeq

LEMMA SeqFacts ==
  ASSUME NEW s, IsSeq(s)
  PROVE  Len(s) \in Nat /\ DOMAIN s = 1 .. Len(s)
BY DEF IsSeq

LEMMA AppendIsSeq ==
  ASSUME NEW s, IsSeq(s), NEW x
  PROVE  IsSeq(Append(s, x)) /\ Len(Append(s, x)) = Len(s) + 1
<1> DEFINE T == {s[n] : n \in DOMAIN s} \cup {x}
<1> DEFINE t == Append(s, x)
<1>1. s \in Seq(T)
  BY DEF IsSeq
<1>2. t \in Seq(T) /\ Len(t) = Len(s) + 1
  BY <1>1
<1>3. \A n \in 1 .. Len(t) : t[n] \in {t[m] : m \in DOMAIN t}
  BY <1>2
<1>4. t \in Seq({t[m] : m \in DOMAIN t})
  BY <1>2, <1>3, SMTT(30)
<1> QED
  BY <1>2, <1>4 DEF IsSeq

LEMMA AppendElements ==
  ASSUME NEW s, IsSeq(s), NEW x
  PROVE  /\ \A n \in 1 .. Len(s) : Append(s, x)[n] = s[n]
         /\ Append(s, x)[Len(s) + 1] = x
<1> DEFINE T == {s[n] : n \in DOMAIN s} \cup {x}
<1>1. s \in Seq(T) /\ x \in T
  BY DEF IsSeq
<1> HIDE DEF T
<1> QED
  BY <1>1

LEMMA ExceptIsSeq ==
  ASSUME NEW s, IsSeq(s), NEW n, NEW x
  PROVE  IsSeq([s EXCEPT ![n] = x])
<1> DEFINE t == [s EXCEPT ![n] = x]
<1> DEFINE T == {t[m] : m \in DOMAIN t}
<1>1. Len(s) \in Nat /\ DOMAIN t = 1 .. Len(s)
  BY SeqFacts
<1>2. t = [m \in DOMAIN t |-> t[m]]
  OBVIOUS
<1> HIDE DEF t
<1>3. t \in [1 .. Len(s) -> T]
  BY <1>1, <1>2
<1>4. t \in Seq(T)
  BY <1>1, <1>3
<1> QED
  BY <1>4 DEF IsSeq, t

-----------------------------------------------------------------------------
(* The code read back from a tensor. *)

LEMMA PowersAreLanes ==
  ASSUME NEW k \in Position
  PROVE  2^k \in Lane
<1>1. 2^0 = 1 /\ 2^1 = 2 /\ 2^2 = 4 /\ 2^3 = 8 /\ 2^4 = 16
  BY SMT
<1>2. Bits \in 1 .. 4
  BY BitsAssumption DEF MaxBits
<1>3. Bits = 1 \/ Bits = 2 \/ Bits = 3 \/ Bits = 4
  BY <1>2
<1>4. /\ Bits = 1 => 2^Bits = 2
      /\ Bits = 2 => 2^Bits = 4
      /\ Bits = 3 => 2^Bits = 8
      /\ Bits = 4 => 2^Bits = 16
  BY <1>1, Zenon
<1>5. ASSUME NEW width, width = 2^Bits
      PROVE  Lane = 0 .. (width - 1)
  BY <1>5, Zenon DEF Lane
<1>6. k \in 0 .. (Bits - 1)
  BY DEF Position
<1>7. CASE k = 0
  <2>1. 2^k = 1
    BY <1>1, <1>7, Zenon
  <2> QED
    BY <1>3, <1>4, <1>5, <1>6, <1>7, <2>1
<1>8. CASE k = 1
  <2>1. 2^k = 2
    BY <1>1, <1>8, Zenon
  <2> QED
    BY <1>3, <1>4, <1>5, <1>6, <1>8, <2>1
<1>9. CASE k = 2
  <2>1. 2^k = 4
    BY <1>1, <1>9, Zenon
  <2> QED
    BY <1>3, <1>4, <1>5, <1>6, <1>9, <2>1
<1>10. CASE k = 3
  <2>1. 2^k = 8
    BY <1>1, <1>10, Zenon
  <2> QED
    BY <1>3, <1>4, <1>5, <1>6, <1>10, <2>1
<1> QED
  BY <1>3, <1>6, <1>7, <1>8, <1>9, <1>10

(***************************************************************************)
(* recovered_code (lines 86-99) looks at cells of the tensor only.         *)
(***************************************************************************)
LEMMA RecoveredFromTensor ==
  ASSUME NEW c, NEW d, Tensor(c) = Tensor(d)
  PROVE  RecoveredCode(c) = RecoveredCode(d)
<1>1. ASSUME NEW p \in Position \X Position
      PROVE  NegativeSign(c, 2^p[1], 2^p[2]) = NegativeSign(d, 2^p[1], 2^p[2])
  <2>1. <<2^p[1], 2^p[2]>> \in Lane \X Lane
    BY PowersAreLanes
  <2>2. NegativeSign(c, 2^p[1], 2^p[2]) <=> <<2^p[1], 2^p[2]>> \in Tensor(c)
    BY <2>1 DEF Tensor
  <2>3. NegativeSign(d, 2^p[1], 2^p[2]) <=> <<2^p[1], 2^p[2]>> \in Tensor(d)
    BY <2>1 DEF Tensor
  <2> QED
    BY <2>2, <2>3 DEF NegativeSign
<1> QED
  BY <1>1 DEF RecoveredCode

\* A power of two has one bit.
LEMMA OnesOfPower ==
  ASSUME NEW k \in Position
  PROVE  Ones(2^k) = {k}
<1>1. 2^0 = 1 /\ 2^1 = 2 /\ 2^2 = 4 /\ 2^3 = 8 /\ 2^4 = 16
  BY SMT
<1>2. Position \subseteq 0 .. 3
  BY BitsAssumption DEF Position, MaxBits
<1>3. ASSUME NEW x, x \in {1, 2, 4, 8}
      PROVE  /\ Bit(x, 0) = x % 2
             /\ Bit(x, 1) = (x \div 2) % 2
             /\ Bit(x, 2) = (x \div 4) % 2
             /\ Bit(x, 3) = (x \div 8) % 2
  BY <1>1, <1>3 DEF Bit
<1>4. /\ Bit(1, 0) = 1 /\ Bit(1, 1) = 0 /\ Bit(1, 2) = 0 /\ Bit(1, 3) = 0
      /\ Bit(2, 0) = 0 /\ Bit(2, 1) = 1 /\ Bit(2, 2) = 0 /\ Bit(2, 3) = 0
      /\ Bit(4, 0) = 0 /\ Bit(4, 1) = 0 /\ Bit(4, 2) = 1 /\ Bit(4, 3) = 0
      /\ Bit(8, 0) = 0 /\ Bit(8, 1) = 0 /\ Bit(8, 2) = 0 /\ Bit(8, 3) = 1
  BY <1>3
<1>5. ASSUME NEW n \in {0, 1, 2, 3}, NEW x, \A m \in 0 .. 3 : Bit(x, m) = 1 <=> m = n, n \in Position
      PROVE  Ones(x) = {n}
  BY <1>2, <1>5 DEF Ones
<1>6. CASE k = 0
  <2>1. 2^k = 1
    BY <1>1, <1>6, Zenon
  <2>2. \A m \in 0 .. 3 : Bit(1, m) = 1 <=> m = 0
    BY <1>4
  <2> QED
    BY <1>5, <1>6, <2>1, <2>2
<1>7. CASE k = 1
  <2>1. 2^k = 2
    BY <1>1, <1>7, Zenon
  <2>2. \A m \in 0 .. 3 : Bit(2, m) = 1 <=> m = 1
    BY <1>4
  <2> QED
    BY <1>5, <1>7, <2>1, <2>2
<1>8. CASE k = 2
  <2>1. 2^k = 4
    BY <1>1, <1>8, Zenon
  <2>2. \A m \in 0 .. 3 : Bit(4, m) = 1 <=> m = 2
    BY <1>4
  <2> QED
    BY <1>5, <1>8, <2>1, <2>2
<1>9. CASE k = 3
  <2>1. 2^k = 8
    BY <1>1, <1>9, Zenon
  <2>2. \A m \in 0 .. 3 : Bit(8, m) = 1 <=> m = 3
    BY <1>4
  <2> QED
    BY <1>5, <1>9, <2>1, <2>2
<1> QED
  BY <1>2, <1>6, <1>7, <1>8, <1>9

LEMMA TauIsBoolean ==
  ASSUME NEW a \in Lane, NEW b \in Lane
  PROVE  Tau[a][b] \in BOOLEAN
BY Zenon DEF Tau

(***************************************************************************)
(* Every code is read back from its own tensor (sigma_phase, lines 62-63,  *)
(* and recovered_code): at two powers of two its form is one of its bits.  *)
(* exhaustive_injectivity (lines 255-260) tries the 65536 codes of the     *)
(* width in use.                                                           *)
(***************************************************************************)
THEOREM CodeIsRecovered ==
  ASSUME NEW p \in Code
  PROVE  RecoveredCode(p) = p
<1>1. ASSUME NEW c \in Position \X Position
      PROVE  NegativeSign(p, 2^c[1], 2^c[2]) # Tau[2^c[1]][2^c[2]] <=> c \in p
  <2>1. Bilinear(p, 2^c[1], 2^c[2]) = Odd(p \cap {c})
    <3>1. Ones(2^c[1]) = {c[1]} /\ Ones(2^c[2]) = {c[2]}
      BY OnesOfPower
    <3>2. Ones(2^c[1]) \X Ones(2^c[2]) = {c}
      BY <3>1
    <3> QED
      BY <3>2, Zenon DEF Bilinear
  <2>2. Odd(p \cap {c}) <=> c \in p
    <3>1. CASE c \in p
      <4>1. p \cap {c} = {c}
        BY <3>1
      <4>2. Cardinality({c}) = 1
        BY FS_Singleton
      <4> QED
        BY <3>1, <4>1, <4>2 DEF Odd
    <3>2. CASE c \notin p
      <4>1. p \cap {c} = {}
        BY <3>2
      <4>2. Cardinality({}) = 0
        BY FS_EmptySet
      <4> QED
        BY <3>2, <4>1, <4>2 DEF Odd
    <3> QED
      BY <3>1, <3>2
  <2>3. Tau[2^c[1]][2^c[2]] \in BOOLEAN
    BY PowersAreLanes, TauIsBoolean
  <2> DEFINE t == Tau[2^c[1]][2^c[2]]
             b == Bilinear(p, 2^c[1], 2^c[2])
  <2>4. b \in BOOLEAN /\ (b <=> c \in p)
    BY <2>1, <2>2 DEF Odd
  <2>5. NegativeSign(p, 2^c[1], 2^c[2]) <=> (t # b)
    BY Zenon DEF NegativeSign
  <2>6. NegativeSign(p, 2^c[1], 2^c[2]) \in BOOLEAN
    BY DEF NegativeSign
  <2> HIDE DEF t, b
  <2> QED
    BY <2>3, <2>4, <2>5, <2>6 DEF t
<1>2. p \subseteq Position \X Position
  BY DEF Code
<1> QED
  BY <1>1, <1>2 DEF RecoveredCode

LEMMA FaultlessCase ==
  ASSUME NEW c, CaseFault(c) = "none"
  PROVE  /\ ~BindingFault(c)
         /\ RecoveredCode(CodeOf(c)) = CodeOf(c)
         /\ ~Diverges(c)
         /\ ~KindFault(c)
BY DEF CaseFault

-----------------------------------------------------------------------------
LEMMA InitIInv == Init => IInv
BY EmptyIsSeq DEF Init, IInv, Shape, Judged, Answered

\* While a recording is made, nothing has been judged.
LEMMA RecordingStep ==
  ASSUME IInv, verdict = "recording", results' = results, IsSeq(cases'), verdict' # "match",
         verdict' = "checking" => common'.digest = common'.context
  PROVE  IInv'
<1>1. results = <<>> /\ results' = <<>>
  BY DEF IInv, Judged
<1>2. Len(results') = 0 /\ Len(cases') \in Nat
  BY <1>1, EmptyIsSeq, SeqFacts
<1> QED
  BY <1>1, <1>2, EmptyIsSeq DEF IInv, Shape, Judged, Answered

\* The run has begun: the cases stay, and a verdict is final.
LEMMA StepIInv == IInv /\ [Next]_vars => IInv'
<1> SUFFICES ASSUME IInv, [Next]_vars PROVE IInv'
  OBVIOUS
<1> USE DEF IInv
<1>1. CASE Record
  BY <1>1, AppendIsSeq, RecordingStep DEF Record, Shape
<1>2. CASE Tamper
  <2>1. PICK n \in DOMAIN cases, f \in DOMAIN Recorded(1, Proposal(1, NoPhase)) :
          \E v \in Forgeries(f) : cases' = [cases EXCEPT ![n][f] = v]
    BY <1>2 DEF Tamper
  <2>2. PICK v : cases' = [cases EXCEPT ![n] = [cases[n] EXCEPT ![f] = v]]
    BY <2>1
  <2>3. IsSeq(cases')
    BY <2>2, ExceptIsSeq DEF Shape
  <2> QED
    BY <1>2, <2>3, RecordingStep DEF Tamper
<1>3. CASE TamperCommon
  BY <1>3, RecordingStep DEF TamperCommon, Shape
<1>4. CASE SwapPhase
  <2>1. PICK n, x : cases' = [cases EXCEPT ![n] = x]
    BY <1>4 DEF SwapPhase
  <2>2. IsSeq(cases')
    BY <2>1, ExceptIsSeq DEF Shape
  <2> QED
    BY <1>4, <2>2, RecordingStep DEF SwapPhase
<1>5. CASE Start
  BY <1>5, RecordingStep DEF Start, Shape
<1>6. CASE CheckCase
  <2> DEFINE c == cases[Len(results) + 1]
  <2>1. UNCHANGED <<cases, common>> /\ verdict = "checking" /\ Len(results) < Len(cases)
    BY <1>6 DEF CheckCase
  <2>2. CASE CaseFault(c) = "none"
    <3> DEFINE r == [kind |-> c.kind, phase |-> CodeOf(c), tensor |-> c.tensor]
    <3>1. results' = Append(results, r) /\ verdict' = "checking"
      BY <1>6, <2>1, <2>2 DEF CheckCase
    <3>2. IsSeq(results') /\ Len(results') = Len(results) + 1
      BY <3>1, AppendIsSeq DEF Shape
    <3>3. Len(results) \in Nat /\ Len(cases) \in Nat
      BY SeqFacts DEF Shape
    <3>4. ASSUME NEW n \in 1 .. Len(results') PROVE CaseFault(cases[n]) = "none"
      BY <2>2, <3>2, <3>3, <3>4 DEF Judged
    <3>5. \A n \in 1 .. Len(results') : CaseFault(cases[n])' = "none"
      BY <2>1, <3>4 DEF CaseFault, BindingFault
    <3>6. \A n \in 1 .. Len(results') :
            results'[n] = [kind |-> cases[n].kind, phase |-> CodeOf(cases[n]), tensor |-> cases[n].tensor]
      <4> SUFFICES ASSUME NEW n \in 1 .. Len(results')
                   PROVE  results'[n] = [kind |-> cases[n].kind, phase |-> CodeOf(cases[n]),
                                         tensor |-> cases[n].tensor]
        OBVIOUS
      <4>1. CASE n = Len(results) + 1
        <5>1. results'[n] = r
          BY <3>1, <4>1, AppendElements DEF Shape
        <5> QED
          BY <4>1, <5>1
      <4>2. CASE n \in 1 .. Len(results)
        <5>1. results'[n] = results[n]
          BY <3>1, <4>2, AppendElements DEF Shape
        <5> QED
          BY <4>2, <5>1 DEF Answered
      <4> QED
        BY <3>2, <3>3, <4>1, <4>2
    <3>7. Answered'
      BY <2>1, <3>6 DEF Answered, CodeOf
    <3>8. Shape' /\ Len(results') <= Len(cases')
      BY <2>1, <3>2, <3>3 DEF Shape
    <3>9. common'.digest = common'.context
      BY <2>1 DEF Judged
    <3>10. verdict' # "recording" /\ verdict' # "match"
      BY <3>1
    <3> HIDE DEF c, r
    <3>11. Judged'
      BY <3>5, <3>8, <3>9, <3>10 DEF Judged
    <3> QED
      BY <3>7, <3>8, <3>11
  <2>3. CASE CaseFault(c) # "none"
    <3>1. UNCHANGED results /\ verdict' = CaseFault(c)
      BY <1>6, <2>3 DEF CheckCase
    <3>2. verdict' \notin {"recording", "match", "checking"}
      BY <2>3, <3>1 DEF CaseFault
    <3>3. \A n \in 1 .. Len(results) : CaseFault(cases[n])' = CaseFault(cases[n])
      BY <2>1 DEF CaseFault, BindingFault
    <3> QED
      BY <2>1, <3>1, <3>2, <3>3 DEF Shape, Judged, Answered, CodeOf
  <2> QED
    BY <2>2, <2>3
<1>7. CASE Conclude
  <2>1. /\ UNCHANGED <<cases, common, results>> /\ Len(results) = Len(cases)
        /\ verdict = "checking" /\ verdict' \notin {"recording", "checking"}
        /\ verdict' = "match" => common.base = Tensor({})
    BY <1>7 DEF Conclude
  <2>2. \A n \in 1 .. Len(results) : CaseFault(cases[n])' = CaseFault(cases[n])
    BY <2>1 DEF CaseFault, BindingFault
  <2> QED
    BY <2>1, <2>2 DEF Shape, Judged, Answered, CodeOf
<1>8. CASE UNCHANGED vars
  <2>1. UNCHANGED <<cases, common, tampers, results, verdict>>
    BY <1>8 DEF vars
  <2>2. \A n \in 1 .. Len(results) : CaseFault(cases[n])' = CaseFault(cases[n])
    BY <2>1 DEF CaseFault, BindingFault
  <2> QED
    BY <2>1, <2>2 DEF Shape, Judged, Answered, CodeOf
<1> QED
  BY <1>1, <1>2, <1>3, <1>4, <1>5, <1>6, <1>7, <1>8 DEF Next

LEMMA AlwaysIInv == Spec => []IInv
BY InitIInv, StepIInv, PTL DEF Spec

-----------------------------------------------------------------------------
(***************************************************************************)
(* verify says "match" only of receipts that answer the proposals they are *)
(* recorded with, in the context they all name, and whose tensors tell     *)
(* their operators apart.                                                  *)
(***************************************************************************)
THEOREM MatchDoesBind == Spec => []MatchBinds
<1>1. IInv => MatchBinds
  <2> SUFFICES ASSUME IInv, verdict = "match" PROVE MatchBinds
    BY DEF MatchBinds
  <2>1. \A n \in DOMAIN cases : CaseFault(cases[n]) = "none"
    BY SeqFacts DEF IInv, Shape, Judged
  <2>2. \A n \in DOMAIN cases :
          /\ ~BindingFault(cases[n])
          /\ RecoveredCode(CodeOf(cases[n])) = CodeOf(cases[n])
          /\ ~Diverges(cases[n])
    BY <2>1, FaultlessCase
  <2>3. \A n \in DOMAIN cases : cases[n].tensor = Tensor(CodeOf(cases[n]))
    BY <2>2 DEF Diverges
  <2>4. \A n \in DOMAIN cases :
          /\ cases[n].proposal = cases[n].wire
          /\ cases[n].context = common.digest /\ cases[n].wire.context = common.digest
    <3>1. common.digest = common.context
      BY DEF IInv, Judged
    <3> QED
      BY <3>1, <2>2 DEF BindingFault
  <2>5. ASSUME NEW m \in DOMAIN cases, NEW n \in DOMAIN cases
        PROVE  cases[m].tensor = cases[n].tensor <=> CodeOf(cases[m]) = CodeOf(cases[n])
    <3>1. ASSUME cases[m].tensor = cases[n].tensor
          PROVE  CodeOf(cases[m]) = CodeOf(cases[n])
      <4>1. Tensor(CodeOf(cases[m])) = Tensor(CodeOf(cases[n]))
        BY <2>3, <3>1
      <4> QED
        BY <2>2, <4>1, RecoveredFromTensor
    <3>2. ASSUME CodeOf(cases[m]) = CodeOf(cases[n])
          PROVE  cases[m].tensor = cases[n].tensor
      BY <2>3, <3>2
    <3> QED
      BY <3>1, <3>2
  <2>6. ASSUME NEW n \in DOMAIN cases
        PROVE  cases[n].tensor = common.base <=> CodeOf(cases[n]) = {}
    <3>1. common.base = Tensor({}) /\ cases[n].tensor = Tensor(CodeOf(cases[n]))
      BY <2>3 DEF IInv, Judged
    <3>2. RecoveredCode({}) = {}
      BY CodeIsRecovered DEF Code
    <3> QED
      BY <3>1, <3>2, <2>2, RecoveredFromTensor
  <2> QED
    BY <2>3, <2>4, <2>5, <2>6 DEF MatchBinds
<1> QED
  BY <1>1, AlwaysIInv, PTL

\* A lowering counts as code 0, and an operator with the code it names.
LEMMA ResultsAreTrue ==
  ASSUME IInv, NEW n \in DOMAIN results
  PROVE  /\ results[n].tensor = Tensor(results[n].phase)
         /\ RecoveredCode(results[n].phase) = results[n].phase
         /\ results[n].kind = "lowering" => results[n].phase = {}
<1> DEFINE c == cases[n]
<1>1. n \in 1 .. Len(results)
  BY SeqFacts DEF IInv, Shape
<1>2. CaseFault(c) = "none"
  BY <1>1 DEF IInv, Judged
<1>3. results[n].kind = c.kind /\ results[n].phase = CodeOf(c) /\ results[n].tensor = c.tensor
  <2>1. results[n] = [kind |-> c.kind, phase |-> CodeOf(c), tensor |-> c.tensor]
    BY <1>1, Zenon DEF IInv, Answered
  <2> HIDE DEF c
  <2> QED
    BY <2>1
<1> HIDE DEF c
<1>4. /\ RecoveredCode(CodeOf(c)) = CodeOf(c) /\ c.tensor = Tensor(CodeOf(c))
      /\ ~KindFault(c)
  BY <1>2, FaultlessCase DEF Diverges
<1>5. c.kind = "lowering" => c.wire.kind = 1
  BY <1>4 DEF KindFault
<1>6. c.kind = "lowering" => CodeOf(c) = {}
  BY <1>5 DEF CodeOf
<1> QED
  BY <1>3, <1>4, <1>6

LEMMA StepLate == IInv /\ LateErrorsAreExcluded /\ [Next]_vars => LateErrorsAreExcluded'
<1> SUFFICES ASSUME IInv, LateErrorsAreExcluded, [Next]_vars PROVE LateErrorsAreExcluded'
  OBVIOUS
<1> USE DEF LateErrorsAreExcluded
<1>1. CASE Record \/ Tamper \/ TamperCommon \/ SwapPhase \/ Start
  BY <1>1 DEF Record, Tamper, TamperCommon, SwapPhase, Start
<1>2. CASE CheckCase
  <2> DEFINE c == cases[Len(results) + 1]
  <2>1. verdict' = verdict \/ verdict' = CaseFault(c)
    BY <1>2 DEF CheckCase
  <2> HIDE DEF c
  <2>2. CaseFault(c) # "not recoverable"
    BY CodeIsRecovered DEF CaseFault
  <2>3. CaseFault(c) \in {"header", "binding", "kind", "phase code out of range",
                          "not recoverable", "divergence", "none"}
    BY DEF CaseFault
  <2> QED
    BY <2>1, <2>2, <2>3
<1>3. CASE Conclude
  <2>1. ASSUME NEW r \in Lowerings PROVE r.tensor = Tensor({})
    BY ResultsAreTrue DEF Lowerings, Results
  <2>2. ASSUME NEW r \in Operators, r.phase = {} PROVE r.tensor = Tensor({})
    BY <2>2, ResultsAreTrue DEF Operators, Results
  <2>3. ASSUME NEW r \in Operators, NEW s \in Operators, r.tensor = s.tensor
        PROVE  r.phase = s.phase
    <3>1. /\ Tensor(r.phase) = Tensor(s.phase)
          /\ RecoveredCode(r.phase) = r.phase /\ RecoveredCode(s.phase) = s.phase
      BY <2>3, ResultsAreTrue, ZenonT(60) DEF Operators, Results
    <3> QED
      BY <3>1, RecoveredFromTensor
  <2>4. ~\E r \in Lowerings : r.tensor # Tensor({})
    BY <2>1
  <2>5. ~\E r \in {r \in Operators : r.phase = {}} : r.tensor # Tensor({})
    BY <2>2
  <2>6. ~\E r, s \in Operators : r.tensor = s.tensor /\ r.phase # s.phase
    BY <2>3
  <2>7. verdict' \in {"operator count", "no kind=1", "base digest drift", "no phase 0",
                      "distinct count", "match"}
    BY <1>3, <2>4, <2>5, <2>6 DEF Conclude
  <2> QED
    BY <2>7
<1>4. CASE UNCHANGED vars
  BY <1>4 DEF vars
<1> QED
  BY <1>1, <1>2, <1>3, <1>4 DEF Next

(***************************************************************************)
(* verify (lines 202-252): once every case has passed, no tensor of the    *)
(* set can be another one's or another than its code's, so four of its     *)
(* errors are never reported.                                              *)
(***************************************************************************)
THEOREM LateErrorsNeverCome == Spec => []LateErrorsAreExcluded
<1>1. Init => LateErrorsAreExcluded
  BY DEF Init, LateErrorsAreExcluded
<1> QED
  BY <1>1, StepLate, AlwaysIInv, PTL DEF Spec

-----------------------------------------------------------------------------
(* Texts: sequences of lines, and what one edit does to them.              *)

Words == {"", "C++", "MATERIAL_PARITY", "Sounio", "SEMANTIC_AUTHORITY", "digest", "xeon",
          "FE_TONEAREST", "PASS", "FAIL", "forged"}
Keys  == RequiredFields \cup Banned \cup {"", "comment", "timing_ns"}
Value == {Num(n) : n \in Int} \cup {Flag(b) : b \in BOOLEAN} \cup {Text(w) : w \in Words}
Line  == Keys \X Value

\* One line altered, one taken out, one put at the end.
Edited(text, next) ==
  \/ \E n \in DOMAIN text : \E l \in Altered(text[n]) : next = [text EXCEPT ![n] = l]
  \/ \E n \in DOMAIN text : next = RemoveAt(text, n)
  \/ \E l \in Added : next = Append(text, l)

LEMMA Tagged ==
  /\ \A n \in Int : Num(n) \in Value
  /\ \A b \in BOOLEAN : Flag(b) \in Value
  /\ \A w \in Words : Text(w) \in Value
BY DEF Value

LEMMA Pair ==
  ASSUME NEW k \in Keys, NEW v \in Value
  PROVE  <<k, v>> \in Line /\ <<k, v>>[1] = k
BY DEF Line

LEMMA AlteredLine ==
  ASSUME NEW line \in Line, NEW l \in Altered(line)
  PROVE  /\ l \in Line
         /\ l[1] \in {line[1], ""}
<1>0. line[1] \in Keys /\ NoField \in Line /\ NoField[1] = ""
  <2>1. line[1] \in Keys /\ "" \in Keys
    BY DEF Line, Keys
  <2>2. Text("") \in Value
    BY Tagged DEF Words
  <2> QED BY <2>1, <2>2, Pair DEF NoField
<1> DEFINE new == CASE line[1] \in IntFields  -> {<<line[1], Num(n)>> : n \in {-1, 0, 1}}
                    [] line[1] \in BoolFields -> {<<line[1], Flag(b)>> : b \in BOOLEAN}
                    [] line[1] = "result"     -> {<<line[1], Text(r)>> : r \in {"PASS", "FAIL"}}
                    [] OTHER                  -> {}
<1>1. l \in {NoField, <<line[1], Text("forged")>>} \cup new
  BY DEF Altered
<1>2. \A v \in Value : <<line[1], v>> \in Line /\ <<line[1], v>>[1] = line[1]
  BY <1>0, Pair
<1>3. ASSUME l \in new PROVE \E v \in Value : l = <<line[1], v>>
  <2>1. \/ \E n \in {-1, 0, 1} : l = <<line[1], Num(n)>>
        \/ \E b \in BOOLEAN : l = <<line[1], Flag(b)>>
        \/ \E r \in {"PASS", "FAIL"} : l = <<line[1], Text(r)>>
    <3>1. CASE line[1] \in IntFields
      BY <1>3, <3>1, Zenon DEF IntFields, BoolFields
    <3>2. CASE line[1] \in BoolFields
      BY <1>3, <3>2, Zenon DEF IntFields, BoolFields
    <3>3. CASE line[1] = "result"
      BY <1>3, <3>3, Zenon DEF IntFields, BoolFields
    <3>4. CASE line[1] \notin IntFields \cup BoolFields \cup {"result"}
      BY <1>3, <3>4, Zenon
    <3> QED BY <3>1, <3>2, <3>3, <3>4
  <2>2. \A n \in {-1, 0, 1} : Num(n) \in Value
    BY Tagged
  <2>3. \A b \in BOOLEAN : Flag(b) \in Value
    BY Tagged
  <2>4. \A r \in {"PASS", "FAIL"} : Text(r) \in Value
    BY Tagged DEF Words
  <2> QED BY <2>1, <2>2, <2>3, <2>4, Zenon
<1>4. CASE l = NoField
  BY <1>0, <1>4
<1>5. CASE l = <<line[1], Text("forged")>>
  <2>1. Text("forged") \in Value
    BY Tagged DEF Words
  <2> QED BY <1>2, <1>5, <2>1
<1>6. CASE l \in new
  <2>1. PICK v \in Value : l = <<line[1], v>>
    BY <1>3, <1>6
  <2> QED BY <1>2, <2>1
<1> QED BY <1>1, <1>4, <1>5, <1>6

LEMMA AddedLine == Added \subseteq Line
<1>1. /\ Text("") \in Value /\ Num(1) \in Value /\ Text("PASS") \in Value /\ Num(0) \in Value
  <2>1. "" \in Words /\ "PASS" \in Words
    BY DEF Words
  <2>2. Text("") \in Value /\ Text("PASS") \in Value
    BY <2>1, Tagged
  <2>3. Num(0) \in Value /\ Num(1) \in Value
    BY Tagged
  <2> QED BY <2>2, <2>3
<1>2. {"", "comment", "timing_ns", "speedup_ratio", "result", "vector_mismatching_lanes"}
        \subseteq Keys
  BY DEF Keys, Banned, RequiredFields, IntFields
<1>3. /\ <<"", Text("")>> \in Line /\ <<"comment", Text("")>> \in Line
      /\ <<"timing_ns", Num(1)>> \in Line /\ <<"speedup_ratio", Num(1)>> \in Line
      /\ <<"result", Text("PASS")>> \in Line /\ <<"vector_mismatching_lanes", Num(0)>> \in Line
  BY <1>1, <1>2, Pair
<1> QED BY <1>3 DEF Added, NoField

LEMMA Removed ==
  ASSUME NEW text \in Seq(Line), NEW n \in DOMAIN text
  PROVE  /\ RemoveAt(text, n) \in Seq(Line)
         /\ Len(RemoveAt(text, n)) = Len(text) - 1
         /\ \A m \in 1 .. n - 1 : RemoveAt(text, n)[m] = text[m]
         /\ \A m \in n .. Len(text) - 1 : RemoveAt(text, n)[m] = text[m + 1]
<1> DEFINE before == SubSeq(text, 1, n - 1)
           after  == SubSeq(text, n + 1, Len(text))
<1>1. /\ n \in 1 .. Len(text) /\ Len(text) \in Nat
      /\ before \in Seq(Line) /\ Len(before) = n - 1
      /\ after \in Seq(Line) /\ Len(after) = Len(text) - n
  OBVIOUS
<1>2. \A m \in 1 .. n - 1 : before[m] = text[m]
  BY <1>1
<1>3. ASSUME NEW m \in 1 .. Len(text) - n PROVE after[m] = text[m + n]
  <2>1. /\ text \in Seq(Line) /\ n + 1 \in Int /\ Len(text) \in Int
        /\ m \in 1 .. Len(text) - (n + 1) + 1
    BY <1>1
  <2>2. after[m] = text[n + 1 + m - 1]
    BY <2>1
  <2>3. n + 1 + m - 1 = m + n
    BY <1>1
  <2> QED BY <2>2, <2>3
<1>4. RemoveAt(text, n) = before \o after
  BY DEF RemoveAt
<1> HIDE DEF before, after
<1>5. before \o after \in Seq(Line) /\ Len(before \o after) = Len(text) - 1
  BY <1>1
<1>6. \A m \in 1 .. n - 1 : (before \o after)[m] = before[m]
  BY <1>1
<1>7. ASSUME NEW m \in n .. Len(text) - 1 PROVE (before \o after)[m] = text[m + 1]
  <2>1. (before \o after)[m] = after[m - (n - 1)]
    BY <1>1
  <2>2. m - (n - 1) \in 1 .. Len(text) - n /\ m - (n - 1) + n = m + 1
    BY <1>1
  <2> QED BY <1>3, <2>1, <2>2
<1> QED BY <1>2, <1>4, <1>5, <1>6, <1>7

\* A line that was in the text before is in it still, one excepted.
LEMMA EditedText ==
  ASSUME NEW text \in Seq(Line), NEW next, Edited(text, next)
  PROVE  /\ next \in Seq(Line)
         /\ \E n \in Nat : \A m \in DOMAIN text \ {n} : \E j \in DOMAIN next : next[j] = text[m]
<1>1. ASSUME NEW n \in DOMAIN text, NEW l \in Altered(text[n]), next = [text EXCEPT ![n] = l]
      PROVE  /\ next \in Seq(Line)
             /\ \A m \in DOMAIN text \ {n} : \E j \in DOMAIN next : next[j] = text[m]
  <2>1. text[n] \in Line
    OBVIOUS
  <2>2. l \in Line
    BY <2>1, AlteredLine
  <2>3. DOMAIN next = DOMAIN text /\ next \in Seq(Line)
    BY <1>1, <2>2
  <2> QED BY <1>1, <2>3
<1>2. ASSUME NEW n \in DOMAIN text, next = RemoveAt(text, n)
      PROVE  /\ next \in Seq(Line)
             /\ \A m \in DOMAIN text \ {n} : \E j \in DOMAIN next : next[j] = text[m]
  <2>1. /\ next \in Seq(Line) /\ Len(next) = Len(text) - 1
        /\ \A m \in 1 .. n - 1 : next[m] = text[m]
        /\ \A m \in n .. Len(text) - 1 : next[m] = text[m + 1]
    BY <1>2, Removed
  <2>2. DOMAIN next = 1 .. Len(text) - 1 /\ DOMAIN text = 1 .. Len(text) /\ Len(text) \in Nat
    BY <2>1
  <2>3. ASSUME NEW m \in DOMAIN text, m # n PROVE \E j \in DOMAIN next : next[j] = text[m]
    <3>1. CASE m < n
      BY <2>1, <2>2, <2>3, <3>1, SMTT(30)
    <3>2. CASE m > n
      <4>1. m - 1 \in n .. Len(text) - 1 /\ m - 1 \in DOMAIN next
        BY <2>2, <3>2
      <4>2. next[m - 1] = text[m - 1 + 1]
        BY <2>1, <4>1
      <4>3. m - 1 + 1 = m
        BY <2>2
      <4> QED BY <4>1, <4>2, <4>3
    <3> QED BY <2>2, <2>3, <3>1, <3>2
  <2> QED BY <2>1, <2>3
<1>3. ASSUME NEW l \in Added, next = Append(text, l)
      PROVE  /\ next \in Seq(Line)
             /\ \A m \in DOMAIN text \ {0} : \E j \in DOMAIN next : next[j] = text[m]
  <2>1. l \in Line
    BY AddedLine
  <2> QED BY <1>3, <2>1
<1>4. DOMAIN text \subseteq Nat
  OBVIOUS
<1> QED BY <1>1, <1>2, <1>3, <1>4 DEF Edited

-----------------------------------------------------------------------------
(* Reading: what a text without an unread line says, it says once.         *)

LEMMA FieldsRead ==
  ASSUME NEW text \in Seq(Line), Unread(text) = {}
  PROVE  /\ DOMAIN Fields(text) = {text[n][1] : n \in DOMAIN text}
         /\ \A n \in DOMAIN text :
              text[n][1] \in DOMAIN Fields(text) /\ Fields(text)[text[n][1]] = text[n][2]
<1>1. DOMAIN Fields(text) = {text[n][1] : n \in DOMAIN text}
  BY DEF Fields
<1>2. ASSUME NEW n \in DOMAIN text
      PROVE  text[n][1] \in DOMAIN Fields(text) /\ Fields(text)[text[n][1]] = text[n][2]
  <2> DEFINE first == CHOOSE m \in DOMAIN text : text[m][1] = text[n][1]
  <2>1. first \in DOMAIN text /\ text[first][1] = text[n][1]
    OBVIOUS
  <2>2. first = n
    <3>1. \A i, j \in DOMAIN text : j < i => text[j][1] # text[i][1]
      <4>1. ASSUME NEW i \in DOMAIN text, NEW j \in DOMAIN text, j < i, text[j][1] = text[i][1]
            PROVE  FALSE
        <5>1. j \in 1 .. i - 1
          BY <4>1
        <5>2. i \in Repeated(text)
          BY <4>1, <5>1 DEF Repeated
        <5> QED BY <5>2 DEF Unread
      <4> QED BY <4>1
    <3>2. first \in Int /\ n \in Int
      BY <2>1
    <3> HIDE DEF first
    <3> QED BY <2>1, <3>1, <3>2
  <2>3. text[n][1] \in DOMAIN Fields(text)
    BY <1>1
  <2>4. Fields(text)[text[n][1]] = text[first][2]
    BY <2>3 DEF Fields
  <2> QED BY <2>2, <2>3, <2>4
<1> QED BY <1>1, <1>2

\* A field that both texts have differs in one key at most.
LEMMA OneField ==
  ASSUME NEW text \in Seq(Line), NEW next, Edited(text, next),
         Unread(text) = {}, Unread(next) = {}
  PROVE  \E key : \A k \in DOMAIN Fields(text) \cap DOMAIN Fields(next) :
           k # key => Fields(next)[k] = Fields(text)[k]
<1>1. next \in Seq(Line)
  BY EditedText
<1>2. PICK n \in Nat : \A m \in DOMAIN text \ {n} : \E j \in DOMAIN next : next[j] = text[m]
  BY EditedText
<1>3. ASSUME NEW k \in DOMAIN Fields(text), NEW m \in DOMAIN text, text[m][1] = k, m # n
      PROVE  Fields(next)[k] = Fields(text)[k]
  <2>1. PICK j \in DOMAIN next : next[j] = text[m]
    BY <1>2, <1>3
  <2>2. Fields(next)[k] = next[j][2]
    BY <1>1, <1>3, <2>1, FieldsRead
  <2>3. Fields(text)[k] = text[m][2]
    BY <1>3, FieldsRead
  <2> QED BY <2>1, <2>2, <2>3
<1>4. ASSUME NEW k \in DOMAIN Fields(text), k # text[n][1]
      PROVE  Fields(next)[k] = Fields(text)[k]
  <2>1. k \in {text[m][1] : m \in DOMAIN text}
    BY FieldsRead
  <2>2. PICK m \in DOMAIN text : text[m][1] = k
    BY <2>1
  <2> QED BY <1>3, <1>4, <2>2
<1> WITNESS text[n][1]
<1> QED BY <1>4

-----------------------------------------------------------------------------
(* The verdict: what it says of the fields when it is one of the two good  *)
(* ones.                                                                   *)

Good == {"ACCEPTED_MATERIAL_PARITY", "OBSERVED_MISMATCH"}

LEMMA LadderDomain ==
  /\ DOMAIN Ladder = 1 .. 10
  /\ Ladder[2] = "MISSING_REQUIRED_FIELD"
  /\ Ladder[6] = "CELL_COUNT_INCONSISTENT"
  /\ Ladder[10] = "PARITY_INCONSISTENT_WITH_RESULT"
BY DEF Ladder

LEMMA FaultyAt ==
  ASSUME NEW f
  PROVE  /\ Faulty("MISSING_REQUIRED_FIELD", f) = ~(RequiredFields \subseteq DOMAIN f)
         /\ Faulty("CELL_COUNT_INCONSISTENT", f) = CellsLost(f)
         /\ Faulty("PARITY_INCONSISTENT_WITH_RESULT", f) = ((f["result"] = Text("PASS")) # Agrees(f))
BY Zenon DEF Faulty

LEMMA GoodVerdict ==
  ASSUME NEW text, Verdict(text)[1] \in Good
  PROVE  /\ Unread(text) = {}
         /\ RequiredFields \subseteq DOMAIN Fields(text)
         /\ ~CellsLost(Fields(text))
         /\ (Fields(text)["result"] = Text("PASS")) <=> Agrees(Fields(text))
         /\ Verdict(text)[1] = "ACCEPTED_MATERIAL_PARITY" <=> Agrees(Fields(text))
<1> DEFINE f == Fields(text)
<1>1. \A code : Rejected(code)[1] \notin Good
  BY DEF Rejected, Good
<1>2. Unread(text) = {} /\ Verdict(text) = Classify(f)
  BY <1>1 DEF Verdict
<1> HIDE DEF f
<1>3. ~\E n \in DOMAIN Ladder : Faulty(Ladder[n], f)
  BY <1>1, <1>2 DEF Classify
<1>4. ~Faulty(Ladder[2], f) /\ ~Faulty(Ladder[6], f) /\ ~Faulty(Ladder[10], f)
  BY <1>3, LadderDomain
<1>5. /\ ~Faulty("MISSING_REQUIRED_FIELD", f) /\ ~Faulty("CELL_COUNT_INCONSISTENT", f)
      /\ ~Faulty("PARITY_INCONSISTENT_WITH_RESULT", f)
  BY <1>4, LadderDomain
<1>6. /\ RequiredFields \subseteq DOMAIN f
      /\ ~CellsLost(f)
      /\ (f["result"] = Text("PASS")) <=> Agrees(f)
  BY <1>5, FaultyAt, Zenon
<1>7. Verdict(text) = <<IF Agrees(f) THEN "ACCEPTED_MATERIAL_PARITY" ELSE "OBSERVED_MISMATCH", "none">>
  BY <1>2, <1>3, Zenon DEF Classify
<1>8. Verdict(text)[1] = "ACCEPTED_MATERIAL_PARITY" <=> Agrees(f)
  BY <1>7
<1> QED BY <1>2, <1>6, <1>8 DEF f

\* The result and the counts it has to agree with are two fields.
LEMMA NoFlip ==
  ASSUME NEW text \in Seq(Line), NEW next, Edited(text, next),
         Verdict(text)[1] \in Good, Verdict(next)[1] \in Good
  PROVE  Verdict(text)[1] = Verdict(next)[1]
<1> DEFINE f == Fields(text)
           g == Fields(next)
           counts == {"vector_mismatching_lanes", "vector_first_mismatch", "partner_failures"}
<1>1. /\ Unread(text) = {} /\ Unread(next) = {}
      /\ RequiredFields \subseteq DOMAIN f /\ RequiredFields \subseteq DOMAIN g
      /\ (f["result"] = Text("PASS")) <=> Agrees(f)
      /\ (g["result"] = Text("PASS")) <=> Agrees(g)
      /\ Verdict(text)[1] = "ACCEPTED_MATERIAL_PARITY" <=> Agrees(f)
      /\ Verdict(next)[1] = "ACCEPTED_MATERIAL_PARITY" <=> Agrees(g)
  BY GoodVerdict
<1>2. PICK key : \A k \in DOMAIN f \cap DOMAIN g : k # key => g[k] = f[k]
  BY <1>1, OneField
<1>3. counts \cup {"result"} \subseteq RequiredFields
  BY DEF RequiredFields, IntFields
<1> HIDE DEF f, g
<1>4. \A k \in counts \cup {"result"} : k # key => g[k] = f[k]
  BY <1>1, <1>2, <1>3
<1>5. CASE key = "result"
  <2>1. \A k \in counts : g[k] = f[k]
    BY <1>4, <1>5
  <2> QED BY <1>1, <2>1 DEF Agrees, Good
<1>6. CASE key # "result"
  <2>1. g["result"] = f["result"]
    BY <1>4, <1>6
  <2> QED BY <1>1, <2>1 DEF Good
<1> QED BY <1>5, <1>6

-----------------------------------------------------------------------------
(* The receipt: six of its lines bind each other.                          *)

Below == OpToRel(<, Nat)

LEMMA LeastElement ==
  ASSUME NEW S \in SUBSET Nat, S # {}
  PROVE  \E n \in S : \A m \in S : n <= m
<1>1. \A x, y \in Nat : <<x, y>> \in Below <=> x < y
  BY DEF Below, OpToRel
<1>2. IsWellFoundedOn(Below, Nat)
  BY NatLessThanWellFounded, Zenon DEF Below
<1>3. PICK n \in S : \A m \in S : ~(<<m, n>> \in Below)
  BY <1>2, WFMin, Zenon
<1>4. \A m \in S : ~(m < n)
  BY <1>1, <1>3
<1> QED BY <1>4

FirstLane(lanes) ==
  IF Cardinality(lanes) = 0 THEN -1
  ELSE CHOOSE k \in lanes : \A j \in lanes : k <= j

LEMMA LanesCounted ==
  ASSUME NEW lanes \in SUBSET Lanes
  PROVE  /\ Cardinality(lanes) \in Nat
         /\ FirstLane(lanes) \in Int
         /\ lanes # {} => Cardinality(lanes) # 0 /\ FirstLane(lanes) # -1
<1>1. IsFiniteSet(lanes)
  <2>1. IsFiniteSet(Lanes)
    BY FS_Interval, DimensionAssumption DEF Lanes
  <2> QED BY <2>1, FS_Subset
<1>2. Cardinality(lanes) \in Nat /\ (Cardinality(lanes) = 0 <=> lanes = {})
  BY <1>1, FS_CardinalityType, FS_EmptySet
<1>3. ASSUME lanes # {} PROVE FirstLane(lanes) \in lanes
  <2>1. lanes \in SUBSET Nat
    BY DimensionAssumption DEF Lanes
  <2>2. \E k \in lanes : \A j \in lanes : k <= j
    BY <1>3, <2>1, LeastElement
  <2> QED BY <1>2, <1>3, <2>2 DEF FirstLane
<1>4. \A k \in lanes : k \in Nat
  BY DimensionAssumption DEF Lanes
<1>5. ASSUME lanes # {} PROVE FirstLane(lanes) \in Int /\ FirstLane(lanes) # -1
  <2>1. FirstLane(lanes) \in Nat
    BY <1>3, <1>4, <1>5
  <2> QED BY <2>1
<1>6. ASSUME lanes = {} PROVE FirstLane(lanes) \in Int
  BY <1>2, <1>6 DEF FirstLane
<1> QED BY <1>2, <1>5, <1>6

LEMMA ReceiptLines ==
  ASSUME NEW m \in Measurements
  PROVE  /\ Receipt(m)[10] = <<"dimension", Num(Dimension)>>
         /\ Receipt(m)[11] = <<"partner_cells", Num(Dimension * Dimension - m.partner_failures)>>
         /\ Receipt(m)[12] = <<"partner_failures", Num(m.partner_failures)>>
         /\ Receipt(m)[16] = <<"vector_mismatching_lanes", Num(Cardinality(m.mismatches))>>
         /\ Receipt(m)[17] = <<"vector_first_mismatch", Num(FirstLane(m.mismatches))>>
         /\ Receipt(m)[24] = <<"result", Text(IF Clean(m) THEN "PASS" ELSE "FAIL")>>
BY DEF Receipt, FirstLane

LEMMA ReceiptIsText ==
  ASSUME NEW m \in Measurements
  PROVE  Receipt(m) \in Seq(Line)
<1> DEFINE cells == Dimension * Dimension
           lanes == Cardinality(m.mismatches)
           first == FirstLane(m.mismatches)
           word  == IF Clean(m) THEN "PASS" ELSE "FAIL"
<1>1. /\ m.mismatches \in SUBSET Lanes /\ m.partner_failures \in {0, 1}
      /\ m.sign_control \in {0, Dimension} /\ m.selector_control \in {Dimension}
  BY DEF Measurements
<1>2. Dimension \in Int /\ cells \in Int
  BY DimensionAssumption
<1>3. lanes \in Int /\ first \in Int
  BY <1>1, LanesCounted
<1>4. Receipt(m) =
         << <<"producer_language", Text("C++")>>,
            <<"producer_role", Text("MATERIAL_PARITY")>>,
            <<"semantic_authority_language", Text("Sounio")>>,
            <<"semantic_authority_role", Text("SEMANTIC_AUTHORITY")>>,
            <<"source_semantics_sha256", Text("digest")>>,
            <<"target", Text("xeon")>>,
            <<"rounding_mode", Text("FE_TONEAREST")>>,
            <<"flush_to_zero", Flag(FALSE)>>,
            <<"denormals_are_zero", Flag(FALSE)>>,
            <<"dimension", Num(Dimension)>>,
            <<"partner_cells", Num(cells - m.partner_failures)>>,
            <<"partner_failures", Num(m.partner_failures)>>,
            <<"negative_cells", Num(1)>>,
            <<"positive_cells", Num(cells - 1)>>,
            <<"vector_matching_lanes", Num(Dimension - lanes)>>,
            <<"vector_mismatching_lanes", Num(lanes)>>,
            <<"vector_first_mismatch", Num(first)>>,
            <<"sign_mutation_mismatching_lanes", Num(m.sign_control)>>,
            <<"selector_mutation_mismatching_lanes", Num(m.selector_control)>>,
            <<"ascending_i", Flag(TRUE)>>,
            <<"reassociated", Flag(FALSE)>>,
            <<"claim_ready", Flag(FALSE)>>,
            <<"generic_cost_claim", Flag(FALSE)>>,
            <<"result", Text(word)>> >>
  BY DEF Receipt, FirstLane
<1> HIDE DEF cells, lanes, first, word
<1>5. /\ Num(Dimension) \in Value /\ Num(cells - m.partner_failures) \in Value
      /\ Num(m.partner_failures) \in Value /\ Num(1) \in Value /\ Num(cells - 1) \in Value
      /\ Num(Dimension - lanes) \in Value /\ Num(lanes) \in Value /\ Num(first) \in Value
      /\ Num(m.sign_control) \in Value /\ Num(m.selector_control) \in Value
  <2>1. /\ cells - m.partner_failures \in Int /\ m.partner_failures \in Int
        /\ cells - 1 \in Int /\ Dimension - lanes \in Int
        /\ m.sign_control \in Int /\ m.selector_control \in Int /\ 1 \in Int
    BY <1>1, <1>2, <1>3
  <2> QED BY <1>2, <1>3, <2>1, Tagged, Zenon
<1>6. Flag(TRUE) \in Value /\ Flag(FALSE) \in Value
  BY Tagged
<1>7. /\ Text("C++") \in Value /\ Text("MATERIAL_PARITY") \in Value /\ Text("Sounio") \in Value
      /\ Text("SEMANTIC_AUTHORITY") \in Value /\ Text("digest") \in Value
      /\ Text("xeon") \in Value /\ Text("FE_TONEAREST") \in Value /\ Text(word) \in Value
  <2>1. {"C++", "MATERIAL_PARITY", "Sounio", "SEMANTIC_AUTHORITY", "digest", "xeon",
         "FE_TONEAREST", word} \subseteq Words
    BY DEF Words, word
  <2> QED BY <2>1, Tagged, Zenon
<1>8. RequiredFields \subseteq Keys
  BY DEF Keys
<1>9. /\ {"dimension", "partner_cells", "partner_failures", "negative_cells", "positive_cells",
          "vector_matching_lanes", "vector_mismatching_lanes", "vector_first_mismatch",
          "sign_mutation_mismatching_lanes", "selector_mutation_mismatching_lanes"} \subseteq Keys
      /\ {"flush_to_zero", "denormals_are_zero", "ascending_i", "reassociated", "claim_ready",
          "generic_cost_claim"} \subseteq Keys
      /\ {"producer_language", "producer_role", "semantic_authority_language",
          "semantic_authority_role", "source_semantics_sha256", "target", "rounding_mode",
          "result"} \subseteq Keys
  BY <1>8 DEF RequiredFields, IntFields, BoolFields
<1>10. /\ <<"producer_language", Text("C++")>> \in Line
       /\ <<"producer_role", Text("MATERIAL_PARITY")>> \in Line
       /\ <<"semantic_authority_language", Text("Sounio")>> \in Line
       /\ <<"semantic_authority_role", Text("SEMANTIC_AUTHORITY")>> \in Line
       /\ <<"source_semantics_sha256", Text("digest")>> \in Line
       /\ <<"target", Text("xeon")>> \in Line
       /\ <<"rounding_mode", Text("FE_TONEAREST")>> \in Line
       /\ <<"result", Text(word)>> \in Line
  BY <1>7, <1>9, Pair
<1>11. /\ <<"flush_to_zero", Flag(FALSE)>> \in Line
       /\ <<"denormals_are_zero", Flag(FALSE)>> \in Line
       /\ <<"ascending_i", Flag(TRUE)>> \in Line
       /\ <<"reassociated", Flag(FALSE)>> \in Line
       /\ <<"claim_ready", Flag(FALSE)>> \in Line
       /\ <<"generic_cost_claim", Flag(FALSE)>> \in Line
  BY <1>6, <1>9, Pair
<1>12. /\ <<"dimension", Num(Dimension)>> \in Line
       /\ <<"partner_cells", Num(cells - m.partner_failures)>> \in Line
       /\ <<"partner_failures", Num(m.partner_failures)>> \in Line
       /\ <<"negative_cells", Num(1)>> \in Line
       /\ <<"positive_cells", Num(cells - 1)>> \in Line
       /\ <<"vector_matching_lanes", Num(Dimension - lanes)>> \in Line
       /\ <<"vector_mismatching_lanes", Num(lanes)>> \in Line
       /\ <<"vector_first_mismatch", Num(first)>> \in Line
       /\ <<"sign_mutation_mismatching_lanes", Num(m.sign_control)>> \in Line
       /\ <<"selector_mutation_mismatching_lanes", Num(m.selector_control)>> \in Line
  BY <1>5, <1>9, Pair
<1> QED BY <1>4, <1>10, <1>11, <1>12

-----------------------------------------------------------------------------
(* Lines lost: each edit loses one of the six lines that bind each other,  *)
(* at most.                                                                *)

Binding == {10, 11, 12, 16, 17, 24}
Lost(text) == {i \in Binding : \A n \in DOMAIN text : text[n] # Receipt(measured)[i]}

LEMMA BindingLines ==
  ASSUME measured \in Measurements
  PROVE  \A i, j \in Binding : i # j => Receipt(measured)[i] # Receipt(measured)[j]
<1> DEFINE key(i) == Receipt(measured)[i][1]
<1>1. /\ key(10) = "dimension" /\ key(11) = "partner_cells" /\ key(12) = "partner_failures"
      /\ key(16) = "vector_mismatching_lanes" /\ key(17) = "vector_first_mismatch"
      /\ key(24) = "result"
  BY ReceiptLines
<1> HIDE DEF key
<1>2. \A i, j \in Binding : i # j => key(i) # key(j)
  BY <1>1 DEF Binding
<1> QED BY <1>2 DEF key

LEMMA LostFinite ==
  ASSUME NEW S \in SUBSET Binding
  PROVE  IsFiniteSet(S) /\ Cardinality(S) \in Nat
<1>1. IsFiniteSet(10 .. 24) /\ S \in SUBSET (10 .. 24)
  <2>1. IsFiniteSet(10 .. 24)
    <3>1. 10 \in Int /\ 24 \in Int
      OBVIOUS
    <3> QED BY <3>1, FS_Interval, Zenon
  <2> QED BY <2>1 DEF Binding
<1>2. IsFiniteSet(S)
  BY <1>1, FS_Subset
<1> QED BY <1>2, FS_CardinalityType

LEMMA OneLost ==
  ASSUME measured \in Measurements, NEW text \in Seq(Line), NEW next, Edited(text, next)
  PROVE  Cardinality(Lost(next)) <= Cardinality(Lost(text)) + 1
<1>1. PICK n \in Nat : \A m \in DOMAIN text \ {n} : \E j \in DOMAIN next : next[j] = text[m]
  BY EditedText
<1>2. PICK i : Lost(next) \subseteq Lost(text) \cup {i}
  <2>1. ASSUME NEW j \in Lost(next), j \notin Lost(text)
        PROVE  Receipt(measured)[j] = text[n]
    <3>1. PICK m \in DOMAIN text : text[m] = Receipt(measured)[j]
      BY <2>1 DEF Lost
    <3>2. m = n
      BY <1>1, <2>1, <3>1 DEF Lost
    <3> QED BY <3>1, <3>2
  <2>2. \A j, k \in Lost(next) \ Lost(text) : j = k
    <3>1. Lost(next) \subseteq Binding
      BY DEF Lost
    <3> QED BY <2>1, <3>1, BindingLines
  <2> QED BY <2>2
<1>3. Lost(next) \subseteq Binding /\ Lost(text) \subseteq Binding
  BY DEF Lost
<1>4. /\ IsFiniteSet(Lost(text)) /\ Cardinality(Lost(text)) \in Nat
      /\ IsFiniteSet(Lost(next)) /\ Cardinality(Lost(next)) \in Nat
  BY <1>3, LostFinite
<1>5. /\ IsFiniteSet(Lost(text) \cup {i})
      /\ Cardinality(Lost(text) \cup {i}) \in {Cardinality(Lost(text)), Cardinality(Lost(text)) + 1}
  BY <1>4, FS_AddElement
<1>6. Cardinality(Lost(next)) <= Cardinality(Lost(text) \cup {i})
  BY <1>2, <1>5, FS_Subset
<1> QED BY <1>4, <1>5, <1>6

LEMMA ThreeElements ==
  ASSUME NEW S \in SUBSET Binding, NEW a \in S, NEW b \in S, NEW c \in S, a # b, a # c, b # c
  PROVE  Cardinality(S) >= 3
<1>1. IsFiniteSet(S) /\ Cardinality(S) \in Nat
  BY LostFinite
<1>2. IsFiniteSet({a}) /\ Cardinality({a}) = 1
  BY FS_Singleton
<1>3. IsFiniteSet({a} \cup {b}) /\ Cardinality({a} \cup {b}) = 2
  BY <1>2, FS_AddElement
<1>4. IsFiniteSet(({a} \cup {b}) \cup {c}) /\ Cardinality(({a} \cup {b}) \cup {c}) = 3
  BY <1>3, FS_AddElement
<1>5. Cardinality(({a} \cup {b}) \cup {c}) <= Cardinality(S)
  BY <1>1, FS_Subset
<1> QED BY <1>1, <1>4, <1>5

\* A failed measurement is accepted only if three of the six lines are lost.
LEMMA ThreeAreLost ==
  ASSUME measured \in Measurements, NEW text \in Seq(Line), ~Clean(measured),
         Verdict(text)[1] = "ACCEPTED_MATERIAL_PARITY"
  PROVE  Cardinality(Lost(text)) >= 3
<1> DEFINE f == Fields(text)
           R == Receipt(measured)
<1>1. /\ Unread(text) = {} /\ RequiredFields \subseteq DOMAIN f
      /\ ~CellsLost(f) /\ Agrees(f) /\ f["result"] = Text("PASS")
  BY GoodVerdict DEF Good
<1>2. ASSUME NEW i \in Binding, i \notin Lost(text) PROVE f[R[i][1]] = R[i][2]
  <2>1. PICK n \in DOMAIN text : text[n] = R[i]
    BY <1>2 DEF Lost
  <2> QED BY <1>1, <2>1, FieldsRead
<1>3. /\ R[10][1] = "dimension" /\ R[10][2] = Num(Dimension)
      /\ R[11][1] = "partner_cells"
      /\ R[11][2] = Num(Dimension * Dimension - measured.partner_failures)
      /\ R[12][1] = "partner_failures" /\ R[12][2] = Num(measured.partner_failures)
      /\ R[16][1] = "vector_mismatching_lanes" /\ R[16][2] = Num(Cardinality(measured.mismatches))
      /\ R[17][1] = "vector_first_mismatch" /\ R[17][2] = Num(FirstLane(measured.mismatches))
      /\ R[24][1] = "result" /\ R[24][2] = Text("FAIL")
  BY ReceiptLines
<1> HIDE DEF f, R
<1>4. \A a, b \in Int : Num(a) = Num(b) => a = b
  BY DEF Num
<1>5. Text("FAIL") # Text("PASS")
  BY DEF Text
<1>6. measured.mismatches \in SUBSET Lanes /\ measured.partner_failures \in {0, 1}
  BY DEF Measurements
<1>7. {10, 11, 12, 16, 17, 24} = Binding
  BY DEF Binding
<1>8. 24 \in Lost(text)
  BY <1>1, <1>2, <1>3, <1>5, <1>7
<1>9. Lost(text) \in SUBSET Binding
  BY DEF Lost
<1>10. CASE measured.mismatches # {}
  <2>1. /\ Cardinality(measured.mismatches) \in Int /\ Cardinality(measured.mismatches) # 0
        /\ FirstLane(measured.mismatches) \in Int /\ FirstLane(measured.mismatches) # -1
    BY <1>6, <1>10, LanesCounted
  <2>2. f["vector_mismatching_lanes"] = Num(0) /\ f["vector_first_mismatch"] = Num(-1)
    BY <1>1 DEF Agrees
  <2>3. 16 \in Lost(text)
    <3>1. Num(Cardinality(measured.mismatches)) # Num(0)
      BY <1>4, <2>1
    <3> QED BY <1>2, <1>3, <1>7, <2>2, <3>1
  <2>4. 17 \in Lost(text)
    <3>1. Num(FirstLane(measured.mismatches)) # Num(-1)
      BY <1>4, <2>1
    <3> QED BY <1>2, <1>3, <1>7, <2>2, <3>1
  <2> QED BY <1>8, <1>9, <2>3, <2>4, ThreeElements
<1>11. CASE measured.mismatches = {}
  <2>1. measured.partner_failures = 1
    BY <1>6, <1>11 DEF Clean
  <2>2. f["partner_failures"] = Num(0)
    BY <1>1 DEF Agrees
  <2>3. 12 \in Lost(text)
    BY <1>2, <1>3, <1>4, <1>7, <2>1, <2>2
  <2>4. 10 \in Lost(text) \/ 11 \in Lost(text)
    <3> SUFFICES ASSUME 10 \notin Lost(text), 11 \notin Lost(text) PROVE FALSE
      OBVIOUS
    <3>1. f["dimension"] = Num(Dimension) /\ f["partner_cells"] = Num(Dimension * Dimension - 1)
      BY <1>2, <1>3, <1>7, <2>1
    <3>2. f["partner_cells"][2] + f["partner_failures"][2] = f["dimension"][2] * f["dimension"][2]
      BY <1>1 DEF CellsLost
    <3>3. \A n : Num(n)[2] = n
      BY DEF Num
    <3>4. Dimension * Dimension - 1 + 0 = Dimension * Dimension
      BY <2>2, <3>1, <3>2, <3>3
    <3>5. Dimension * Dimension \in Int
      BY DimensionAssumption
    <3> QED BY <3>4, <3>5
  <2> QED BY <1>8, <1>9, <2>3, <2>4, ThreeElements
<1> QED BY <1>10, <1>11

-----------------------------------------------------------------------------
(* The invariant and the theorems.                                         *)

ParityIInv ==
  /\ measured \in Measurements
  /\ lines \in Seq(Line)
  /\ edits \in Nat
  /\ Cardinality(Lost(lines)) <= edits
  /\ outcome \in {<<>>, Verdict(lines)}

LEMMA InitParityIInv == ParityInit => ParityIInv
<1> SUFFICES ASSUME ParityInit PROVE ParityIInv
  OBVIOUS
<1>1. measured \in Measurements /\ lines = Receipt(measured) /\ edits = 0 /\ outcome = <<>>
  BY DEF ParityInit
<1>2. lines \in Seq(Line)
  BY <1>1, ReceiptIsText
<1>3. Lost(lines) = {}
  <2>1. Binding \subseteq DOMAIN lines
    <3>1. DOMAIN Receipt(measured) = 1 .. 24
      BY DEF Receipt
    <3> QED BY <1>1, <3>1 DEF Binding
  <2> QED BY <1>1, <2>1 DEF Lost
<1>4. Cardinality(Lost(lines)) = 0
  BY <1>3, FS_EmptySet
<1> QED BY <1>1, <1>2, <1>4 DEF ParityIInv

LEMMA EditStep ==
  ASSUME Alter \/ Drop \/ Add
  PROVE  Edited(lines, lines') /\ edits' = edits + 1 /\ outcome = <<>> /\ UNCHANGED <<measured, outcome>>
BY DEF Alter, Drop, Add, Edit, Edited

LEMMA StepParityIInv == ParityIInv /\ [ParityNext]_parityVars => ParityIInv'
<1> SUFFICES ASSUME ParityIInv, [ParityNext]_parityVars PROVE ParityIInv'
  OBVIOUS
<1>1. CASE Alter \/ Drop \/ Add
  <2>1. /\ Edited(lines, lines') /\ edits' = edits + 1
        /\ outcome = <<>> /\ measured' = measured /\ outcome' = outcome
    BY <1>1, EditStep
  <2>2. lines' \in Seq(Line)
    BY <2>1, EditedText DEF ParityIInv
  <2>3. Cardinality(Lost(lines')) <= Cardinality(Lost(lines)) + 1
    BY <2>1, OneLost DEF ParityIInv
  <2>4. (Lost(lines))' = Lost(lines')
    BY <2>1 DEF Lost
  <2>5. Cardinality(Lost(lines)) \in Nat /\ Cardinality(Lost(lines')) \in Nat
    <3>1. Lost(lines) \subseteq Binding /\ Lost(lines') \subseteq Binding
      BY DEF Lost
    <3> QED BY <3>1, LostFinite
  <2> QED BY <2>1, <2>2, <2>3, <2>4, <2>5 DEF ParityIInv
<1>2. CASE Evaluate
  <2>1. outcome' = Verdict(lines) /\ UNCHANGED <<measured, lines, edits>>
    BY <1>2 DEF Evaluate
  <2>2. Verdict(lines)' = Verdict(lines) /\ (Lost(lines))' = Lost(lines)
    BY <2>1 DEF Lost
  <2> QED BY <2>1, <2>2 DEF ParityIInv
<1>3. CASE UNCHANGED parityVars
  <2>1. UNCHANGED <<measured, lines, edits, outcome>>
    BY <1>3 DEF parityVars
  <2>2. Verdict(lines)' = Verdict(lines) /\ (Lost(lines))' = Lost(lines)
    BY <2>1 DEF Lost
  <2> QED BY <2>1, <2>2 DEF ParityIInv
<1> QED BY <1>1, <1>2, <1>3 DEF ParityNext

LEMMA AlwaysParityIInv == ParitySpec => []ParityIInv
<1> QED BY InitParityIInv, StepParityIInv, PTL DEF ParitySpec

(***************************************************************************)
(* parse_receipt and classify accept a receipt of a failed measurement     *)
(* only after three edits, whatever the dimension and the measurement.     *)
(***************************************************************************)
THEOREM NoForgedParity == ParitySpec => []TwoEditsForgeNoParity
<1>1. ParityIInv => TwoEditsForgeNoParity
  <2> SUFFICES ASSUME ParityIInv, edits <= 2, outcome = <<"ACCEPTED_MATERIAL_PARITY", "none">>,
                      ~Clean(measured)
               PROVE  FALSE
    BY DEF TwoEditsForgeNoParity
  <2>1. outcome # <<>>
    OBVIOUS
  <2>2. Verdict(lines)[1] = "ACCEPTED_MATERIAL_PARITY"
    BY <2>1 DEF ParityIInv
  <2>3. Cardinality(Lost(lines)) >= 3
    BY <2>2, ThreeAreLost DEF ParityIInv
  <2>4. Cardinality(Lost(lines)) \in Nat
    BY LostFinite DEF Lost
  <2> QED BY <2>3, <2>4 DEF ParityIInv
<1> QED BY <1>1, AlwaysParityIInv, PTL

(***************************************************************************)
(* No edit of one line of any text that was reached makes the oracle say   *)
(* parity where it said mismatch, or the other way round.                  *)
(***************************************************************************)
THEOREM NoFlippedVerdict == ParitySpec => OneEditNeverFlips
<1> DEFINE step == edits' > edits =>
                     {"ACCEPTED_MATERIAL_PARITY", "OBSERVED_MISMATCH"}
                       # {Verdict(lines)[1], Verdict(lines')[1]}
<1>1. ParityIInv /\ [ParityNext]_parityVars => [step]_parityVars
  <2> SUFFICES ASSUME ParityIInv, ParityNext, edits' > edits,
                      {"ACCEPTED_MATERIAL_PARITY", "OBSERVED_MISMATCH"}
                        = {Verdict(lines)[1], Verdict(lines')[1]}
               PROVE  FALSE
    OBVIOUS
  <2>1. Alter \/ Drop \/ Add
    <3>1. ~Evaluate
      BY DEF Evaluate, ParityIInv
    <3> QED BY <3>1 DEF ParityNext
  <2>2. Edited(lines, lines') /\ lines \in Seq(Line)
    BY <2>1, EditStep DEF ParityIInv
  <2>3. Verdict(lines)[1] \in Good /\ Verdict(lines')[1] \in Good
    BY DEF Good
  <2>4. Verdict(lines)[1] = Verdict(lines')[1]
    BY <2>2, <2>3, NoFlip
  <2> QED BY <2>4
<1> QED BY <1>1, AlwaysParityIInv, PTL DEF ParitySpec, OneEditNeverFlips
=============================================================================
