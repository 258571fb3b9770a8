---------------------------- MODULE CommandsProofs ----------------------------
(***************************************************************************)
(* Proofs about Commands, for any calls, keys and inputs, any number of    *)
(* failures and expiries and any growth of the audit trail.                *)
(***************************************************************************)
EXTENDS Commands, FiniteSetTheorems, WellFoundedInduction, TLAPS

\* The shape of the variables, as far as the proofs need it.
Shape ==
  /\ stored = [k \in Key |-> stored[k]]
  /\ old \subseteq Key
  /\ nextSeq \in Nat \ {0}
  /\ phase \in [Call -> {"start", "look", "append", "read", "commit", "reply", "done"}]
  /\ prev = [c \in Call |-> prev[c]]
  /\ answer = [c \in Call |-> answer[c]]
  /\ effects \in [Key -> SUBSET Nat]
  /\ expired \in [Key -> Nat]

\* A key has had at most one effect for each row that has grown old, and one more if its row
\* is fresh.  Until a row has grown old every answered result is that of the row.
CountInv(k) ==
  /\ k \in old => stored[k] # NoRow /\ expired[k] > 0
  /\ IsFiniteSet(effects[k])
  /\ Cardinality(effects[k]) <= expired[k] + (IF stored[k] # NoRow /\ k \notin old THEN 1 ELSE 0)

AnswerInv(c) ==
  answer[c].kind = "result" /\ expired[KeyOf[c]] = 0 =>
    /\ stored[KeyOf[c]] # NoRow
    /\ stored[KeyOf[c]].input = InputOf[c]
    /\ answer[c] = [kind |-> "result", result |-> stored[KeyOf[c]].result]

KeyInv == (\A k \in Key : CountInv(k)) /\ (\A c \in Call : AnswerInv(c))

IInv == Shape /\ KeyInv
-----------------------------------------------------------------------------
(* The least and the greatest of a set of entries. *)

LEMMA LeastNumber ==
  ASSUME NEW S, S \subseteq Nat, S # {}
  PROVE  \E x \in S : \A y \in S : x <= y
  <1>1. PICK x \in S : \A y \in S : ~ (<<y, x>> \in OpToRel(<, Nat))
    BY NatLessThanWellFounded, WFMin
  <1>2. \A y \in S : ~ (y < x)
    BY <1>1 DEF OpToRel
  <1> QED
    BY <1>2

LEMMA Greatest ==
  ASSUME NEW n \in Nat, NEW S, S \subseteq 0 .. n, S # {}
  PROVE  Max(S) \in S /\ \A y \in S : y <= Max(S)
  <1> DEFINE T == {n - x : x \in S}
  <1>1. T \subseteq Nat /\ T # {}
    <2>1. \A x \in S : n - x \in Nat
      OBVIOUS
    <2>2. PICK x : x \in S
      OBVIOUS
    <2> QED
      BY <2>1, <2>2
  <1>2. PICK t \in T : \A u \in T : t <= u
    BY <1>1, LeastNumber
  <1>3. PICK x \in S : t = n - x
    BY <1>2
  <1>4. \A y \in S : n - x <= n - y
    BY <1>2, <1>3
  <1>5. \A y \in S : x >= y
    BY <1>4
  <1> QED
    BY <1>3, <1>5 DEF Max

\* A set grows by at most one with an element.
LEMMA OneMore ==
  ASSUME NEW S, IsFiniteSet(S), NEW x
  PROVE  IsFiniteSet(S \cup {x}) /\ Cardinality(S \cup {x}) <= Cardinality(S) + 1
  <1>1. /\ IsFiniteSet(S \cup {x})
        /\ Cardinality(S \cup {x}) = IF x \in S THEN Cardinality(S) ELSE Cardinality(S) + 1
    BY FS_AddElement
  <1>2. Cardinality(S) \in Nat
    BY FS_CardinalityType
  <1> QED
    BY <1>1, <1>2
-----------------------------------------------------------------------------
\* Before any call no key has had an effect.
LEMMA InitIInv == Init => IInv
  BY CommandsAssumption, FS_EmptySet DEF Init, IInv, Shape, KeyInv, CountInv, AnswerInv, NoAnswer, NoRow

\* What neither commits nor answers nor ages a key.
LEMMA QuietKeyInv ==
  ASSUME KeyInv, UNCHANGED <<keyVars, effects>>,
         \A c \in Call : answer'[c] = answer[c] \/ answer'[c] = NoAnswer
  PROVE  KeyInv'
  BY DEF KeyInv, CountInv, AnswerInv, keyVars, NoAnswer

\* A call writes the row of its key with its effect, and answers with what the row says.
LEMMA CallStepIInv ==
  ASSUME IInv, NEW c \in Call, CallStep(c)
  PROVE  IInv'
  <1> USE DEF IInv
  <1>1. CASE LockKey(c) \/ LockChain(c) \/ ReadHead(c) \/ Reply(c)
    <2>1. /\ UNCHANGED <<keyVars, nextSeq, effects, answer>>
          /\ prev' = prev \/ prev' = [prev EXCEPT ![c] = HeadHash(trail)]
          /\ \E p \in {"look", "read", "commit", "done"} : phase' = [phase EXCEPT ![c] = p]
      BY <1>1 DEF LockKey, LockChain, ReadHead, Reply, Go, trailVars
    <2>2. Shape'
      BY <2>1 DEF Shape, keyVars
    <2> QED
      BY <2>1, <2>2, QuietKeyInv
  <1>2. CASE LookUp(c)
    <2> DEFINE k == KeyOf[c]
    <2>1. k \in Key
      BY CommandsAssumption
    <2>2. UNCHANGED <<keyVars, nextSeq, prev, effects>>
      BY <1>2 DEF LookUp, trailVars
    <2>3. CASE stored[k] = NoRow
      <3>1. answer' = answer /\ phase' = [phase EXCEPT ![c] = "append"]
        BY <1>2, <2>3 DEF LookUp, Go
      <3>2. Shape'
        BY <2>2, <3>1 DEF Shape, keyVars
      <3> QED
        BY <2>2, <3>1, <3>2, QuietKeyInv
    <2>4. CASE stored[k] # NoRow
      <3>1. answer' = [answer EXCEPT ![c] = Replay(c)] /\ phase' = [phase EXCEPT ![c] = "reply"]
        BY <1>2, <2>4 DEF LookUp, Go
      <3>2. Shape'
        BY <2>2, <3>1 DEF Shape, keyVars
      <3>3. answer'[c] = Replay(c) /\ \A d \in Call \ {c} : answer'[d] = answer[d]
        BY <3>1 DEF Shape
      <3>4. answer'[c].kind = "result" =>
              /\ stored[k].input = InputOf[c]
              /\ answer'[c] = [kind |-> "result", result |-> stored[k].result]
        BY <3>3 DEF Replay
      <3>5. \A d \in Call \ {c} : AnswerInv(d)'
        BY <2>2, <3>3 DEF KeyInv, AnswerInv, keyVars
      <3>6. AnswerInv(c)'
        BY <2>2, <2>4, <3>4 DEF AnswerInv, keyVars
      <3>7. \A j \in Key : CountInv(j)'
        BY <2>2 DEF KeyInv, CountInv, keyVars
      <3> QED
        BY <3>2, <3>5, <3>6, <3>7 DEF KeyInv, CountInv, AnswerInv
    <2> QED
      BY <2>3, <2>4
  <1>3. CASE Commit(c)
    <2> DEFINE k == KeyOf[c]
    <2>1. k \in Key
      BY CommandsAssumption
    <2>2. /\ stored[k] = NoRow
          /\ stored' = [stored EXCEPT ![k] = [input |-> InputOf[c], result |-> nextSeq]]
          /\ effects' = [effects EXCEPT ![k] = effects[k] \cup {nextSeq}]
          /\ answer' = [answer EXCEPT ![c] = [kind |-> "result", result |-> nextSeq]]
          /\ prev' = [prev EXCEPT ![c] = NoHash]
          /\ phase' = [phase EXCEPT ![c] = "reply"]
          /\ nextSeq' = nextSeq + 1
          /\ UNCHANGED <<old, expired>>
      BY <1>3 DEF Commit, RowOf, Go
    <2>3. Shape'
      <3>1. effects' \in [Key -> SUBSET Nat] /\ expired' \in [Key -> Nat]
        BY <2>1, <2>2 DEF Shape
      <3>2. nextSeq' \in Nat \ {0} /\ old' \subseteq Key
        BY <2>2 DEF Shape
      <3>3. /\ stored' = [j \in Key |-> stored'[j]]
            /\ prev' = [d \in Call |-> prev'[d]]
            /\ answer' = [d \in Call |-> answer'[d]]
        BY <2>2 DEF Shape
      <3>4. phase' \in [Call -> {"start", "look", "append", "read", "commit", "reply", "done"}]
        BY <2>2 DEF Shape
      <3> QED
        BY <3>1, <3>2, <3>3, <3>4 DEF Shape
    <2>4. stored'[k] = [input |-> InputOf[c], result |-> nextSeq] /\ stored'[k] # NoRow
      BY <2>1, <2>2 DEF Shape, NoRow
    <2>5. /\ k \notin old
          /\ IsFiniteSet(effects[k]) /\ Cardinality(effects[k]) <= expired[k]
      <3>1. /\ k \notin old
            /\ IsFiniteSet(effects[k]) /\ Cardinality(effects[k]) <= expired[k] + 0
        BY <2>1, <2>2 DEF KeyInv, CountInv
      <3>2. Cardinality(effects[k]) \in Nat /\ expired[k] \in Nat
        BY <2>1, <3>1, FS_CardinalityType DEF Shape
      <3> QED
        BY <3>1, <3>2
    <2>6. IsFiniteSet(effects'[k]) /\ Cardinality(effects'[k]) <= expired[k] + 1
      <3>1. effects'[k] = effects[k] \cup {nextSeq}
        BY <2>1, <2>2 DEF Shape
      <3>2. Cardinality(effects[k]) \in Nat /\ expired[k] \in Nat
        BY <2>1, <2>5, FS_CardinalityType DEF Shape
      <3>3. /\ IsFiniteSet(effects[k] \cup {nextSeq})
            /\ Cardinality(effects[k] \cup {nextSeq}) <= Cardinality(effects[k]) + 1
        BY <2>5, OneMore
      <3>4. Cardinality(effects[k] \cup {nextSeq}) \in Nat
        BY <3>3, FS_CardinalityType
      <3> QED
        BY <2>5, <3>1, <3>2, <3>3, <3>4
    <2>7. \A j \in Key \ {k} : stored'[j] = stored[j] /\ effects'[j] = effects[j]
      BY <2>2 DEF Shape
    <2>8. \A j \in Key :
            /\ j \in old => stored'[j] # NoRow /\ expired[j] > 0
            /\ IsFiniteSet(effects'[j])
            /\ Cardinality(effects'[j]) <= expired[j] + (IF stored'[j] # NoRow /\ j \notin old THEN 1 ELSE 0)
      BY <2>4, <2>5, <2>6, <2>7 DEF KeyInv, CountInv, AnswerInv
    <2>9. ASSUME NEW d \in Call, answer'[d].kind = "result", expired[KeyOf[d]] = 0
          PROVE  /\ stored'[KeyOf[d]] # NoRow
                 /\ stored'[KeyOf[d]].input = InputOf[d]
                 /\ answer'[d] = [kind |-> "result", result |-> stored'[KeyOf[d]].result]
      <3>1. CASE d = c
        BY <3>1, <2>2, <2>4 DEF Shape
      <3>2. CASE d # c
        <4>1. answer'[d] = answer[d]
          BY <3>2, <2>2 DEF Shape
        <4>2. stored[KeyOf[d]] # NoRow /\ KeyOf[d] \in Key
          BY <4>1, <2>9, CommandsAssumption DEF KeyInv, CountInv, AnswerInv
        <4>3. stored'[KeyOf[d]] = stored[KeyOf[d]]
          BY <4>2, <2>2, <2>7
        <4> QED
          BY <4>1, <4>3, <2>9 DEF KeyInv, CountInv, AnswerInv
      <3> QED
        BY <3>1, <3>2
    <2>10. KeyInv'
      BY <2>2, <2>8, <2>9 DEF KeyInv, CountInv, AnswerInv
    <2> QED
      BY <2>3, <2>10
  <1> QED
    BY <1>1, <1>2, <1>3 DEF CallStep

\* Faults take answers back, expiry is counted, and the audit leaves keys alone.
LEMMA NextIInv == IInv /\ [Next]_vars => IInv'
  <1> SUFFICES ASSUME IInv, [Next]_vars
               PROVE  IInv'
    OBVIOUS
  <1> USE DEF IInv
  <1>1. ASSUME NEW c \in Call, Fault(c)
        PROVE  IInv'
    <2>1. /\ UNCHANGED <<keyVars, effects>>
          /\ answer' = [answer EXCEPT ![c] = NoAnswer]
          /\ prev' = [prev EXCEPT ![c] = NoHash]
          /\ phase' = [phase EXCEPT ![c] = "start"]
          /\ nextSeq' = nextSeq \/ nextSeq' = nextSeq + 1
      BY <1>1 DEF Fault, Go
    <2>2. Shape'
      <3>1. nextSeq' \in Nat \ {0}
        BY <2>1 DEF Shape
      <3>2. /\ prev' = [d \in Call |-> prev'[d]]
            /\ answer' = [d \in Call |-> answer'[d]]
        BY <2>1 DEF Shape
      <3>3. phase' \in [Call -> {"start", "look", "append", "read", "commit", "reply", "done"}]
        BY <2>1 DEF Shape
      <3> QED
        BY <2>1, <3>1, <3>2, <3>3 DEF Shape, keyVars
    <2>3. \A d \in Call : answer'[d] = answer[d] \/ answer'[d] = NoAnswer
      BY <2>1 DEF Shape
    <2> QED
      BY <2>1, <2>2, <2>3, QuietKeyInv
  <1>2. ASSUME NEW k \in Key, GrowOld(k)
        PROVE  IInv'
    <2>1. /\ UNCHANGED <<stored, nextSeq, phase, prev, answer, effects>>
          /\ stored[k] # NoRow /\ k \notin old
          /\ old' = old \cup {k}
          /\ expired' = [expired EXCEPT ![k] = expired[k] + 1]
      BY <1>2 DEF GrowOld, trailVars, callVars
    <2>2. Shape'
      BY <2>1 DEF Shape
    <2>3. /\ \A j \in Key \ {k} : expired'[j] = expired[j] /\ (j \in old' <=> j \in old)
          /\ expired'[k] = expired[k] + 1 /\ k \in old' /\ expired[k] \in Nat
      BY <2>1 DEF Shape
    <2>4. KeyInv'
      <3>1. \A j \in Key :
              /\ j \in old' => stored[j] # NoRow /\ expired'[j] > 0
              /\ IsFiniteSet(effects[j])
              /\ Cardinality(effects[j]) <= expired'[j] + (IF stored[j] # NoRow /\ j \notin old' THEN 1 ELSE 0)
        BY <2>1, <2>3 DEF KeyInv, CountInv, AnswerInv
      <3>2. \A c \in Call : expired'[KeyOf[c]] = 0 => expired[KeyOf[c]] = 0
        BY <2>3, CommandsAssumption
      <3> QED
        BY <2>1, <3>1, <3>2 DEF KeyInv, CountInv, AnswerInv
    <2> QED
      BY <2>2, <2>4
  <1>3. CASE Prune
    <2>1. /\ UNCHANGED <<expired, nextSeq, phase, prev, answer, effects>>
          /\ stored' = [k \in Key |-> IF k \in old THEN NoRow ELSE stored[k]]
          /\ old' = {}
      BY <1>3 DEF Prune, trailVars, callVars
    <2>2. Shape'
      BY <2>1 DEF Shape
    <2>3. \A j \in Key : /\ j \notin old => stored'[j] = stored[j]
                         /\ j \in old => stored'[j] = NoRow /\ expired[j] > 0
      BY <2>1 DEF KeyInv, CountInv, AnswerInv
    <2>4. KeyInv'
      <3>1. \A j \in Key :
              /\ IsFiniteSet(effects[j])
              /\ Cardinality(effects[j]) <= expired[j] + (IF stored'[j] # NoRow THEN 1 ELSE 0)
        BY <2>3 DEF KeyInv, CountInv, AnswerInv
      <3>2. \A c \in Call : expired[KeyOf[c]] = 0 => stored'[KeyOf[c]] = stored[KeyOf[c]]
        BY <2>3, CommandsAssumption
      <3> QED
        BY <2>1, <3>1, <3>2 DEF KeyInv, CountInv, AnswerInv
    <2> QED
      BY <2>2, <2>4
  <1>4. CASE AuditStep \/ UNCHANGED vars
    <2>1. UNCHANGED <<keyVars, nextSeq, callVars>>
      BY <1>4 DEF AuditStep, Checkpoint, Harm, Compare, Pin, Walk, vars, trailVars
    <2>2. Shape'
      BY <2>1 DEF Shape, keyVars, callVars
    <2> QED
      BY <2>1, <2>2, QuietKeyInv DEF callVars
  <1> QED
    BY <1>1, <1>2, <1>3, <1>4, CallStepIInv DEF Next

\* For any calls that meet on a key, fail and are repeated (runAtomic, prune): within its
\* retention a key has one effect, and all results that are answered for it are that of one
\* input.
THEOREM KeyRunsOnceAlways == Spec => []KeyRunsOnce
  <1>1. IInv => KeyRunsOnce
    <2> SUFFICES ASSUME IInv, NEW k \in Key
                 PROVE  LET answered == {c \in Call : KeyOf[c] = k /\ answer[c].kind = "result"}
                        IN  /\ Cardinality(effects[k]) <= 1 + expired[k]
                            /\ expired[k] = 0 =>
                                 \A c, d \in answered : answer[c] = answer[d] /\ InputOf[c] = InputOf[d]
      BY DEF KeyRunsOnce
    <2>1. Cardinality(effects[k]) <= 1 + expired[k]
      <3>1. /\ IsFiniteSet(effects[k]) /\ expired[k] \in Nat
            /\ Cardinality(effects[k]) <= expired[k] + (IF stored[k] # NoRow /\ k \notin old THEN 1 ELSE 0)
        BY DEF IInv, Shape, KeyInv, CountInv
      <3>2. Cardinality(effects[k]) \in Nat
        BY <3>1, FS_CardinalityType
      <3> QED
        BY <3>1, <3>2
    <2>2. ASSUME expired[k] = 0,
                 NEW c \in Call, KeyOf[c] = k, answer[c].kind = "result",
                 NEW d \in Call, KeyOf[d] = k, answer[d].kind = "result"
          PROVE  answer[c] = answer[d] /\ InputOf[c] = InputOf[d]
      <3>1. /\ stored[k].input = InputOf[c] /\ stored[k].input = InputOf[d]
            /\ answer[c] = [kind |-> "result", result |-> stored[k].result]
            /\ answer[d] = [kind |-> "result", result |-> stored[k].result]
        BY <2>2 DEF IInv, KeyInv, CountInv, AnswerInv
      <3> QED
        BY <3>1
    <2> QED
      BY <2>1, <2>2
  <1> QED
    BY <1>1, InitIInv, NextIInv, PTL DEF Spec
-----------------------------------------------------------------------------
(* The newest entry and the oldest ones. *)

LEMMA HeadFacts ==
  ASSUME NEW n \in Nat, NEW T, \A e \in T : e.seq \in 1 .. n
  PROVE  /\ T = {} => Head(T) = 0
         /\ T # {} => (\E e \in T : e.seq = Head(T)) /\ \A e \in T : e.seq <= Head(T)
         /\ Head(T) \in 0 .. n
  <1>1. CASE T = {}
    BY <1>1 DEF Head
  <1>2. CASE T # {}
    <2> DEFINE S == {e.seq : e \in T}
    <2>1. S \subseteq 0 .. n /\ S # {}
      BY <1>2
    <2>2. Max(S) \in S /\ \A y \in S : y <= Max(S)
      BY <2>1, Greatest
    <2>3. Head(T) = Max(S)
      BY <1>2 DEF Head
    <2> QED
      BY <1>2, <2>1, <2>2, <2>3
  <1> QED
    BY <1>1, <1>2

LEMMA HeadIs ==
  ASSUME NEW n \in Nat, NEW T, \A e \in T : e.seq \in 1 .. n,
         NEW m \in T, \A e \in T : e.seq <= m.seq
  PROVE  Head(T) = m.seq
  <1>1. PICK e \in T : e.seq = Head(T) /\ \A f \in T : f.seq <= Head(T)
    BY HeadFacts
  <1>2. m.seq \in 1 .. n /\ m.seq <= Head(T) /\ Head(T) <= m.seq /\ Head(T) \in 1 .. n
    BY <1>1
  <1> QED
    BY <1>2

Oldest(R, k) == {e \in R : Cardinality({f \in R : f.seq < e.seq}) < k}

\* What is older than one of the oldest is one of them.
LEMMA OldestDown ==
  ASSUME NEW n \in Nat, NEW R, IsFiniteSet(R), \A e \in R : e.seq \in 1 .. n, NEW k \in Nat,
         NEW e \in Oldest(R, k), NEW f \in R, f.seq < e.seq
  PROVE  f \in Oldest(R, k)
  <1> DEFINE Below(g) == {h \in R : h.seq < g.seq}
  <1>1. e \in R /\ Cardinality(Below(e)) < k
    BY DEF Oldest
  <1>2. Below(f) \subseteq Below(e)
    BY <1>1
  <1>3. Below(e) \subseteq R
    OBVIOUS
  <1> HIDE DEF Below
  <1>4. IsFiniteSet(Below(e)) /\ Cardinality(Below(e)) \in Nat
    BY <1>3, FS_Subset, FS_CardinalityType
  <1>5. Cardinality(Below(f)) <= Cardinality(Below(e)) /\ Cardinality(Below(f)) \in Nat
    BY <1>2, <1>4, FS_Subset, FS_CardinalityType
  <1>6. Cardinality(Below(f)) < k
    BY <1>1, <1>4, <1>5
  <1> QED
    BY <1>6 DEF Oldest, Below

\* When some are left over, the oldest are as many as asked for.
LEMMA OldestFull ==
  ASSUME NEW n \in Nat, NEW R, IsFiniteSet(R), \A e \in R : e.seq \in 1 .. n,
         \A e, f \in R : e.seq = f.seq => e = f, NEW k \in Nat \ {0}, Oldest(R, k) # R
  PROVE  Cardinality(Oldest(R, k)) = k
  <1> DEFINE P == Oldest(R, k)
             Below(g) == {h \in R : h.seq < g.seq}
             Left == {e.seq : e \in R \ P}
  <1>1. P \subseteq R /\ \A e \in R : e \in P <=> Cardinality(Below(e)) < k
    BY DEF Oldest
  <1>2. Left \subseteq Nat /\ Left # {}
    BY <1>1
  <1>3. PICK s \in Left : \A t \in Left : s <= t
    BY <1>2, LeastNumber
  <1>4. PICK e \in R \ P : e.seq = s
    BY <1>3
  <1>5. \A f \in R : f.seq < e.seq => f \in P
    BY <1>3, <1>4
  <1>6. \A f \in P : f.seq < e.seq
    <2> SUFFICES ASSUME NEW f \in P, ~ (f.seq < e.seq)
                 PROVE  FALSE
      OBVIOUS
    <2>1. f.seq # e.seq /\ f.seq \in Nat /\ e.seq \in Nat
      BY <1>1, <1>4
    <2>2. e.seq < f.seq
      BY <2>1
    <2>3. e \in P
      BY <1>4, <2>2, OldestDown
    <2> QED
      BY <1>4, <2>3
  <1>7. P = Below(e)
    BY <1>1, <1>5, <1>6
  <1>8. IsFiniteSet(P) /\ Cardinality(P) \in Nat
    BY <1>1, FS_Subset, FS_CardinalityType
  <1>9. Cardinality(P) >= k
    <2>1. ~ (Cardinality(Below(e)) < k)
      BY <1>1, <1>4
    <2>2. ~ (Cardinality(P) < k)
      BY <1>7, <2>1
    <2> QED
      BY <1>8, <2>2
  <1>10. P # {}
    BY <1>9, FS_EmptySet
  <1>11. PICK m \in P : \A f \in P : f.seq <= m.seq
    <2>1. \A f \in P : f.seq \in 1 .. n
      BY <1>1
    <2> HIDE DEF P
    <2>2. (\E m \in P : m.seq = Head(P)) /\ \A f \in P : f.seq <= Head(P)
      BY <1>10, <2>1, HeadFacts
    <2> QED
      BY <2>2
  <1>12. Below(m) = P \ {m}
    <2>1. \A f \in R : f.seq < m.seq => f \in P \ {m}
      BY <1>1, <1>11, OldestDown
    <2>2. \A f \in P \ {m} : f.seq < m.seq
      <3>1. \A f \in P \ {m} : f.seq <= m.seq /\ f.seq # m.seq /\ f.seq \in Nat /\ m.seq \in Nat
        BY <1>1, <1>11
      <3> QED
        BY <3>1
    <2> QED
      BY <1>1, <2>1, <2>2
  <1>13. Cardinality(P \ {m}) < k
    <2>1. Cardinality(Below(m)) < k
      BY <1>1, <1>11
    <2> QED
      BY <1>12, <2>1
  <1>14. Cardinality(P \ {m}) = Cardinality(P) - 1
    <2> HIDE DEF P
    <2> QED
      BY <1>8, <1>11, FS_RemoveElement
  <1> HIDE DEF P
  <1>15. Cardinality(P) = k
    BY <1>8, <1>9, <1>13, <1>14
  <1> QED
    BY <1>15 DEF P
-----------------------------------------------------------------------------
(* Hashes. *)

\* The hashes of entries up to the n-th seq.
Hashes(n) == (0 .. n - 1) \X BOOLEAN

LEMMA HashFacts ==
  ASSUME NEW m \in Nat, NEW n \in Nat
  PROVE  /\ HashOf(m) = HashOf(n) <=> m = n
         /\ Rehash(m) # HashOf(n)
  BY DEF HashOf, Rehash

LEMMA HashTypes ==
  ASSUME NEW n \in Nat \ {0}
  PROVE  /\ \A m \in 0 .. n - 1 : HashOf(m) \in Hashes(n) /\ Rehash(m) \in Hashes(n)
         /\ NoHash \in Hashes(n) /\ HashOf(n) \notin Hashes(n)
         /\ Hashes(n) \subseteq Hashes(n + 1) /\ Hashes(n) \subseteq Nat \X BOOLEAN
  <1>1. n - 1 \in Nat /\ 0 \in 0 .. n - 1 /\ 0 .. n - 1 \subseteq Nat
        /\ 0 .. n - 1 \subseteq 0 .. (n + 1) - 1 /\ n \notin 0 .. n - 1
    OBVIOUS
  <1>2. \A m \in 0 .. n - 1 : HashOf(m) \in Hashes(n) /\ Rehash(m) \in Hashes(n)
    BY DEF HashOf, Rehash, Hashes
  <1>3. NoHash \in Hashes(n)
    BY <1>1, <1>2 DEF NoHash
  <1>4. HashOf(n) \notin Hashes(n)
    BY <1>1 DEF HashOf, Hashes
  <1>5. Hashes(n) \subseteq Hashes(n + 1) /\ Hashes(n) \subseteq Nat \X BOOLEAN
    BY <1>1 DEF Hashes
  <1> QED
    BY <1>2, <1>3, <1>4, <1>5

\* The newest entry is that of the greatest seq; its hash is that of an entry.
LEMMA HeadHashIsOne ==
  ASSUME NEW n \in Nat, NEW T, \A e \in T : e.seq \in 1 .. n, T # {}
  PROVE  \E e \in T : e.seq = Head(T) /\ HeadHash(T) = e.hash
  <1>1. \E e \in T : e.seq = Head(T)
    BY HeadFacts
  <1> QED
    BY <1>1 DEF HeadHash

LEMMA HeadHashPlain ==
  ASSUME NEW n \in Nat, NEW T, \A e \in T : e.seq \in 1 .. n /\ e.hash = HashOf(e.seq)
  PROVE  HeadHash(T) = HashOf(Head(T))
  <1>1. CASE T = {}
    BY <1>1 DEF HeadHash, Head, NoHash
  <1>2. CASE T # {}
    BY <1>2, HeadHashIsOne
  <1> QED
    BY <1>1, <1>2
-----------------------------------------------------------------------------
(* The chain and its verification. *)

Has(n) == \E e \in trail : e.seq = n

HasHash(h) == \E e \in trail : e.hash = h

\* An entry has a seq of its own, that was handed out, and a hash that tells it.
TrailInv ==
  /\ nextSeq \in Nat \ {0}
  /\ trail \subseteq [seq : 1 .. nextSeq - 1, prev : Hashes(nextSeq), hash : Hashes(nextSeq),
                     altered : BOOLEAN]
  /\ \A e \in trail : e.hash \in {HashOf(e.seq), Rehash(e.seq)}
  /\ \A e, f \in trail : e.seq = f.seq => e = f

\* Whoever reads the head and inserts holds the lock of the chain, and what it has read is the
\* head still.
LockInv(c) ==
  /\ prev[c] \in Hashes(nextSeq)
  /\ phase[c] \in {"read", "commit"} => chainHolder = c
  /\ harmed = 0 /\ phase[c] = "commit" => prev[c] = HashOf(Head(trail))

LinearInv ==
  harmed = 0 =>
    /\ {e.seq : e \in trail} = UNION {effects[k] : k \in Key}
    /\ \A e \in trail : /\ e.prev = HashOf(Head({f \in trail : f.seq < e.seq}))
                        /\ e.hash = HashOf(e.seq) /\ ~e.altered
    /\ checkpoint.seq # 0 => Has(checkpoint.seq)

\* An entry is as it was hashed, and the one that it links to is there.
Clean(e) == ~e.altered /\ (e.prev = NoHash \/ HasHash(e.prev))

\* Harm up to the checkpoint leaves no entry with the hash that was retained, or an altered
\* entry before it, or one that links to a hash that is not there.
ScarInv ==
  harmed \in 1 .. checkpoint.seq =>
    \/ ~HasHash(checkpoint.hash)
    \/ \E e \in trail : e.seq <= checkpoint.seq /\ ~Clean(e)

AuditType ==
  /\ checkpoint \in [seq : 0 .. nextSeq - 1, hash : Hashes(nextSeq)]
  /\ checkpoint.hash = HashOf(checkpoint.seq)
  /\ harmed \in 0 .. nextSeq - 1
  /\ verify \in [phase : {"idle", "pin", "walk", "done"}, seenHarmed : BOOLEAN, advanced : BOOLEAN,
                 high : 0 .. nextSeq - 1, last : 0 .. nextSeq - 1, prev : Hashes(nextSeq),
                 ok : BOOLEAN]

\* The walk goes from entry to entry ...
Stands == verify.prev = NoHash \/ HasHash(verify.prev)

\* ... without a complaint about an untouched trail ...
SoundInv ==
  harmed = 0 =>
    /\ verify.advanced /\ verify.ok
    /\ verify.prev = HashOf(verify.last) /\ (verify.last = 0 \/ Has(verify.last))

\* ... and past no scar: what it has walked is clean.
SeenInv ==
  verify.seenHarmed =>
    /\ harmed \in 1 .. checkpoint.seq
    /\ Stands
    /\ \A e \in trail : e.seq <= verify.last => Clean(e)
    /\ verify.phase \in {"pin", "walk"} /\ verify.advanced => HasHash(checkpoint.hash)
    /\ verify.phase = "walk" /\ verify.advanced => checkpoint.seq <= verify.high
    /\ verify.phase = "done" => ~verify.ok

AuditInv == TrailInv /\ LinearInv /\ ScarInv /\ AuditType /\ SoundInv /\ SeenInv

ChainInv == AuditInv /\ \A c \in Call : LockInv(c)

LEMMA InitChainInv == Init => ChainInv
  <1> SUFFICES ASSUME Init
               PROVE  ChainInv
    OBVIOUS
  <1>1. nextSeq = 1 /\ NoHash \in Hashes(nextSeq) /\ trail = {} /\ harmed = 0
    BY HashTypes DEF Init
  <1>2. TrailInv /\ ScarInv
    BY <1>1 DEF TrailInv, ScarInv
  <1>3. AuditType /\ SoundInv /\ SeenInv
    BY <1>1 DEF Init, Idle, AuditType, SoundInv, SeenInv, NoHash
  <1>4. LinearInv
    <2>1. UNION {effects[k] : k \in Key} = {}
      BY DEF Init
    <2> QED
      BY <2>1 DEF Init, LinearInv
  <1>5. \A c \in Call : LockInv(c)
    BY <1>1 DEF Init, LockInv
  <1> QED
    BY <1>2, <1>3, <1>4, <1>5 DEF ChainInv, AuditInv

\* What is in its type stays in it when seqs are handed out.
LEMMA TypesGrow ==
  ASSUME nextSeq \in Nat \ {0}, nextSeq' = nextSeq \/ nextSeq' = nextSeq + 1
  PROVE  /\ nextSeq' \in Nat \ {0}
         /\ 0 .. nextSeq - 1 \subseteq 0 .. nextSeq' - 1
         /\ 1 .. nextSeq - 1 \subseteq 1 .. nextSeq' - 1
         /\ Hashes(nextSeq) \subseteq Hashes(nextSeq')
  <1>1. CASE nextSeq' = nextSeq
    BY <1>1
  <1>2. CASE nextSeq' = nextSeq + 1
    BY <1>2, HashTypes
  <1> QED
    BY <1>1, <1>2

LEMMA AuditTypeGrows ==
  ASSUME AuditType, nextSeq \in Nat \ {0}, nextSeq' = nextSeq \/ nextSeq' = nextSeq + 1,
         UNCHANGED auditVars
  PROVE  AuditType'
  <1>1. UNCHANGED <<verify, checkpoint, harmed>>
    BY DEF auditVars
  <1> QED
    BY <1>1, TypesGrow DEF AuditType

\* A seq that is handed out changes nothing that the audit sees.
LEMMA QuietAuditInv ==
  ASSUME AuditInv, UNCHANGED <<trail, effects, auditVars>>,
         nextSeq' = nextSeq \/ nextSeq' = nextSeq + 1
  PROVE  AuditInv'
  <1>1. UNCHANGED <<trail, effects, verify, checkpoint, harmed>>
    BY DEF auditVars
  <1>2. nextSeq \in Nat \ {0}
    BY DEF AuditInv, TrailInv
  <1>3. TrailInv'
    BY <1>1, <1>2, TypesGrow DEF AuditInv, TrailInv
  <1>4. AuditType'
    BY <1>2, AuditTypeGrows DEF AuditInv
  <1>5. LinearInv' /\ ScarInv' /\ SoundInv' /\ SeenInv'
    BY <1>1 DEF AuditInv, LinearInv, ScarInv, SoundInv, SeenInv, Stands, Clean, Has, HasHash
  <1> QED
    BY <1>3, <1>4, <1>5 DEF AuditInv

\* A new entry is linked to what was the newest.
LEMMA CommitAuditInv ==
  ASSUME IInv, ChainInv, NEW c \in Call, Commit(c)
  PROVE  AuditInv'
  <1> DEFINE new == [seq |-> nextSeq, prev |-> prev[c], hash |-> HashOf(nextSeq), altered |-> FALSE]
  <1>1. /\ trail' = trail \cup {new}
        /\ nextSeq' = nextSeq + 1 /\ nextSeq \in Nat \ {0}
        /\ effects' = [effects EXCEPT ![KeyOf[c]] = effects[KeyOf[c]] \cup {nextSeq}]
        /\ UNCHANGED <<verify, checkpoint, harmed>>
        /\ phase[c] = "commit"
    BY DEF Commit, auditVars, ChainInv, AuditInv, TrailInv
  <1>2. new.seq = nextSeq /\ new.prev = prev[c] /\ new.hash = HashOf(nextSeq) /\ new.altered = FALSE
    OBVIOUS
  <1>3. \A e \in trail : e.seq \in 1 .. nextSeq - 1 /\ e.seq < nextSeq
    BY <1>1 DEF ChainInv, AuditInv, TrailInv
  <1>4. prev[c] \in Hashes(nextSeq)
    BY DEF ChainInv, LockInv
  <1>5. TrailInv'
    <2>1. nextSeq \in 1 .. nextSeq' - 1 /\ HashOf(nextSeq) \in Hashes(nextSeq') /\ prev[c] \in Hashes(nextSeq')
      <3>1. nextSeq' \in Nat \ {0} /\ nextSeq \in 1 .. nextSeq' - 1 /\ nextSeq \in 0 .. nextSeq' - 1
        BY <1>1
      <3> QED
        BY <1>1, <1>4, <3>1, HashTypes, TypesGrow
    <2>2. new \in [seq : 1 .. nextSeq' - 1, prev : Hashes(nextSeq'), hash : Hashes(nextSeq'), altered : BOOLEAN]
      BY <2>1
    <2> HIDE DEF new
    <2>4. trail' \subseteq [seq : 1 .. nextSeq' - 1, prev : Hashes(nextSeq'), hash : Hashes(nextSeq'),
                           altered : BOOLEAN]
      <3>1. trail \subseteq [seq : 1 .. nextSeq' - 1, prev : Hashes(nextSeq'), hash : Hashes(nextSeq'),
                            altered : BOOLEAN]
        BY <1>1, TypesGrow DEF ChainInv, AuditInv, TrailInv
      <3> QED
        BY <1>1, <2>2, <3>1
    <2>5. \A e \in trail' : e.hash \in {HashOf(e.seq), Rehash(e.seq)}
      BY <1>1, <1>2 DEF ChainInv, AuditInv, TrailInv
    <2>6. \A e, f \in trail' : e.seq = f.seq => e = f
      BY <1>1, <1>2, <1>3 DEF ChainInv, AuditInv, TrailInv
    <2> QED
      BY <1>1, <2>4, <2>5, <2>6 DEF TrailInv
  <1> HIDE DEF new
  <1>6. /\ \A n \in 0 .. nextSeq - 1 : Has(n)' <=> Has(n)
        /\ \A h \in Hashes(nextSeq) : HasHash(h)' <=> HasHash(h)
        /\ \A e \in trail : Clean(e)' <=> Clean(e)
    <2>1. \A n \in 0 .. nextSeq - 1 : Has(n)' <=> Has(n)
      BY <1>1, <1>2 DEF Has
    <2>2. \A h \in Hashes(nextSeq) : HasHash(h)' <=> HasHash(h)
      BY <1>1, <1>2, HashTypes DEF HasHash
    <2>3. \A e \in trail : e.prev \in Hashes(nextSeq)
      BY DEF ChainInv, AuditInv, TrailInv
    <2> QED
      BY <2>1, <2>2, <2>3 DEF Clean
  <1>7. LinearInv'
    <2> SUFFICES ASSUME harmed = 0
                 PROVE  /\ {e.seq : e \in trail'} = UNION {effects'[k] : k \in Key}
                        /\ \A e \in trail' : /\ e.prev = HashOf(Head({f \in trail' : f.seq < e.seq}))
                                             /\ e.hash = HashOf(e.seq) /\ ~e.altered
                        /\ checkpoint.seq # 0 => Has(checkpoint.seq)'
      BY <1>1 DEF LinearInv
    <2>1. {e.seq : e \in trail'} = UNION {effects'[k] : k \in Key}
      <3>1. {e.seq : e \in trail'} = {e.seq : e \in trail} \cup {nextSeq}
        BY <1>1, <1>2
      <3>2. UNION {effects'[k] : k \in Key} = (UNION {effects[k] : k \in Key}) \cup {nextSeq}
        <4>1. KeyOf[c] \in Key
          BY CommandsAssumption
        <4>2. \A k \in Key : effects'[k] = IF k = KeyOf[c] THEN effects[k] \cup {nextSeq} ELSE effects[k]
          BY <1>1 DEF IInv, Shape
        <4>3. \A x : (\E k \in Key : x \in effects'[k]) <=> x = nextSeq \/ \E k \in Key : x \in effects[k]
          BY <4>1, <4>2
        <4> QED
          BY <4>3, Zenon
      <3>3. {e.seq : e \in trail} = UNION {effects[k] : k \in Key}
        BY DEF ChainInv, AuditInv, LinearInv
      <3> QED
        BY <3>1, <3>2, <3>3
    <2>2. \A e \in trail : {f \in trail' : f.seq < e.seq} = {f \in trail : f.seq < e.seq}
      BY <1>1, <1>2, <1>3
    <2>3. {f \in trail' : f.seq < new.seq} = trail
      BY <1>1, <1>2, <1>3
    <2>4. new.prev = HashOf(Head(trail))
      BY <1>1, <1>2 DEF ChainInv, LockInv
    <2>5. checkpoint.seq # 0 => Has(checkpoint.seq)'
      BY <1>1, <1>6 DEF ChainInv, AuditInv, LinearInv, Has
    <2> QED
      BY <1>1, <1>2, <2>1, <2>2, <2>3, <2>4, <2>5 DEF ChainInv, AuditInv, LinearInv
  <1>8. ScarInv'
    <2>1. checkpoint.hash \in Hashes(nextSeq)
      BY DEF ChainInv, AuditInv, AuditType
    <2> QED
      BY <1>1, <1>6, <2>1 DEF ChainInv, AuditInv, ScarInv
  <1>9. AuditType'
    BY <1>1, AuditTypeGrows DEF ChainInv, AuditInv, auditVars
  <1>10. /\ verify.last \in 0 .. nextSeq - 1 /\ (Has(verify.last)' <=> Has(verify.last))
         /\ Stands' <=> Stands
    <2>1. verify.last \in 0 .. nextSeq - 1 /\ verify.prev \in Hashes(nextSeq)
      BY DEF ChainInv, AuditInv, AuditType
    <2> QED
      BY <1>1, <1>6, <2>1 DEF Stands
  <1>11. SoundInv'
    BY <1>1, <1>10 DEF ChainInv, AuditInv, SoundInv, Has
  <1>12. SeenInv'
    <2> SUFFICES ASSUME verify.seenHarmed
                 PROVE  /\ HasHash(checkpoint.hash) => HasHash(checkpoint.hash)'
                        /\ \A e \in trail' : e.seq <= verify.last => Clean(e)'
      BY <1>1, <1>10 DEF ChainInv, AuditInv, SeenInv
    <2>1. \A h : HasHash(h) => HasHash(h)'
      BY <1>1 DEF HasHash
    <2>2. ~ (new.seq <= verify.last)
      BY <1>1, <1>2, <1>10
    <2>3. HasHash(checkpoint.hash) => HasHash(checkpoint.hash)'
      BY <1>1, <2>1 DEF HasHash
    <2> QED
      BY <1>1, <1>6, <2>2, <2>3 DEF ChainInv, AuditInv, SeenInv
  <1> QED
    BY <1>5, <1>7, <1>8, <1>9, <1>11, <1>12 DEF AuditInv

\* The lock of the chain is held from the read of the head to the end of the transaction.
LEMMA CallLockInv ==
  ASSUME IInv, ChainInv, NEW c \in Call, CallStep(c) \/ Fault(c)
  PROVE  \A d \in Call : LockInv(d)'
  <1> DEFINE Kept == /\ \A d \in Call \ {c} : phase'[d] = phase[d] /\ prev'[d] = prev[d]
                     /\ nextSeq' = nextSeq \/ nextSeq' = nextSeq + 1
  <1>0. \A d \in Call : LockInv(d)
    BY DEF ChainInv
  <1>00. nextSeq \in Nat \ {0} /\ NoHash \in Hashes(nextSeq)
    BY HashTypes DEF ChainInv, AuditInv, TrailInv
  <1>1. CASE LockKey(c) \/ Reply(c)
    <2>1. /\ Kept /\ phase'[c] \in {"look", "done"} /\ prev'[c] = prev[c]
          /\ UNCHANGED <<trail, nextSeq, harmed, chainHolder>>
      BY <1>1 DEF LockKey, Reply, Go, trailVars, auditVars, IInv, Shape
    <2> QED
      BY <1>0, <2>1 DEF LockInv
  <1>2. CASE LookUp(c)
    <2>1. /\ Kept /\ phase'[c] \in {"append", "reply"} /\ prev'[c] = prev[c]
          /\ UNCHANGED <<trail, nextSeq, harmed>>
      BY <1>2 DEF LookUp, Go, trailVars, auditVars, IInv, Shape
    <2>2. chainHolder' = chainHolder \/ chainHolder = c
      BY <1>2 DEF LookUp, Unlock
    <2> QED
      BY <1>0, <2>1, <2>2 DEF LockInv
  <1>3. CASE LockChain(c)
    <2>1. /\ Kept /\ phase'[c] = "read" /\ prev'[c] = prev[c] /\ UNCHANGED <<trail, nextSeq, harmed>>
          /\ chainHolder = NoCall /\ chainHolder' = c
      BY <1>3 DEF LockChain, ChainFree, Go, trailVars, auditVars, IInv, Shape
    <2>2. \A d \in Call : chainHolder # d
      BY <2>1, CommandsAssumption
    <2> QED
      BY <1>0, <2>1, <2>2 DEF LockInv
  <1>4. CASE ReadHead(c)
    <2>1. /\ Kept /\ phase[c] = "read" /\ phase'[c] = "commit" /\ prev'[c] = HeadHash(trail)
          /\ UNCHANGED <<trail, nextSeq, harmed, chainHolder>>
      BY <1>4 DEF ReadHead, Go, trailVars, auditVars, IInv, Shape
    <2>2. nextSeq - 1 \in Nat /\ \A e \in trail : e.seq \in 1 .. nextSeq - 1 /\ e.hash \in Hashes(nextSeq)
      BY DEF ChainInv, AuditInv, TrailInv
    <2>3. HeadHash(trail) \in Hashes(nextSeq)
      <3>1. CASE trail = {}
        BY <1>00, <3>1 DEF HeadHash
      <3>2. CASE trail # {}
        BY <2>2, <3>2, HeadHashIsOne
      <3> QED
        BY <3>1, <3>2
    <2>4. harmed = 0 => HeadHash(trail) = HashOf(Head(trail))
      <3> SUFFICES ASSUME harmed = 0
                   PROVE  HeadHash(trail) = HashOf(Head(trail))
        OBVIOUS
      <3>1. \A e \in trail : e.hash = HashOf(e.seq)
        BY DEF ChainInv, AuditInv, LinearInv
      <3> QED
        BY <2>2, <3>1, HeadHashPlain
    <2> QED
      BY <1>0, <2>1, <2>3, <2>4 DEF LockInv
  <1>5. CASE Commit(c)
    <2>1. /\ Kept /\ phase[c] = "commit" /\ phase'[c] = "reply" /\ prev'[c] = NoHash /\ UNCHANGED harmed
          /\ chainHolder' = IF chainHolder = c THEN NoCall ELSE chainHolder
      BY <1>5 DEF Commit, Go, Unlock, auditVars, IInv, Shape
    <2>2. chainHolder = c
      BY <1>0, <2>1 DEF LockInv
    <2>3. Hashes(nextSeq) \subseteq Hashes(nextSeq')
      BY <1>00, <2>1, TypesGrow
    <2> QED
      BY <1>0, <1>00, <2>1, <2>2, <2>3 DEF LockInv
  <1>6. CASE Fault(c)
    <2>1. /\ Kept /\ phase'[c] = "start" /\ prev'[c] = NoHash /\ UNCHANGED <<trail, harmed>>
          /\ chainHolder' = IF chainHolder = c THEN NoCall ELSE chainHolder
      BY <1>6 DEF Fault, Released, Go, Unlock, auditVars, IInv, Shape
    <2>2. Hashes(nextSeq) \subseteq Hashes(nextSeq')
      BY <1>00, <2>1, TypesGrow
    <2> QED
      BY <1>0, <1>00, <2>1, <2>2 DEF LockInv
  <1> QED
    BY <1>1, <1>2, <1>3, <1>4, <1>5, <1>6 DEF CallStep

LEMMA TrailHead ==
  ASSUME TrailInv
  PROVE  /\ Head(trail) \in 0 .. nextSeq - 1
         /\ trail # {} => Has(Head(trail))
         /\ \A e \in trail : e.seq <= Head(trail)
  <1>1. nextSeq - 1 \in Nat /\ \A e \in trail : e.seq \in 1 .. nextSeq - 1
    BY DEF TrailInv
  <1> QED
    BY <1>1, HeadFacts DEF Has

\* There is a seq for every entry, and there are finitely many.
LEMMA TrailFinite ==
  ASSUME TrailInv
  PROVE  IsFiniteSet(trail)
  <1> DEFINE seqOf == [e \in trail |-> e.seq]
  <1>1. seqOf \in [trail -> 1 .. nextSeq - 1]
    BY DEF TrailInv
  <1>2. \A e, f \in trail : seqOf[e] = seqOf[f] => e = f
    BY DEF TrailInv
  <1>3. DOMAIN seqOf = trail
    OBVIOUS
  <1> HIDE DEF seqOf
  <1>4. seqOf \in Injection(trail, 1 .. nextSeq - 1)
    BY <1>1, <1>2, <1>3 DEF Injection, IsInjective
  <1>5. IsFiniteSet(1 .. nextSeq - 1)
    <2>1. nextSeq - 1 \in Int
      BY DEF TrailInv
    <2> QED
      BY <2>1, FS_Interval
  <1> QED
    BY <1>4, <1>5, FS_Injection

\* The entries of an untouched trail have the hashes that they were given.
LEMMA Untouched ==
  ASSUME ChainInv, harmed = 0
  PROVE  /\ nextSeq \in Nat \ {0} /\ nextSeq - 1 \in Nat
         /\ \A e \in trail : e.seq \in 1 .. nextSeq - 1 /\ e.hash = HashOf(e.seq)
  <1>1. nextSeq \in Nat \ {0} /\ nextSeq - 1 \in Nat
    BY DEF ChainInv, AuditInv, TrailInv
  <1>2. \A e \in trail : e.seq \in 1 .. nextSeq - 1
    BY DEF ChainInv, AuditInv, TrailInv
  <1>3. \A e \in trail : e.hash = HashOf(e.seq)
    BY DEF ChainInv, AuditInv, LinearInv
  <1> QED
    BY <1>1, <1>2, <1>3

\* The retained head is an entry of the trail.
LEMMA CheckpointChainInv ==
  ASSUME ChainInv, Checkpoint
  PROVE  ChainInv'
  <1>1. /\ UNCHANGED <<nextSeq, trail, effects, verify, harmed, chainHolder, phase, prev>>
        /\ harmed = 0 /\ trail # {}
        /\ checkpoint' = [seq |-> Head(trail), hash |-> HeadHash(trail)]
    BY DEF Checkpoint, keyVars, trailVars, callVars
  <1>2. /\ Has(Head(trail)) /\ Head(trail) \in 0 .. nextSeq - 1
        /\ HeadHash(trail) = HashOf(Head(trail)) /\ HashOf(Head(trail)) \in Hashes(nextSeq)
    <2>1. Has(Head(trail)) /\ Head(trail) \in 0 .. nextSeq - 1
      BY <1>1, TrailHead DEF ChainInv, AuditInv
    <2>2. /\ nextSeq \in Nat \ {0} /\ nextSeq - 1 \in Nat
          /\ \A e \in trail : e.seq \in 1 .. nextSeq - 1 /\ e.hash = HashOf(e.seq)
      BY <1>1, Untouched
    <2>3. HeadHash(trail) = HashOf(Head(trail))
      BY <2>2, HeadHashPlain
    <2> QED
      BY <2>1, <2>2, <2>3, HashTypes
  <1>3. checkpoint'.seq = Head(trail) /\ checkpoint'.hash = HashOf(Head(trail))
    BY <1>1, <1>2
  <1>4. TrailInv' /\ ScarInv' /\ SoundInv'
    BY <1>1 DEF ChainInv, AuditInv, TrailInv, ScarInv, SoundInv, Has
  <1>5. LinearInv'
    BY <1>1, <1>2, <1>3 DEF ChainInv, AuditInv, LinearInv, Has
  <1>6. AuditType'
    BY <1>1, <1>2 DEF ChainInv, AuditInv, AuditType
  <1>7. SeenInv'
    BY <1>1 DEF ChainInv, AuditInv, SeenInv
  <1>8. \A c \in Call : LockInv(c)'
    BY <1>1 DEF ChainInv, LockInv
  <1> QED
    BY <1>4, <1>5, <1>6, <1>7, <1>8 DEF ChainInv, AuditInv

\* In an untouched trail the entry behind one that is not the newest links to it.
LEMMA NextLinks ==
  ASSUME ChainInv, harmed = 0, NEW e \in trail, Has(checkpoint.seq), e.seq < checkpoint.seq
  PROVE  \E f \in trail : e.seq < f.seq /\ f.seq <= checkpoint.seq /\ f.prev = HashOf(e.seq)
  <1> DEFINE Later == {f.seq : f \in {g \in trail : e.seq < g.seq}}
  <1>1. TrailInv
    BY DEF ChainInv, AuditInv
  <1>2. \A f \in trail : f.seq \in 1 .. nextSeq - 1 /\ f.seq \in Nat
    BY <1>1 DEF TrailInv
  <1>3. checkpoint.seq \in Later /\ Later \subseteq Nat
    BY <1>2 DEF Has
  <1>4. PICK s \in Later : \A t \in Later : s <= t
    BY <1>3, LeastNumber
  <1>5. PICK f \in trail : f.seq = s /\ e.seq < f.seq
    BY <1>4
  <1>6. f.seq <= checkpoint.seq
    BY <1>3, <1>4, <1>5
  <1> DEFINE Before == {g \in trail : g.seq < f.seq}
  <1>7. \A g \in Before : g.seq <= e.seq
    <2> SUFFICES ASSUME NEW g \in Before, ~ (g.seq <= e.seq)
                 PROVE  FALSE
      OBVIOUS
    <2>1. g \in trail /\ g.seq < f.seq /\ e.seq < g.seq
      BY <1>2
    <2>2. f.seq <= g.seq
      BY <1>4, <1>5, <2>1
    <2> QED
      BY <1>2, <2>1, <2>2
  <1>8. Head(Before) = e.seq
    <2>1. e \in Before /\ nextSeq - 1 \in Nat /\ \A g \in Before : g.seq \in 1 .. nextSeq - 1
      BY <1>1, <1>2, <1>5 DEF TrailInv
    <2> HIDE DEF Before
    <2> QED
      BY <1>7, <2>1, HeadIs
  <1>9. f.prev = HashOf(e.seq)
    BY <1>8 DEF ChainInv, AuditInv, LinearInv
  <1> QED
    BY <1>5, <1>6, <1>9

\* What a rewrite leaves: the untouched entries as they are, and of the others entries with
\* their seq, hashed anew.
LEMMA RewrittenFacts ==
  ASSUME TrailInv, NEW touched \in SUBSET trail, touched # {}, NEW lost \in SUBSET touched
  PROVE  /\ trail \ touched \subseteq Rewritten(touched, lost)
         /\ \A g \in Rewritten(touched, lost) :
              \/ g \in trail \ touched
              \/ /\ \E f \in touched : g.seq = f.seq
                 /\ g.hash = Rehash(g.seq)
                 /\ g \in [seq : 1 .. nextSeq - 1, prev : Hashes(nextSeq), hash : Hashes(nextSeq),
                           altered : BOOLEAN]
         /\ \A f, g \in Rewritten(touched, lost) : f.seq = g.seq => f = g
  <1> DEFINE left == touched \ lost
             Rows == [seq : 1 .. nextSeq - 1, prev : Hashes(nextSeq), hash : Hashes(nextSeq),
                      altered : BOOLEAN]
             first == CHOOSE e \in touched : \A f \in touched : e.seq <= f.seq
             Before(e) == {f \in left : f.seq < e.seq}
             Link(e) == IF Before(e) = {} THEN first.prev ELSE Rehash(Head(Before(e)))
             Anew(e) == [e EXCEPT !.prev = Link(e), !.hash = Rehash(e.seq)]
  <1>1. Rewritten(touched, lost) = (trail \ touched) \cup {Anew(e) : e \in left}
    BY DEF Rewritten
  <1>2. /\ nextSeq \in Nat \ {0} /\ nextSeq - 1 \in Nat
        /\ \A e \in trail : e \in Rows
        /\ \A e, f \in trail : e.seq = f.seq => e = f
    BY DEF TrailInv
  <1>3. first \in touched
    <2> DEFINE S == {e.seq : e \in touched}
    <2>1. S \subseteq Nat /\ S # {}
      BY <1>2
    <2>2. PICK x \in S : \A y \in S : x <= y
      BY <2>1, LeastNumber
    <2>3. \E e \in touched : \A f \in touched : e.seq <= f.seq
      BY <2>2
    <2> QED
      BY <2>3
  <1>4. \A n \in 0 .. nextSeq - 1 : Rehash(n) \in Hashes(nextSeq)
    BY <1>2, HashTypes
  <1>5. \A e \in left : Link(e) \in Hashes(nextSeq)
    <2> SUFFICES ASSUME NEW e \in left
                 PROVE  Link(e) \in Hashes(nextSeq)
      OBVIOUS
    <2>1. first.prev \in Hashes(nextSeq)
      BY <1>2, <1>3
    <2>2. Head(Before(e)) \in 0 .. nextSeq - 1
      <3>1. \A f \in Before(e) : f.seq \in 1 .. nextSeq - 1
        BY <1>2
      <3> HIDE DEF Before
      <3> QED
        BY <1>2, <3>1, HeadFacts
    <2> HIDE DEF Before, first
    <2> QED
      BY <1>4, <2>1, <2>2
  <1> HIDE DEF Link
  <1>6. \A e \in left : /\ Anew(e) \in Rows
                        /\ Anew(e).seq = e.seq /\ Anew(e).hash = Rehash(e.seq)
    <2> SUFFICES ASSUME NEW e \in left
                 PROVE  /\ Anew(e) \in Rows
                        /\ Anew(e).seq = e.seq /\ Anew(e).hash = Rehash(e.seq)
      OBVIOUS
    <2>1. e \in Rows /\ Link(e) \in Hashes(nextSeq) /\ Rehash(e.seq) \in Hashes(nextSeq)
      BY <1>2, <1>4, <1>5
    <2> QED
      BY <2>1
  <1> HIDE DEF Anew
  <1>7. \A g \in Rewritten(touched, lost) :
          \/ g \in trail \ touched
          \/ \E f \in left : g = Anew(f)
    BY <1>1
  <1>8. \A g \in Rewritten(touched, lost) :
          \/ g \in trail \ touched
          \/ (\E f \in touched : g.seq = f.seq) /\ g.hash = Rehash(g.seq) /\ g \in Rows
    BY <1>6, <1>7
  <1>9. ASSUME NEW f \in Rewritten(touched, lost), NEW g \in Rewritten(touched, lost), f.seq = g.seq
        PROVE  f = g
    <2>1. CASE f \in trail \ touched /\ g \in trail \ touched
      BY <1>2, <1>9, <2>1
    <2>2. CASE f \notin trail \ touched /\ g \notin trail \ touched
      BY <1>2, <1>6, <1>7, <1>9, <2>2
    <2>3. CASE f \in trail \ touched /\ g \notin trail \ touched
      BY <1>2, <1>6, <1>7, <1>9, <2>3
    <2>4. CASE f \notin trail \ touched /\ g \in trail \ touched
      BY <1>2, <1>6, <1>7, <1>9, <2>4
    <2> QED
      BY <2>1, <2>2, <2>3, <2>4
  <1> QED
    BY <1>1, <1>8, <1>9

\* Harm is an alteration or a rewrite; either way the shape of the trail stays.
LEMMA HarmTrailInv ==
  ASSUME TrailInv, UNCHANGED nextSeq, NEW e \in trail, Harm(e)
  PROVE  TrailInv'
  <1> DEFINE Rows == [seq : 1 .. nextSeq - 1, prev : Hashes(nextSeq), hash : Hashes(nextSeq),
                      altered : BOOLEAN]
             Anew == [e EXCEPT !.altered = TRUE]
  <1>1. /\ trail \subseteq Rows
        /\ \A f \in trail : f.hash \in {HashOf(f.seq), Rehash(f.seq)}
        /\ \A f, g \in trail : f.seq = g.seq => f = g
    BY DEF TrailInv
  <1>2. CASE trail' = (trail \ {e}) \cup {Anew}
    <2>1. e \in Rows
      BY <1>1
    <2>2. Anew \in Rows /\ Anew.seq = e.seq /\ Anew.hash = e.hash
      BY <2>1
    <2> HIDE DEF Anew
    <2>3. trail' \subseteq Rows
      BY <1>1, <1>2, <2>2
    <2>4. \A f \in trail' : f.hash \in {HashOf(f.seq), Rehash(f.seq)}
      BY <1>1, <1>2, <2>2
    <2>5. \A f, g \in trail' : f.seq = g.seq => f = g
      BY <1>1, <1>2, <2>2
    <2> QED
      BY <2>3, <2>4, <2>5 DEF TrailInv
  <1>3. ASSUME NEW touched \in SUBSET trail, touched # {}, NEW lost \in SUBSET touched,
               trail' = Rewritten(touched, lost)
        PROVE  TrailInv'
    <2>1. \A g \in trail' : g \in Rows /\ g.hash \in {HashOf(g.seq), Rehash(g.seq)}
      BY <1>1, <1>3, RewrittenFacts
    <2>2. \A f, g \in trail' : f.seq = g.seq => f = g
      BY <1>3, RewrittenFacts
    <2> QED
      BY <2>1, <2>2 DEF TrailInv
  <1>4. \/ trail' = (trail \ {e}) \cup {Anew}
        \/ \E touched \in SUBSET trail :
             \E lost \in SUBSET touched : touched # {} /\ trail' = Rewritten(touched, lost)
    BY DEF Harm
  <1> QED
    BY <1>2, <1>3, <1>4

\* What is altered leaves its scar.
LEMMA AlteredScar ==
  ASSUME TrailInv, NEW e \in trail, e.seq <= checkpoint.seq, UNCHANGED checkpoint,
         trail' = (trail \ {e}) \cup {[e EXCEPT !.altered = TRUE]}
  PROVE  ScarInv'
  <1> DEFINE Anew == [e EXCEPT !.altered = TRUE]
  <1>1. Anew.altered /\ Anew.seq = e.seq
    BY DEF TrailInv
  <1>2. Anew \in trail'
    OBVIOUS
  <1> HIDE DEF Anew
  <1> QED
    BY <1>1, <1>2 DEF ScarInv, Clean

\* What is rewritten or removed takes its hash with it: the one that was retained, or the one
\* that the entry behind it links to.
LEMMA RewrittenScar ==
  ASSUME ChainInv, harmed = 0, UNCHANGED checkpoint,
         NEW e \in trail, NEW last \in trail, e.seq <= last.seq, e.seq <= checkpoint.seq,
         NEW touched, touched = {f \in trail : e.seq <= f.seq /\ f.seq <= last.seq},
         NEW lost \in SUBSET touched, trail' = Rewritten(touched, lost)
  PROVE  ScarInv'
  <1>1. TrailInv /\ AuditType
    BY DEF ChainInv, AuditInv
  <1>2. /\ \A f \in trail : f.seq \in Nat /\ f.seq # 0 /\ f.hash = HashOf(f.seq)
        /\ checkpoint.seq \in Nat /\ checkpoint.seq # 0
        /\ checkpoint.hash = HashOf(checkpoint.seq) /\ Has(checkpoint.seq)
    <2>1. \A f \in trail : f.seq \in Nat /\ f.seq # 0 /\ f.hash = HashOf(f.seq)
      BY Untouched
    <2>2. checkpoint.seq \in Nat /\ checkpoint.seq # 0 /\ checkpoint.hash = HashOf(checkpoint.seq)
      <3>1. checkpoint.seq \in Nat /\ checkpoint.hash = HashOf(checkpoint.seq)
        BY <1>1 DEF AuditType
      <3>2. e.seq \in Nat /\ e.seq # 0
        BY <2>1
      <3> QED
        BY <3>1, <3>2
    <2>3. Has(checkpoint.seq)
      BY <2>2 DEF ChainInv, AuditInv, LinearInv
    <2> QED
      BY <2>1, <2>2, <2>3
  <1>3. last \in touched
    <2>1. last.seq \in Nat
      BY <1>2
    <2> QED
      BY <2>1
  <1>4. ASSUME NEW f \in touched, NEW g \in trail', g.hash = HashOf(f.seq)
        PROVE  FALSE
    <2>1. f \in trail /\ f.seq \in Nat
      BY <1>2
    <2>2. CASE g \in trail \ touched
      <3>1. g.seq \in Nat /\ g.hash = HashOf(g.seq)
        BY <1>2, <2>2
      <3>2. g.seq = f.seq
        BY <1>4, <2>1, <3>1, HashFacts
      <3>3. g = f
        BY <1>1, <2>1, <2>2, <3>2 DEF TrailInv
      <3> QED
        BY <2>2, <3>3
    <2>3. CASE g \notin trail \ touched
      <3>1. g.hash = Rehash(g.seq) /\ \E h \in touched : g.seq = h.seq
        BY <1>1, <1>3, <2>3, RewrittenFacts
      <3>2. g.seq \in Nat
        BY <1>2, <3>1
      <3> QED
        BY <1>4, <2>1, <3>1, <3>2, HashFacts
    <2> QED
      BY <2>2, <2>3
  <1>5. CASE checkpoint.seq <= last.seq
    <2>1. PICK f \in trail : f.seq = checkpoint.seq
      BY <1>2 DEF Has
    <2>2. f \in touched
      BY <1>5, <2>1
    <2>3. ~ \E g \in trail' : g.hash = checkpoint.hash
      BY <1>2, <1>4, <2>1, <2>2
    <2> QED
      BY <2>3 DEF ScarInv, HasHash
  <1>6. CASE ~ (checkpoint.seq <= last.seq)
    <2>1. last.seq < checkpoint.seq
      BY <1>2, <1>6
    <2>2. PICK f \in trail : last.seq < f.seq /\ f.seq <= checkpoint.seq /\ f.prev = HashOf(last.seq)
      BY <1>2, <2>1, NextLinks
    <2>3. f \in trail \ touched
      <3>1. f.seq \in Nat /\ last.seq \in Nat
        BY <1>2
      <3> QED
        BY <2>2, <3>1
    <2>4. f \in trail'
      BY <1>1, <1>3, <2>3, RewrittenFacts
    <2>5. ~ \E g \in trail' : g.hash = f.prev
      BY <1>3, <1>4, <2>2
    <2>6. f.prev # NoHash
      BY <1>2, <2>2, HashFacts DEF NoHash
    <2> QED
      BY <2>2, <2>4, <2>5, <2>6 DEF ScarInv, Clean, HasHash
  <1> QED
    BY <1>5, <1>6

\* What is altered, rewritten or removed leaves its scar.
LEMMA HarmChainInv ==
  ASSUME ChainInv, NEW e \in trail, Harm(e)
  PROVE  ChainInv'
  <1>1. /\ UNCHANGED <<nextSeq, effects, verify, checkpoint, chainHolder, phase, prev>>
        /\ harmed = 0 /\ harmed' = e.seq
    BY DEF Harm, keyVars, callVars
  <1>2. TrailInv /\ e.seq \in 1 .. nextSeq - 1 /\ e.seq # 0
    BY DEF ChainInv, AuditInv, TrailInv
  <1>3. TrailInv'
    BY <1>1, <1>2, HarmTrailInv
  <1>4. LinearInv' /\ SoundInv'
    BY <1>1, <1>2 DEF LinearInv, SoundInv
  <1>5. AuditType'
    BY <1>1, <1>2 DEF ChainInv, AuditInv, AuditType
  <1>6. SeenInv'
    <2>1. ~verify.seenHarmed
      BY <1>1 DEF ChainInv, AuditInv, SeenInv
    <2> QED
      BY <1>1, <2>1 DEF SeenInv
  <1>7. \A c \in Call : LockInv(c)'
    BY <1>1, <1>2 DEF ChainInv, LockInv
  <1>8. ScarInv'
    <2>1. CASE ~ (e.seq <= checkpoint.seq)
      <3>1. harmed' \notin 1 .. checkpoint.seq
        BY <1>1, <2>1
      <3> QED
        BY <1>1, <3>1 DEF ScarInv
    <2>2. CASE e.seq <= checkpoint.seq /\ trail' = (trail \ {e}) \cup {[e EXCEPT !.altered = TRUE]}
      BY <1>1, <1>2, <2>2, AlteredScar
    <2>3. ASSUME e.seq <= checkpoint.seq, NEW last \in trail,
                 NEW lost \in SUBSET {f \in trail : e.seq <= f.seq /\ f.seq <= last.seq},
                 e \in {f \in trail : e.seq <= f.seq /\ f.seq <= last.seq},
                 trail' = Rewritten({f \in trail : e.seq <= f.seq /\ f.seq <= last.seq}, lost)
          PROVE  ScarInv'
      BY <1>1, <2>3, RewrittenScar
    <2> QED
      BY <2>1, <2>2, <2>3 DEF Harm
  <1> QED
    BY <1>3, <1>4, <1>5, <1>6, <1>7, <1>8 DEF ChainInv, AuditInv

\* A step of the verification writes nothing but what it has seen.
LEMMA VerifyStep ==
  ASSUME ChainInv, UNCHANGED <<keyVars, trailVars, callVars, checkpoint, harmed>>
  PROVE  /\ UNCHANGED <<trail, nextSeq, checkpoint, harmed>>
         /\ AuditType' /\ SoundInv' /\ SeenInv' => ChainInv'
  <1>1. UNCHANGED <<nextSeq, trail, effects, harmed, checkpoint, chainHolder, phase, prev>>
    BY DEF keyVars, trailVars, callVars
  <1>2. TrailInv' /\ LinearInv' /\ ScarInv' /\ \A c \in Call : LockInv(c)'
    BY <1>1 DEF ChainInv, AuditInv, TrailInv, LinearInv, ScarInv, LockInv, Has, HasHash, Clean
  <1> QED
    BY <1>1, <1>2 DEF ChainInv, AuditInv

\* The retained head of an untouched trail is there, as it was retained, and not behind it.
LEMMA CompareChainInv ==
  ASSUME ChainInv, Compare
  PROVE  ChainInv'
  <1>1. /\ UNCHANGED <<keyVars, trailVars, callVars, checkpoint, harmed>>
        /\ verify' = [phase |-> "pin", seenHarmed |-> harmed \in 1 .. checkpoint.seq,
                      advanced |-> checkpoint.seq = 0 \/ Advanced(checkpoint), high |-> 0,
                      last |-> 0, prev |-> NoHash, ok |-> TRUE]
    BY DEF Compare, Idle
  <1>2. /\ verify'.phase = "pin" /\ verify'.last = 0 /\ verify'.prev = NoHash /\ verify'.ok
        /\ verify'.seenHarmed <=> harmed \in 1 .. checkpoint.seq
        /\ verify'.advanced <=> checkpoint.seq = 0 \/ Advanced(checkpoint)
    BY <1>1
  <1>3. UNCHANGED <<trail, nextSeq, checkpoint, harmed>>
    BY <1>1, VerifyStep
  <1>4. AuditType'
    <2>1. 0 \in 0 .. nextSeq - 1 /\ NoHash \in Hashes(nextSeq)
      BY HashTypes DEF ChainInv, AuditInv, TrailInv
    <2> QED
      BY <1>1, <1>3, <2>1 DEF ChainInv, AuditInv, AuditType
  <1>5. SoundInv'
    <2> SUFFICES ASSUME harmed = 0, checkpoint.seq # 0
                 PROVE  Advanced(checkpoint)
      BY <1>2, <1>3 DEF SoundInv, NoHash
    <2>1. PICK e \in trail : e.seq = checkpoint.seq
      BY DEF ChainInv, AuditInv, LinearInv, Has
    <2>2. e.hash = checkpoint.hash
      BY <2>1 DEF ChainInv, AuditInv, LinearInv, AuditType
    <2>3. Head(trail) \in Nat /\ checkpoint.seq \in Nat /\ checkpoint.seq <= Head(trail)
      BY <2>1, TrailHead DEF ChainInv, AuditInv, AuditType
    <2> QED
      BY <2>1, <2>2, <2>3 DEF Advanced
  <1>6. SeenInv'
    <2> SUFFICES ASSUME harmed \in 1 .. checkpoint.seq
                 PROVE  /\ \A e \in trail : ~ (e.seq <= 0)
                        /\ verify'.advanced => \E e \in trail : e.hash = checkpoint.hash
      BY <1>2, <1>3 DEF SeenInv, Stands, HasHash
    <2>1. \A e \in trail : ~ (e.seq <= 0)
      BY DEF ChainInv, AuditInv, TrailInv
    <2>2. checkpoint.seq # 0
      BY DEF ChainInv, AuditInv, AuditType
    <2> QED
      BY <1>2, <2>1, <2>2 DEF Advanced
  <1> QED
    BY <1>1, <1>4, <1>5, <1>6, VerifyStep

\* The walk is pinned at or behind the retained head.
LEMMA PinChainInv ==
  ASSUME ChainInv, Pin
  PROVE  ChainInv'
  <1>1. /\ UNCHANGED <<keyVars, trailVars, callVars, checkpoint, harmed>>
        /\ verify.phase = "pin"
        /\ verify' = [verify EXCEPT !.phase = "walk", !.high = Head(trail)]
    BY DEF Pin
  <1>2. UNCHANGED <<trail, nextSeq, checkpoint, harmed>>
    BY <1>1, VerifyStep
  <1>3. TrailInv /\ Head(trail) \in 0 .. nextSeq - 1
    BY TrailHead DEF ChainInv, AuditInv
  <1>4. AuditType'
    BY <1>1, <1>2, <1>3 DEF ChainInv, AuditInv, AuditType
  <1>5. /\ verify'.phase = "walk" /\ verify'.high = Head(trail)
        /\ verify'.last = verify.last /\ verify'.prev = verify.prev /\ verify'.ok = verify.ok
        /\ verify'.advanced = verify.advanced /\ verify'.seenHarmed = verify.seenHarmed
    BY <1>1 DEF ChainInv, AuditInv, AuditType
  <1>6. SoundInv'
    BY <1>2, <1>5 DEF ChainInv, AuditInv, SoundInv, Has
  <1>7. SeenInv'
    <2> SUFFICES ASSUME verify.seenHarmed, verify.advanced
                 PROVE  HasHash(checkpoint.hash) /\ checkpoint.seq <= Head(trail)
      BY <1>1, <1>2, <1>5 DEF ChainInv, AuditInv, SeenInv, Stands, Clean, HasHash
    <2>1. PICK e \in trail : e.hash = checkpoint.hash
      BY <1>1 DEF ChainInv, AuditInv, SeenInv, HasHash
    <2>2. e.seq = checkpoint.seq
      <3>1. e.seq \in Nat /\ e.hash \in {HashOf(e.seq), Rehash(e.seq)}
        BY DEF ChainInv, AuditInv, TrailInv
      <3>2. checkpoint.seq \in Nat /\ checkpoint.hash = HashOf(checkpoint.seq)
        BY DEF ChainInv, AuditInv, AuditType
      <3> QED
        BY <2>1, <3>1, <3>2, HashFacts
    <2> QED
      BY <1>3, <2>1, <2>2, TrailHead DEF HasHash
  <1> QED
    BY <1>1, <1>4, <1>6, <1>7, VerifyStep

Rest == {e \in trail : verify.last < e.seq /\ e.seq <= verify.high}

LEMMA PageFacts ==
  ASSUME ChainInv
  PROVE  /\ Page \subseteq Rest
         /\ \A e \in Page, f \in Rest : f.seq < e.seq => f \in Page
         /\ Cardinality(Page) # PageSize => Page = Rest
         /\ Cardinality(Page) = PageSize => Page # {}
         /\ Page # {} => (\E e \in Page : e.seq = Head(Page)) /\ \A e \in Page : e.seq <= Head(Page)
  <1>1. Page = Oldest(Rest, PageSize) /\ Page \subseteq Rest
    BY DEF Page, Oldest, Rest
  <1>2. PageSize \in Nat \ {0}
    BY CommandsAssumption
  <1>3. nextSeq - 1 \in Nat /\ \A e \in Rest : e.seq \in 1 .. nextSeq - 1
    BY DEF ChainInv, AuditInv, TrailInv, Rest
  <1>4. IsFiniteSet(Rest)
    <2>1. Rest \subseteq trail /\ IsFiniteSet(trail)
      BY TrailFinite DEF ChainInv, AuditInv, Rest
    <2> QED
      BY <2>1, FS_Subset
  <1>5. \A e, f \in Rest : e.seq = f.seq => e = f
    BY DEF ChainInv, AuditInv, TrailInv, Rest
  <1>6. \A e \in Page, f \in Rest : f.seq < e.seq => f \in Page
    BY <1>1, <1>2, <1>3, <1>4, OldestDown
  <1>7. Cardinality(Page) # PageSize => Page = Rest
    BY <1>1, <1>2, <1>3, <1>4, <1>5, OldestFull
  <1>8. Cardinality(Page) = PageSize => Page # {}
    BY <1>2, FS_EmptySet
  <1>9. \A e \in Page : e.seq \in 1 .. nextSeq - 1
    BY <1>1, <1>3
  <1>10. Page # {} => (\E e \in Page : e.seq = Head(Page)) /\ \A e \in Page : e.seq <= Head(Page)
    BY <1>3, <1>9, HeadFacts
  <1> QED
    BY <1>1, <1>6, <1>7, <1>8, <1>10

\* No page of an untouched trail gives cause for complaint.
LEMMA PageIntact ==
  ASSUME ChainInv, harmed = 0, NEW e \in Page
  PROVE  Linked(e, Page)
  <1> DEFINE Before == {f \in Page : f.seq < e.seq}
             Older == {f \in trail : f.seq < e.seq}
  <1>1. /\ nextSeq - 1 \in Nat
        /\ \A f \in trail : f.seq \in 1 .. nextSeq - 1 /\ f.hash = HashOf(f.seq)
        /\ verify.last \in Nat /\ verify.prev = HashOf(verify.last)
    BY Untouched DEF ChainInv, AuditInv, SoundInv, AuditType
  <1>2. e \in trail /\ verify.last < e.seq /\ e.seq <= verify.high /\ verify.high \in Nat
    BY PageFacts DEF Rest, ChainInv, AuditInv, AuditType
  <1>3. e.prev = HashOf(Head(Older)) /\ ~e.altered
    BY <1>2 DEF ChainInv, AuditInv, LinearInv
  <1>4. Before \subseteq Older /\ \A f \in Page : f \in trail /\ verify.last < f.seq
    BY PageFacts DEF Rest
  <1>5. \A f \in Older : f.seq <= verify.last \/ f \in Before
    <2> SUFFICES ASSUME NEW f \in Older, ~ (f.seq <= verify.last)
                 PROVE  f \in Before
      OBVIOUS
    <2>1. f \in trail /\ f.seq < e.seq /\ verify.last < f.seq
      BY <1>1
    <2>2. f.seq <= verify.high
      BY <1>1, <1>2, <2>1
    <2>3. f \in Rest
      BY <2>1, <2>2 DEF Rest
    <2> QED
      BY <2>1, <2>3, PageFacts
  <1>6. \A f \in Older : f.seq \in 1 .. nextSeq - 1
    BY <1>1
  <1>7. CASE Before = {}
    <2>1. Head(Older) = verify.last
      <3>1. CASE verify.last = 0
        <4>1. Older = {}
          BY <1>1, <1>5, <1>7, <3>1
        <4> QED
          BY <3>1, <4>1 DEF Head
      <3>2. CASE verify.last # 0
        <4>1. PICK f \in trail : f.seq = verify.last
          BY <3>2 DEF ChainInv, AuditInv, SoundInv, Has
        <4>2. f \in Older /\ \A g \in Older : g.seq <= f.seq
          BY <1>2, <1>5, <1>7, <4>1
        <4> HIDE DEF Older
        <4>3. Head(Older) = f.seq
          BY <1>1, <1>6, <4>2, HeadIs
        <4> QED
          BY <4>1, <4>3
      <3> QED
        BY <3>1, <3>2
    <2>2. Linked(e, Page) <=> e.prev = verify.prev /\ ~e.altered
      BY <1>7 DEF Linked
    <2> QED
      BY <1>1, <1>3, <2>1, <2>2
  <1>8. CASE Before # {}
    <2>1. \A f \in Before : f.seq \in 1 .. nextSeq - 1 /\ f.hash = HashOf(f.seq)
      BY <1>1, <1>4
    <2>2. /\ (\E f \in Before : f.seq = Head(Before)) /\ \A f \in Before : f.seq <= Head(Before)
          /\ HeadHash(Before) = HashOf(Head(Before))
      <3> HIDE DEF Before
      <3> QED
        BY <1>1, <1>8, <2>1, HeadFacts, HeadHashPlain
    <2>3. PICK f \in Before : f.seq = Head(Before)
      BY <2>2
    <2>4. \A g \in Older : g.seq <= f.seq
      BY <1>1, <1>4, <1>5, <2>2, <2>3
    <2>5. Head(Older) = f.seq
      <3>1. f \in Older
        BY <1>4
      <3> HIDE DEF Older, Before
      <3> QED
        BY <1>1, <1>6, <2>4, <3>1, HeadIs
    <2>6. Linked(e, Page) <=> e.prev = HeadHash(Before) /\ ~e.altered
      BY <1>8 DEF Linked
    <2> QED
      BY <1>3, <2>2, <2>3, <2>5, <2>6
  <1> QED
    BY <1>7, <1>8

\* An entry on a page that links well links to an entry that is there.
LEMMA PageLinks ==
  ASSUME ChainInv, Stands, NEW e \in Page, Linked(e, Page)
  PROVE  Clean(e)
  <1> DEFINE Before == {f \in Page : f.seq < e.seq}
  <1>1. CASE Before = {}
    <2>1. e.prev = verify.prev /\ ~e.altered
      BY <1>1 DEF Linked
    <2> QED
      BY <2>1 DEF Stands, Clean
  <1>2. CASE Before # {}
    <2>1. e.prev = HeadHash(Before) /\ ~e.altered
      BY <1>2 DEF Linked
    <2>2. nextSeq - 1 \in Nat /\ \A f \in Before : f \in trail /\ f.seq \in 1 .. nextSeq - 1
      BY PageFacts DEF ChainInv, AuditInv, TrailInv, Rest
    <2>3. \E f \in Before : HeadHash(Before) = f.hash
      <3> HIDE DEF Before
      <3> QED
        BY <1>2, <2>2, HeadHashIsOne
    <2> QED
      BY <2>1, <2>2, <2>3 DEF Clean, HasHash
  <1> QED
    BY <1>1, <1>2

Intact == \A e \in Page : Linked(e, Page)

\* A page that is walked without a complaint has nothing altered and no link into the void.
LEMMA WalkedClean ==
  ASSUME ChainInv, verify.seenHarmed, Intact, NEW e \in trail,
         e.seq <= verify.last \/ e \in Page
  PROVE  Clean(e)
  <1>1. SeenInv
    BY DEF ChainInv, AuditInv
  <1>2. CASE e.seq <= verify.last
    BY <1>1, <1>2 DEF SeenInv
  <1>3. CASE e \in Page
    BY <1>1, <1>3, PageLinks DEF SeenInv, Intact
  <1> QED
    BY <1>2, <1>3

\* The last page of a trail with a scar is not reached without a complaint.
LEMMA ScarIsSeen ==
  ASSUME ChainInv, verify.seenHarmed, verify.phase = "walk", Intact, verify.advanced, Page = Rest
  PROVE  FALSE
  <1>1. /\ harmed \in 1 .. checkpoint.seq /\ checkpoint.seq \in Nat
        /\ HasHash(checkpoint.hash) /\ checkpoint.seq <= verify.high
        /\ verify.high \in Nat /\ verify.last \in Nat
    BY DEF ChainInv, AuditInv, SeenInv, AuditType
  <1>2. ASSUME NEW e \in trail, e.seq <= checkpoint.seq
        PROVE  Clean(e)
    <2>1. e.seq \in Nat
      BY DEF ChainInv, AuditInv, TrailInv
    <2>2. e.seq <= verify.last \/ e \in Page
      BY <1>1, <1>2, <2>1 DEF Rest
    <2> QED
      BY <2>2, WalkedClean
  <1>3. PICK e \in trail : e.seq <= checkpoint.seq /\ ~Clean(e)
    BY <1>1 DEF ChainInv, AuditInv, ScarInv
  <1> QED
    BY <1>2, <1>3

LEMMA WalkChainInv ==
  ASSUME ChainInv, Walk
  PROVE  ChainInv'
  <1>1. /\ UNCHANGED <<keyVars, trailVars, callVars, checkpoint, harmed>>
        /\ verify.phase = "walk"
        /\ verify' = IF Intact /\ Cardinality(Page) = PageSize
                     THEN [verify EXCEPT !.last = Head(Page), !.prev = HeadHash(Page)]
                     ELSE [Idle EXCEPT !.phase = "done", !.seenHarmed = verify.seenHarmed,
                                       !.ok = Intact /\ verify.advanced]
    BY Zenon DEF Walk, Intact
  <1>2. UNCHANGED <<trail, nextSeq, checkpoint, harmed>>
    BY <1>1, VerifyStep
  <1>3. CASE Intact /\ Cardinality(Page) = PageSize
    <2>0. /\ nextSeq - 1 \in Nat /\ Page # {}
          /\ \A e \in Page : e \in trail /\ e.seq \in 1 .. nextSeq - 1
      BY <1>3, PageFacts DEF Rest, ChainInv, AuditInv, TrailInv
    <2>1. PICK p \in Page : p.seq = Head(Page) /\ HeadHash(Page) = p.hash
      BY <2>0, HeadHashIsOne
    <2>2. /\ p \in trail /\ verify.last < p.seq /\ p.seq <= verify.high
          /\ p.seq \in 0 .. nextSeq - 1 /\ p.hash \in Hashes(nextSeq)
          /\ \A e \in Page : e.seq <= p.seq
      BY <2>0, <2>1, PageFacts DEF Rest, ChainInv, AuditInv, TrailInv
    <2>3. verify' = [verify EXCEPT !.last = p.seq, !.prev = p.hash]
      BY <1>1, <1>3, <2>1
    <2>4. AuditType'
      BY <1>2, <2>2, <2>3 DEF ChainInv, AuditInv, AuditType
    <2>5. /\ verify'.last = p.seq /\ verify'.prev = p.hash
          /\ verify'.phase = verify.phase /\ verify'.ok = verify.ok
          /\ verify'.advanced = verify.advanced /\ verify'.seenHarmed = verify.seenHarmed
          /\ verify'.high = verify.high
      BY <2>3 DEF ChainInv, AuditInv, AuditType
    <2>6. Stands'
      BY <1>2, <2>2, <2>5 DEF Stands, HasHash
    <2>7. SoundInv'
      <3>1. harmed = 0 => p.hash = HashOf(p.seq)
        BY <2>2 DEF ChainInv, AuditInv, LinearInv
      <3> QED
        BY <1>2, <2>2, <2>5, <3>1 DEF ChainInv, AuditInv, SoundInv, Has
    <2>8. SeenInv'
      <3> SUFFICES ASSUME verify.seenHarmed, NEW e \in trail, e.seq <= p.seq
                   PROVE  Clean(e)
        BY <1>1, <1>2, <2>5, <2>6 DEF ChainInv, AuditInv, SeenInv, Clean, HasHash
      <3>1. e.seq \in Nat /\ p.seq \in Nat /\ verify.last \in Nat /\ verify.high \in Nat
        BY <2>2 DEF ChainInv, AuditInv, TrailInv, AuditType
      <3>2. e.seq <= verify.last \/ e \in Rest
        BY <2>2, <3>1 DEF Rest
      <3>3. e.seq = p.seq => e = p
        BY <2>2 DEF ChainInv, AuditInv, TrailInv
      <3>4. e \in Rest => e \in Page
        BY <3>1, <3>3, PageFacts
      <3> QED
        BY <1>3, <3>2, <3>4, WalkedClean
    <2> QED
      BY <1>1, <2>4, <2>7, <2>8, VerifyStep
  <1>4. CASE ~ (Intact /\ Cardinality(Page) = PageSize)
    <2>1. verify' = [phase |-> "done", seenHarmed |-> verify.seenHarmed, advanced |-> TRUE,
                     high |-> 0, last |-> 0, prev |-> NoHash, ok |-> Intact /\ verify.advanced]
      <3>1. verify' = [Idle EXCEPT !.phase = "done", !.seenHarmed = verify.seenHarmed,
                                   !.ok = Intact /\ verify.advanced]
        BY <1>1, <1>4, Zenon
      <3> QED
        BY <3>1, Zenon DEF Idle
    <2>2. /\ verify'.phase = "done" /\ verify'.last = 0 /\ verify'.prev = NoHash
          /\ verify'.advanced = TRUE /\ verify'.seenHarmed = verify.seenHarmed
          /\ verify'.ok <=> Intact /\ verify.advanced
      BY <2>1
    <2>3. AuditType'
      <3>1. 0 \in 0 .. nextSeq - 1 /\ NoHash \in Hashes(nextSeq)
        BY HashTypes DEF ChainInv, AuditInv, TrailInv
      <3>2. verify.seenHarmed \in BOOLEAN /\ (Intact /\ verify.advanced) \in BOOLEAN
        BY DEF ChainInv, AuditInv, AuditType
      <3> QED
        BY <1>2, <2>1, <3>1, <3>2 DEF ChainInv, AuditInv, AuditType
    <2>4. SoundInv'
      BY <1>2, <2>2, PageIntact DEF ChainInv, AuditInv, SoundInv, Intact, NoHash
    <2>5. SeenInv'
      <3> SUFFICES ASSUME verify.seenHarmed
                   PROVE  /\ \A e \in trail : ~ (e.seq <= 0)
                          /\ ~ (Intact /\ verify.advanced)
        BY <1>2, <2>2 DEF ChainInv, AuditInv, SeenInv, Stands
      <3>1. \A e \in trail : ~ (e.seq <= 0)
        BY DEF ChainInv, AuditInv, TrailInv
      <3>2. ~ (Intact /\ verify.advanced)
        BY <1>1, <1>4, PageFacts, ScarIsSeen
      <3> QED
        BY <3>1, <3>2
    <2> QED
      BY <1>1, <2>3, <2>4, <2>5, VerifyStep
  <1> QED
    BY <1>3, <1>4

\* Whatever calls, retention and audit do at once, the chain stays what it is.
LEMMA NextChainInv == IInv /\ ChainInv /\ [Next]_vars => ChainInv'
  <1> SUFFICES ASSUME IInv, ChainInv, [Next]_vars
               PROVE  ChainInv'
    OBVIOUS
  <1>1. ASSUME NEW c \in Call, CallStep(c) \/ Fault(c)
        PROVE  ChainInv'
    <2>1. CASE Commit(c)
      BY <1>1, <2>1, CommitAuditInv, CallLockInv DEF ChainInv
    <2>2. CASE CallStep(c) /\ ~Commit(c)
      <3>1. UNCHANGED <<trail, nextSeq, effects, auditVars>>
        BY <2>2 DEF CallStep, LockKey, LookUp, LockChain, ReadHead, Reply, trailVars
      <3> QED
        BY <1>1, <3>1, QuietAuditInv, CallLockInv DEF ChainInv
    <2>3. CASE Fault(c)
      <3>1. UNCHANGED <<trail, effects, auditVars>> /\ (nextSeq' = nextSeq \/ nextSeq' = nextSeq + 1)
        BY <2>3 DEF Fault
      <3> QED
        BY <1>1, <3>1, QuietAuditInv, CallLockInv DEF ChainInv
    <2> QED
      BY <1>1, <2>1, <2>2, <2>3
  <1>2. CASE (\E k \in Key : GrowOld(k)) \/ Prune \/ UNCHANGED vars
    <2>1. UNCHANGED <<trailVars, callVars, auditVars>>
      BY <1>2 DEF GrowOld, Prune, vars
    <2>2. UNCHANGED <<trail, nextSeq, effects, auditVars, harmed, chainHolder, phase, prev>>
      BY <2>1 DEF trailVars, callVars, auditVars
    <2>3. \A c \in Call : LockInv(c)'
      BY <2>2 DEF ChainInv, LockInv
    <2> QED
      BY <2>2, <2>3, QuietAuditInv DEF ChainInv
  <1>3. CASE AuditStep
    BY <1>3, CheckpointChainInv, HarmChainInv, CompareChainInv, PinChainInv, WalkChainInv DEF AuditStep
  <1> QED
    BY <1>1, <1>2, <1>3 DEF Next

\* For any writers that fail and are repeated (record in audit.service.ts): the trail holds the
\* entries of the committed effects and no others, each linked to the one before it.
THEOREM ChainIsLinearAlways == Spec => []ChainIsLinear
  <1>1. ChainInv => ChainIsLinear
    <2> SUFFICES ASSUME ChainInv, harmed = 0, NEW e \in trail
                 PROVE  e.prev = HeadHash({f \in trail : f.seq < e.seq})
      BY DEF ChainInv, AuditInv, LinearInv, ChainIsLinear
    <2> DEFINE Older == {f \in trail : f.seq < e.seq}
    <2>1. nextSeq - 1 \in Nat /\ \A f \in Older : f.seq \in 1 .. nextSeq - 1 /\ f.hash = HashOf(f.seq)
      BY Untouched
    <2>2. e.prev = HashOf(Head(Older))
      BY DEF ChainInv, AuditInv, LinearInv
    <2> HIDE DEF Older
    <2>3. e.prev = HeadHash(Older)
      BY <2>1, <2>2, HeadHashPlain
    <2> QED
      BY <2>3 DEF Older
  <1> QED
    BY <1>1, InitIInv, NextIInv, InitChainInv, NextChainInv, PTL DEF Spec

\* For any page size, any trail and any growth of it during the walk (verifyChain,
\* compareCheckpoint): no complaint about an untouched trail, and one about a trail of which an
\* entry up to the retained checkpoint had been altered, rewritten with the hashes of those behind
\* it, or removed.
THEOREM VerdictIsTrueAlways == Spec => []VerdictIsTrue
  <1>1. ChainInv => VerdictIsTrue
    BY DEF ChainInv, AuditInv, SoundInv, SeenInv, VerdictIsTrue
  <1> QED
    BY <1>1, InitIInv, NextIInv, InitChainInv, NextChainInv, PTL DEF Spec

\* Every variable stays in its type.
THEOREM TypeCorrect == Spec => []TypeOK
  <1>1. Init => TypeOK
    <2> SUFFICES ASSUME Init
                 PROVE  TypeOK
      OBVIOUS
    <2>1. NoHash \in Nat \X BOOLEAN
      BY DEF NoHash, HashOf
    <2>2. checkpoint \in [seq : Nat, hash : Nat \X BOOLEAN] /\ prev \in [Call -> Nat \X BOOLEAN]
      BY <2>1 DEF Init
    <2> QED
      BY <2>2, CommandsAssumption DEF Init, TypeOK, NoRow
  <1>2. TypeOK /\ IInv /\ ChainInv /\ [Next]_vars => TypeOK'
    <2> SUFFICES ASSUME TypeOK, IInv, ChainInv, [Next]_vars
                 PROVE  TypeOK'
      OBVIOUS
    <2>1. IInv' /\ ChainInv'
      BY NextIInv, NextChainInv
    <2>2. Hashes(nextSeq') \subseteq Nat \X BOOLEAN
      <3>1. nextSeq' \in Nat \ {0}
        BY <2>1 DEF IInv, Shape
      <3> QED
        BY <3>1 DEF Hashes
    <2>3. prev' \in [Call -> Nat \X BOOLEAN]
      BY <2>1, <2>2 DEF IInv, Shape, ChainInv, LockInv
    <2>4. \A k \in Key : stored'[k].result \in Nat
      <3>1. CASE \E c \in Call : Commit(c)
        BY <3>1 DEF Commit, RowOf, TypeOK, IInv, Shape, ChainInv, AuditInv, TrailInv
      <3>2. CASE Prune
        BY <3>2 DEF Prune, NoRow, TypeOK
      <3>3. CASE UNCHANGED stored
        BY <3>3 DEF TypeOK
      <3>4. (\E c \in Call : Commit(c)) \/ Prune \/ UNCHANGED stored
        BY DEF Next, vars, keyVars, CallStep, LockKey, LookUp, LockChain, ReadHead, Reply, Fault, GrowOld,
               AuditStep, Checkpoint, Harm, Compare, Pin, Walk
      <3> QED
        BY <3>1, <3>2, <3>3, <3>4
    <2>5. /\ keyHolder' \in [Key -> Call \cup {NoCall}] /\ chainHolder' \in Call \cup {NoCall}
          /\ faults' \in 0 .. MaxFaults
      <3>1. ASSUME NEW c \in Call, CallStep(c) \/ Fault(c)
            PROVE  /\ keyHolder' \in [Key -> Call \cup {NoCall}] /\ chainHolder' \in Call \cup {NoCall}
                   /\ faults' \in 0 .. MaxFaults
        <4>1. KeyOf[c] \in Key /\ MaxFaults \in Nat /\ faults \in 0 .. MaxFaults
          BY CommandsAssumption DEF TypeOK
        <4>2. faults' \in 0 .. MaxFaults
          BY <3>1, <4>1 DEF CallStep, LockKey, LookUp, LockChain, ReadHead, Commit, Reply, Fault
        <4>3. chainHolder' \in {c, NoCall, chainHolder}
          BY <3>1 DEF CallStep, LockKey, LookUp, LockChain, ReadHead, Commit, Reply, Fault, Released, Unlock
        <4>4. \/ keyHolder' = keyHolder
              \/ keyHolder' = [keyHolder EXCEPT ![KeyOf[c]] = c]
              \/ keyHolder' = [keyHolder EXCEPT ![KeyOf[c]] = IF @ = c THEN NoCall ELSE @]
          BY <3>1 DEF CallStep, LockKey, LookUp, LockChain, ReadHead, Commit, Reply, Fault, Released, Unlock
        <4>5. keyHolder' \in [Key -> Call \cup {NoCall}]
          BY <4>1, <4>4 DEF TypeOK
        <4> QED
          BY <4>2, <4>3, <4>5 DEF TypeOK
      <3>2. CASE UNCHANGED <<keyHolder, chainHolder, faults>>
        BY <3>2 DEF TypeOK
      <3>3. (\E c \in Call : CallStep(c) \/ Fault(c)) \/ UNCHANGED <<keyHolder, chainHolder, faults>>
        BY DEF Next, vars, callVars, GrowOld, Prune, AuditStep, Checkpoint, Harm, Compare, Pin, Walk
      <3> QED
        BY <3>1, <3>2, <3>3
    <2>6. /\ \A e \in trail' : /\ e.seq \in 1 .. nextSeq' - 1
                               /\ e.prev \in Hashes(nextSeq') /\ e.hash \in Hashes(nextSeq')
                               /\ e.altered \in BOOLEAN
          /\ checkpoint' \in [seq : Nat, hash : Nat \X BOOLEAN] /\ harmed' \in Nat
      BY <2>1, <2>2 DEF ChainInv, AuditInv, AuditType, TrailInv
    <2> QED
      BY <2>1, <2>2, <2>3, <2>4, <2>5, <2>6 DEF TypeOK, IInv, Shape
  <1> QED
    BY <1>1, <1>2, InitIInv, NextIInv, InitChainInv, NextChainInv, PTL DEF Spec
=============================================================================
