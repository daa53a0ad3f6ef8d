------------------------ MODULE OrderNumberStore_proof ------------------------
(***************************************************************************)
(* Proofs about OrderNumberStore, for any set of calls and any number of   *)
(* crashes and I/O errors: the order numbers are unique, they are          *)
(* persisted before they are returned, and the store implements the        *)
(* indivisible counter of NumberSequence.                                  *)
(***************************************************************************)
EXTENDS OrderNumberStore, TLAPS

\* The store's variables have their types (order_number.go:12-19).
THEOREM StoreTypeCorrect == Spec => []TypeOK
<1>1. Init => TypeOK
  <2> SUFFICES ASSUME Init PROVE TypeOK
    OBVIOUS
  <2>1. pc \in [Calls -> Stages] /\ data \in [Calls -> Nat]
    BY DEF Init, Stages
  <2>2. file \in Nat /\ holder \in SUBSET Calls
    BY StoreAssumption DEF StoreAssumption, Init
  <2>3. lost \in BOOLEAN
    BY DEF Init
  <2>4. crashes \in 0..MaxCrashes /\ faults \in 0..MaxFaults
    BY StoreAssumption DEF StoreAssumption, Init
  <2> QED
    BY <2>1, <2>2, <2>3, <2>4 DEF TypeOK
<1>2. TypeOK /\ [Next]_vars => TypeOK'
  <2> SUFFICES ASSUME TypeOK, [Next]_vars PROVE TypeOK'
    OBVIOUS
  <2> USE StoreAssumption DEF StoreAssumption, TypeOK, Stages
  <2>1. ASSUME NEW c \in Calls, Call(c) PROVE TypeOK'
    BY <2>1 DEF Call, Move
  <2>2. ASSUME NEW c \in Calls, Lock(c) PROVE TypeOK'
    BY <2>2 DEF Lock, Move
  <2>3. ASSUME NEW c \in Calls, Read(c) PROVE TypeOK'
    BY <2>3 DEF Read, Move
  <2>4. ASSUME NEW c \in Calls, ReadFails(c) PROVE TypeOK'
    BY <2>4 DEF ReadFails, Move, Fault
  <2>5. ASSUME NEW c \in Calls, Truncate(c) PROVE TypeOK'
    BY <2>5 DEF Truncate, Move
  <2>6. ASSUME NEW c \in Calls, OpenFails(c) PROVE TypeOK'
    BY <2>6 DEF OpenFails, Move, Fault
  <2>7. ASSUME NEW c \in Calls, WriteBytes(c) PROVE TypeOK'
    BY <2>7 DEF WriteBytes, Move
  <2>8. ASSUME NEW c \in Calls, WriteFails(c) PROVE TypeOK'
    BY <2>8 DEF WriteFails, Move, Fault
  <2>9. ASSUME NEW c \in Calls, Return(c) PROVE TypeOK'
    BY <2>9 DEF Return, Move
  <2>10. ASSUME NEW c \in Calls, ReturnError(c) PROVE TypeOK'
    BY <2>10 DEF ReturnError, Move
  <2>11. ASSUME Crash PROVE TypeOK'
    BY <2>11 DEF Crash
  <2>12. CASE UNCHANGED vars
    BY <2>12 DEF vars
  <2> QED
    BY <2>1, <2>2, <2>3, <2>4, <2>5, <2>6, <2>7, <2>8, <2>9, <2>10, <2>11,
       <2>12 DEF Next, Step
<1> QED
  BY <1>1, <1>2, PTL DEF Spec

-----------------------------------------------------------------------------
(* The inductive invariant.                                                *)

\* The mutex excludes: a call past Lock is the one that holds it.
Exclusion == \A c \in Calls : pc[c] \in Critical => holder = {c}

\* What the call in the critical section knows about the file.
Progress ==
  \A c \in Calls :
    /\ pc[c] = "opened" => file = 0
    /\ pc[c] \in {"read", "opened"} => data[c] # 0
    /\ pc[c] = "read" => data[c] \in {file + 1, 1}
    /\ ~lost /\ pc[c] = "read" => data[c] = file + 1

\* Every number issued is counted by the file or, while the file is
\* truncated, by the number about to be written to it.
Counted ==
  ~lost => \A i \in Issued :
    /\ (\A c \in Calls : pc[c] # "opened") => data[i] <= file
    /\ \A c \in Calls : pc[c] = "opened" => data[i] < data[c]

StoreInv == TypeOK /\ Exclusion /\ Progress /\ Counted /\ UniqueNumbers

LEMMA StoreInvInductive == Spec => []StoreInv
<1>1. Init /\ TypeOK => StoreInv
  BY DEF Init, StoreInv, Exclusion, Critical, InCall, Progress, Counted,
         Issued, UniqueNumbers
<1>2. TypeOK /\ TypeOK' /\ StoreInv /\ [Next]_vars => StoreInv'
  <2> SUFFICES ASSUME TypeOK, TypeOK', StoreInv, [Next]_vars
               PROVE  Exclusion' /\ Progress' /\ Counted' /\ UniqueNumbers'
    BY DEF StoreInv
  <2> USE DEF StoreInv, TypeOK, Stages, Exclusion, Critical, InCall,
              Progress, Counted, Issued, UniqueNumbers
  <2>1. ASSUME NEW c \in Calls, Call(c)
        PROVE  Exclusion' /\ Progress' /\ Counted' /\ UniqueNumbers'
    BY <2>1 DEF Call, Move
  <2>2. ASSUME NEW c \in Calls, Lock(c)
        PROVE  Exclusion' /\ Progress' /\ Counted' /\ UniqueNumbers'
    BY <2>2 DEF Lock, Move
  <2>3. ASSUME NEW c \in Calls, Read(c)
        PROVE  Exclusion' /\ Progress' /\ Counted' /\ UniqueNumbers'
    BY <2>3 DEF Read, Move
  <2>4. ASSUME NEW c \in Calls, ReadFails(c)
        PROVE  Exclusion' /\ Progress' /\ Counted' /\ UniqueNumbers'
    <3>1. ~lost' => ~lost /\ file = 0
      BY <2>4, Zenon DEF ReadFails
    <3> QED
      BY <2>4, <3>1 DEF ReadFails, Move, Fault
  <2>5. ASSUME NEW c \in Calls, Truncate(c)
        PROVE  Exclusion' /\ Progress' /\ Counted' /\ UniqueNumbers'
    BY <2>5 DEF Truncate, Move
  <2>6. ASSUME NEW c \in Calls, OpenFails(c)
        PROVE  Exclusion' /\ Progress' /\ Counted' /\ UniqueNumbers'
    BY <2>6 DEF OpenFails, Move, Fault
  <2>7. ASSUME NEW c \in Calls, WriteBytes(c)
        PROVE  Exclusion' /\ Progress' /\ Counted' /\ UniqueNumbers'
    BY <2>7 DEF WriteBytes, Move
  <2>8. ASSUME NEW c \in Calls, WriteFails(c)
        PROVE  Exclusion' /\ Progress' /\ Counted' /\ UniqueNumbers'
    <3>1. ~lost' => ~lost /\ data[c] = 1
      BY <2>8, Zenon DEF WriteFails
    <3> QED
      BY <2>8, <3>1 DEF WriteFails, Move, Fault
  <2>9. ASSUME NEW c \in Calls, Return(c)
        PROVE  Exclusion' /\ Progress' /\ Counted' /\ UniqueNumbers'
    BY <2>9 DEF Return, Move
  <2>10. ASSUME NEW c \in Calls, ReturnError(c)
         PROVE  Exclusion' /\ Progress' /\ Counted' /\ UniqueNumbers'
    BY <2>10 DEF ReturnError, Move
  <2>11. ASSUME Crash
         PROVE  Exclusion' /\ Progress' /\ Counted' /\ UniqueNumbers'
    <3>1. ~lost' => ~lost /\ \A c \in Calls : pc[c] = "opened" => data[c] = 1
      BY <2>11, Zenon DEF Crash
    <3> QED
      BY <2>11, <3>1 DEF Crash
  <2>12. CASE UNCHANGED vars
    BY <2>12 DEF vars
  <2> QED
    BY <2>1, <2>2, <2>3, <2>4, <2>5, <2>6, <2>7, <2>8, <2>9, <2>10, <2>11,
       <2>12 DEF Next, Step
<1> QED
  BY <1>1, <1>2, StoreTypeCorrect, PTL DEF Spec

\* No two calls of Next ever own the same number, unless the number on disk
\* has been lost (order_number.go:30-49).
THEOREM StoreNumbersUnique == Spec => []UniqueNumbers
<1>1. StoreInv => UniqueNumbers
  BY DEF StoreInv
<1> QED
  BY <1>1, StoreInvInductive, PTL

\* While the file is truncated the store stands at the number below the one
\* about to be written.
LEMMA ValueWhileOpened ==
  ASSUME Exclusion, NEW c \in Calls, pc[c] = "opened"
  PROVE  Value = data[c] - 1
<1>1. ASSUME NEW d \in Calls, pc[d] = "opened" PROVE d = c
  BY <1>1 DEF Exclusion, Critical, InCall
<1> QED
  BY <1>1 DEF Value

\* A number is on disk before the caller has it (order_number.go:45-48).
THEOREM StorePersistsFirst == Spec => []PersistedBeforeReturn
<1>1. StoreInv => PersistedBeforeReturn
  <2> SUFFICES ASSUME StoreInv, ~lost, NEW i \in Issued
               PROVE  data[i] <= Value
    BY DEF PersistedBeforeReturn
  <2>1. CASE \A c \in Calls : pc[c] # "opened"
    BY <2>1 DEF StoreInv, Counted, Value
  <2>2. ASSUME NEW c \in Calls, pc[c] = "opened" PROVE data[i] <= Value
    BY <2>2, ValueWhileOpened DEF StoreInv, TypeOK, Counted, Issued
  <2> QED
    BY <2>1, <2>2
<1> QED
  BY <1>1, StoreInvInductive, PTL
-----------------------------------------------------------------------------
(* Refinement: each step of Next is a step of the indivisible counter or   *)
(* leaves it alone.                                                        *)

AbsCall == [c \in Calls |-> CallStage(c)]

AbsResult == [c \in Calls |-> IF c \in Issued THEN data[c] ELSE 0]

\* The value, as a fact that does not mention the choice of a call.
ValueIs(v) ==
  /\ \A c \in Calls : pc[c] = "opened" => v = data[c] - 1
  /\ (\A c \in Calls : pc[c] # "opened") => v = file

LEMMA ValueFact == Exclusion => ValueIs(Value)
<1> SUFFICES ASSUME Exclusion PROVE ValueIs(Value)
  OBVIOUS
<1>1. ASSUME NEW c \in Calls, pc[c] = "opened" PROVE Value = data[c] - 1
  BY <1>1, ValueWhileOpened
<1>2. ASSUME \A c \in Calls : pc[c] # "opened" PROVE Value = file
  BY <1>2 DEF Value
<1> QED
  BY <1>1, <1>2 DEF ValueIs

LEMMA InitRefines == Init => Sequence!Init
<1> SUFFICES ASSUME Init PROVE Sequence!Init
  OBVIOUS
<1>1. Value = Legacy
  BY DEF Init, Value
<1>2. AbsCall = [c \in Calls |-> "new"]
  BY DEF Init, AbsCall, CallStage, Issued, InCall
<1>3. AbsResult = [c \in Calls |-> 0]
  BY DEF Init, AbsResult, Issued
<1> QED
  BY <1>1, <1>2, <1>3 DEF Sequence!Init, AbsCall, AbsResult

LEMMA StepRefines ==
  StoreInv /\ StoreInv' /\ [Next]_vars => [Sequence!Next]_(Sequence!vars)
<1> SUFFICES ASSUME StoreInv, StoreInv', [Next]_vars
             PROVE  [Sequence!Next]_(Sequence!vars)
  OBVIOUS
<1>v. ValueIs(Value)
  BY ValueFact DEF StoreInv
<1>w. ValueIs(Value)'
  BY ValueFact, PTL DEF StoreInv
<1>q. Value \in Nat /\ Value' \in Nat
  BY <1>v, <1>w DEF ValueIs, StoreInv, TypeOK, Progress
<1> DEFINE Stutters == UNCHANGED <<Value, AbsCall, AbsResult>>
           Busy == \E c \in Calls : AbsCall[c] = "busy"
<1>s. Stutters => [Sequence!Next]_(Sequence!vars)
  BY DEF Sequence!vars, AbsCall, AbsResult
<1>l. Busy /\ Value' = 0 /\ UNCHANGED <<AbsCall, AbsResult>> => Sequence!Next
  BY DEF Sequence!Next, Sequence!Lose, AbsCall, AbsResult
<1> USE DEF StoreInv, TypeOK, Exclusion, Critical, InCall, Progress, ValueIs
<1> HIDE DEF Stutters, Busy
<1>1. ASSUME NEW c \in Calls, Call(c) PROVE Sequence!Begin(c)
  <2>1. UNCHANGED <<Value, AbsResult>>
    BY <1>1, <1>v, <1>w DEF Call, Move, AbsResult, Issued, Stages
  <2>2. AbsCall[c] = "new" /\ AbsCall' = [AbsCall EXCEPT ![c] = "busy"]
    BY <1>1 DEF Call, Move, AbsCall, CallStage, Issued, Stages
  <2> QED
    BY <2>1, <2>2 DEF Sequence!Begin, Sequence!Move, AbsCall, AbsResult
<1>2. ASSUME NEW c \in Calls, Lock(c) PROVE Stutters
  BY <1>2, <1>v, <1>w DEF Lock, Move, AbsCall, AbsResult, CallStage,
     Issued, Stages, Stutters
<1>3. ASSUME NEW c \in Calls, Read(c) PROVE Stutters
  BY <1>3, <1>v, <1>w DEF Read, Move, AbsCall, AbsResult, CallStage,
     Issued, Stages, Stutters
<1>4. ASSUME NEW c \in Calls, ReadFails(c) PROVE Stutters
  BY <1>4, <1>v, <1>w DEF ReadFails, Move, Fault, AbsCall, AbsResult, CallStage,
     Issued, Stages, Stutters
<1>5. ASSUME NEW c \in Calls, Truncate(c)
      PROVE  Stutters \/ (Busy /\ Value' = 0 /\ UNCHANGED <<AbsCall, AbsResult>>)
  <2>1. Value = file
    BY <1>5, <1>v DEF Truncate, Move
  <2>2. Value' = data[c] - 1
    BY <1>5, <1>w DEF Truncate, Move, Stages
  <2>3. Value' \in {Value, 0}
    BY <1>5, <2>1, <2>2 DEF Truncate, Move
  <2>4. UNCHANGED <<AbsCall, AbsResult>>
    BY <1>5 DEF Truncate, Move, AbsCall, AbsResult, CallStage, Issued, Stages
  <2>5. Busy
    BY <1>5 DEF Truncate, Move, AbsCall, CallStage, Issued, Busy
  <2> QED
    BY <2>3, <2>4, <2>5 DEF Stutters
<1>6. ASSUME NEW c \in Calls, OpenFails(c) PROVE Stutters
  BY <1>6, <1>v, <1>w DEF OpenFails, Move, Fault, AbsCall, AbsResult, CallStage,
     Issued, Stages, Stutters
<1>7. ASSUME NEW c \in Calls, WriteBytes(c) PROVE Sequence!Issue(c)
  <2>1. Value = data[c] - 1
    BY <1>7, <1>v DEF WriteBytes, Move
  <2>2. Value' = data[c]
    BY <1>7, <1>w DEF WriteBytes, Move, Stages
  <2>3. Value' = Value + 1
    BY <1>7, <2>1, <2>2 DEF WriteBytes, Move
  <2>a. CallStage(c) = "busy"
    <3>1. pc[c] = "opened"
      BY <1>7 DEF WriteBytes, Move
    <3> QED
      BY <3>1 DEF CallStage, Issued
  <2>4. AbsCall[c] = "busy" /\ AbsCall' = [AbsCall EXCEPT ![c] = "issued"]
    BY <1>7, <2>a, ZenonT(60) DEF WriteBytes, Move, AbsCall, CallStage, Issued, Stages
  <2>5. AbsResult' = [AbsResult EXCEPT ![c] = data[c]]
    BY <1>7 DEF WriteBytes, Move, AbsResult, Issued, Stages
  <2> QED
    BY <2>2, <2>3, <2>4, <2>5 DEF Sequence!Issue, Sequence!Move, AbsCall, AbsResult
<1>8. ASSUME NEW c \in Calls, WriteFails(c)
      PROVE  Busy /\ Value' = 0 /\ UNCHANGED <<AbsCall, AbsResult>>
  <2>1. Value' = 0
    BY <1>8, <1>w DEF WriteFails, Move, Stages
  <2>2. UNCHANGED <<AbsCall, AbsResult>>
    BY <1>8 DEF WriteFails, Move, AbsCall, AbsResult, CallStage, Issued, Stages
  <2>3. Busy
    BY <1>8 DEF WriteFails, Move, AbsCall, CallStage, Issued, Busy
  <2> QED
    BY <2>1, <2>2, <2>3
<1>9. ASSUME NEW c \in Calls, Return(c) PROVE Stutters
  BY <1>9, <1>v, <1>w DEF Return, Move, AbsCall, AbsResult, CallStage,
     Issued, Stages, Stutters
<1>10. ASSUME NEW c \in Calls, ReturnError(c) PROVE Sequence!Refuse(c)
  <2>1. UNCHANGED <<Value, AbsResult>>
    BY <1>10, <1>v, <1>w DEF ReturnError, Move, AbsResult, Issued, Stages
  <2>2. AbsCall[c] = "busy" /\ AbsCall' = [AbsCall EXCEPT ![c] = "refused"]
    BY <1>10, ZenonT(60) DEF ReturnError, Move, AbsCall, CallStage, Issued, Stages
  <2> QED
    BY <2>1, <2>2 DEF Sequence!Refuse, Sequence!Move, AbsCall, AbsResult
<1>11. ASSUME Crash PROVE Sequence!Crash
  <2>1. Value' = file
    BY <1>11, <1>w DEF Crash, Stages
  <2>2. Value' = Value \/ (Busy /\ Value' = 0)
    <3>1. ASSUME NEW c \in Calls, pc[c] = "opened" PROVE Busy /\ Value' = 0
      BY <3>1, <2>1 DEF AbsCall, CallStage, Issued, Busy
    <3>2. ASSUME \A c \in Calls : pc[c] # "opened" PROVE Value' = Value
      BY <3>2, <2>1, <1>v
    <3> QED
      BY <3>1, <3>2
  <2>3. ASSUME NEW c \in Calls
        PROVE  CallStage(c)' = IF CallStage(c) = "busy" THEN "dead" ELSE CallStage(c)
    BY <1>11 DEF Crash, CallStage, Issued, Stages
  <2>4. AbsCall' = [c \in Calls |-> IF AbsCall[c] = "busy" THEN "dead" ELSE AbsCall[c]]
    BY <2>3 DEF AbsCall
  <2>5. UNCHANGED AbsResult
    BY <1>11 DEF Crash, AbsResult, Issued, Stages
  <2>6. Value' \in {Value} \cup (IF Busy THEN {0} ELSE {})
    BY <2>2
  <2> QED
    BY <2>4, <2>5, <2>6 DEF Sequence!Crash, AbsCall, AbsResult, Busy
<1>12. ASSUME UNCHANGED vars PROVE Stutters
  BY <1>12, <1>v, <1>w DEF vars, AbsCall, AbsResult, CallStage, Issued, Stutters
<1> QED
  BY <1>s, <1>l, <1>1, <1>2, <1>3, <1>4, <1>5, <1>6, <1>7, <1>8, <1>9, <1>10,
     <1>11, <1>12 DEF Next, Step, Sequence!Next

\* The store is the indivisible counter its callers take it for: whatever
\* happens between its system calls, each step of Next is seen as one step of
\* NumberSequence or as none (order_number.go:27-29).
THEOREM StoreImplementsSequence == Spec => ImplementsSequence
<1> QED
  BY InitRefines, StepRefines, StoreInvInductive, PTL
     DEF Spec, ImplementsSequence, Sequence!Spec
=============================================================================
