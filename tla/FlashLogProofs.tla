---------------------------- MODULE FlashLogProofs ----------------------------
(***************************************************************************)
(* Proofs about FlashLog for a sector of any size, any number of faults    *)
(* and anything a cut-short erase may leave behind.                        *)
(***************************************************************************)
EXTENDS FlashLog, WellFoundedInduction, TLAPS

-----------------------------------------------------------------------------
(***************************************************************************)
(* The search for the first erased word                                    *)
(***************************************************************************)
\* A non-empty set of naturals has a least element.
LEMMA LeastElement ==
    ASSUME NEW T \in SUBSET Nat, T # {}
    PROVE  \E x \in T : \A y \in T : x <= y
<1> DEFINE Less == {ss \in Nat \X Nat : ss[1] < ss[2]}
<1>1. IsWellFoundedOn(Less, Nat)
  BY NatLessThanWellFounded DEF OpToRel
<1> HIDE DEF Less
<1>2. PICK x \in T : \A y \in T : <<y, x>> \notin Less
  BY <1>1, WFMin
<1>3. ASSUME NEW y \in T PROVE x <= y
  <2>1. y \in Nat /\ x \in Nat
    OBVIOUS
  <2>2. <<y, x>> \in Less <=> y < x
    BY <2>1 DEF Less
  <2> QED
    BY <1>2, <2>1, <2>2
<1> QED
  BY <1>3

\* The search of Flash_Write and Flash_Read always has a result.
LEMMA FirstErasedIs ==
    ASSUME NEW s
    PROVE  FirstErased(s) \in 0 .. SectorWords /\ IsFirstErased(s, FirstErased(s))
<1> DEFINE T == {i \in 0 .. SectorWords : i # SectorWords => s[i] = Erased}
<1>1. T \in SUBSET Nat /\ SectorWords \in T
  BY SectorAssumption
<1>2. PICK x \in T : \A y \in T : x <= y
  BY <1>1, LeastElement
<1>3. \A w \in 0 .. x - 1 : s[w] # Erased
  <2>1. SUFFICES ASSUME NEW w \in 0 .. x - 1, s[w] = Erased PROVE FALSE
    OBVIOUS
  <2>2. w \in T
    BY <1>1, <2>1, SectorAssumption
  <2> QED
    BY <1>2, <2>2, SectorAssumption
<1>4. x \in 0 .. SectorWords /\ IsFirstErased(s, x)
  BY <1>3 DEF IsFirstErased
<1> QED
  BY <1>4 DEF FirstErased

\* ... and only one.
LEMMA FirstErasedUnique ==
    ASSUME NEW s, NEW i \in 0 .. SectorWords, IsFirstErased(s, i)
    PROVE  FirstErased(s) = i
<1>1. FirstErased(s) \in 0 .. SectorWords /\ IsFirstErased(s, FirstErased(s))
  BY FirstErasedIs
<1> QED
  BY <1>1, SectorAssumption DEF IsFirstErased

-----------------------------------------------------------------------------
(***************************************************************************)
(* Type correctness                                                        *)
(***************************************************************************)
\* What Flash_Read returns was programmed, wholly or not, or is uninitialised.
LEMMA FlashReadType ==
    ASSUME sector \in [Words -> Datum \cup {Erased, Torn}]
    PROVE  Flash_Read(sector) \in [Fields -> Datum \cup {Torn, Uninit}]
<1> DEFINE i == FirstErased(sector)
           e == IF IsFull(sector) THEN SectorWords - 1 ELSE i
<1>1. i \in 0 .. SectorWords /\ IsFirstErased(sector, i)
  BY FirstErasedIs
<1>2. CASE i < 7
  BY <1>2 DEF Flash_Read, Unread
<1>3. CASE ~(i < 7)
  <2>1. e \in Int /\ e >= 7 /\ e <= i
    BY <1>1, <1>3, SectorAssumption DEF IsFull
  <2>2. ASSUME NEW k \in Fields
        PROVE  sector[e - 7 + k] \in Datum \cup {Torn}
    <3>1. e - 7 + k \in 0 .. i - 1 /\ e - 7 + k \in Words
      BY <1>1, <2>1, SectorAssumption DEF Fields, Words
    <3>2. sector[e - 7 + k] # Erased
      BY <1>1, <3>1 DEF IsFirstErased
    <3> QED
      BY <3>1, <3>2
  <2>3. Flash_Read(sector) = [k \in Fields |-> sector[e - 7 + k]]
    BY <1>3 DEF Flash_Read, Window
  <2> QED
    BY <2>2, <2>3
<1> QED
  BY <1>2, <1>3

\* Every register is given one element of the array.
LEMMA RegistersType ==
    ASSUME NEW S, NEW a \in [Fields -> S]
    PROVE  set_rtc_manual(a) \in [Registers -> S]
<1>1. \A k \in Fields : a[k] \in S
  OBVIOUS
<1>2. 1 \in Fields /\ 2 \in Fields /\ 3 \in Fields /\ 4 \in Fields
      /\ 5 \in Fields /\ 6 \in Fields
  BY DEF Fields
<1> QED
  BY <1>1, <1>2 DEF set_rtc_manual, Registers

LEMMA TypeInit == Init => TypeOK
<1> SUFFICES ASSUME Init PROVE TypeOK
  OBVIOUS
<1>1. sector \in [Words -> Datum \cup {Erased, Torn}]
  BY DEF Init, BlankSector
<1>2. rtc \in [Registers -> Datum \cup {Torn, Uninit, Midnight}]
  BY DEF Init, AtMidnight
<1>3. field \in Fields /\ faults \in 0 .. MaxFaults
  BY FaultsAssumption DEF Init, Fields
<1> QED
  BY <1>1, <1>2, <1>3 DEF Init, TypeOK

\* The next field is a field, or the save ends.
LEMMA NextFieldType ==
    ASSUME TypeOK, NextField, pc = "saving"
    PROVE  pc' \in {"ready", "saving"} /\ field' \in Fields
BY DEF TypeOK, NextField, Fields

LEMMA FaultType ==
    ASSUME TypeOK, Fault
    PROVE  faults' \in 0 .. MaxFaults /\ course' = "faulty"
BY FaultsAssumption DEF TypeOK, Fault

LEMMA PowerGoesType ==
    ASSUME TypeOK, PowerGoes
    PROVE  /\ pc' = "off" /\ field' \in Fields /\ current' \in Saves
           /\ rtc' \in [Registers -> Datum \cup {Torn, Uninit, Midnight}]
BY DEF TypeOK, PowerGoes, Fields, AtMidnight

LEMMA TypeStep == TypeOK /\ [Next]_vars => TypeOK'
<1> SUFFICES ASSUME TypeOK, [Next]_vars PROVE TypeOK'
  OBVIOUS
<1>1. CASE Boot
  <2>1. rtc' \in [Registers -> Datum \cup {Torn, Uninit}]
    BY <1>1, FlashReadType, RegistersType DEF TypeOK, Boot
  <2>2. rtc' \in [Registers -> Datum \cup {Torn, Uninit, Midnight}]
    BY <2>1
  <2> QED
    BY <1>1, <2>2 DEF TypeOK, Boot
<1>2. CASE StartButtonTask
  BY <1>2 DEF TypeOK, StartButtonTask, Fields
<1>3. CASE ProgramWord
  <2>1. [save |-> current, field |-> field] \in Datum
    BY DEF TypeOK, Datum
  <2>2. sector' \in [Words -> Datum \cup {Erased, Torn}]
    BY <1>3, <2>1 DEF TypeOK, ProgramWord
  <2> QED
    BY <1>3, <2>2, NextFieldType DEF TypeOK, ProgramWord
<1>4. CASE EraseSector
  BY <1>4 DEF TypeOK, EraseSector, BlankSector
<1>5. CASE FlashWriteFails
  BY <1>5, NextFieldType, FaultType DEF TypeOK, FlashWriteFails
<1>6. CASE PowerLostIdle
  BY <1>6, PowerGoesType DEF TypeOK, PowerLostIdle
<1>7. CASE PowerLostBetweenWords
  BY <1>7, PowerGoesType, FaultType DEF TypeOK, PowerLostBetweenWords
<1>8. CASE PowerLostProgramming
  BY <1>8, PowerGoesType, FaultType DEF TypeOK, PowerLostProgramming
<1>9. CASE PowerLostErasing
  <2>1. sector' \in [Words -> Datum \cup {Erased, Torn}]
    BY <1>9 DEF PowerLostErasing
  <2> QED
    BY <1>9, <2>1, PowerGoesType, FaultType DEF TypeOK, PowerLostErasing
<1>10. CASE UNCHANGED vars
  BY <1>10 DEF TypeOK, vars
<1> QED
  BY <1>1, <1>2, <1>3, <1>4, <1>5, <1>6, <1>7, <1>8, <1>9, <1>10 DEF Next

\* Every variable keeps its type, in a sector of any size.
THEOREM LogTypeCorrectness == Spec => []TypeOK
BY TypeInit, TypeStep, PTL DEF Spec

-----------------------------------------------------------------------------
(***************************************************************************)
(* What lies beyond the first erased word                                  *)
(***************************************************************************)
\* Programming the first erased word leaves no erased word before it.
LEMMA ProgramExtends ==
    ASSUME TypeOK, NEW i \in Words, IsFirstErased(sector, i),
           NEW d \in Datum \cup {Torn},
           sector' = [sector EXCEPT ![i] = d]
    PROVE  /\ sector'[i] = d
           /\ \A w \in Words : w <= i => sector'[w] # Erased
           /\ \A w \in Words \ {i} : sector'[w] = sector[w]
<1>1. DOMAIN sector = Words
  BY DEF TypeOK
<1>2. d # Erased
  BY WordsAssumption
<1>3. \A w \in Words : w < i => sector[w] # Erased
  BY SectorAssumption DEF IsFirstErased, Words
<1> QED
  BY <1>1, <1>2, <1>3, SectorAssumption DEF Words

\* The first erased word of a sector that is not full is one of its words.
LEMMA RoomLeft ==
    ASSUME NEW s, ~IsFull(s)
    PROVE  FirstErased(s) \in Words /\ IsFirstErased(s, FirstErased(s))
BY FirstErasedIs, SectorAssumption DEF IsFull, Words

LEMMA GapProgram ==
    ASSUME TypeOK, NothingBeyondAGap, ~IsFull(sector),
           NEW d \in Datum \cup {Torn},
           sector' = [sector EXCEPT ![FirstErased(sector)] = d]
    PROVE  NothingBeyondAGap'
<1> DEFINE i == FirstErased(sector)
<1>1. i \in Words /\ IsFirstErased(sector, i)
  BY RoomLeft
<1> HIDE DEF i
<1>2. /\ \A w \in Words : w <= i => sector'[w] # Erased
      /\ \A w \in Words \ {i} : sector'[w] = sector[w]
  BY <1>1, ProgramExtends DEF i
<1>3. ASSUME NEW u \in Words, NEW w \in Words, u < w, sector'[u] = Erased
      PROVE  sector'[w] \in {Erased, Torn}
  <2>1. i < u /\ i < w
    BY <1>1, <1>2, <1>3, SectorAssumption DEF Words
  <2>2. sector[u] = Erased /\ sector'[w] = sector[w]
    BY <1>1, <1>2, <1>3, <2>1, SectorAssumption DEF Words
  <2> QED
    BY <1>3, <2>2 DEF NothingBeyondAGap
<1> QED
  BY <1>3 DEF NothingBeyondAGap

LEMMA GapStep == TypeOK /\ NothingBeyondAGap /\ [Next]_vars => NothingBeyondAGap'
<1> SUFFICES ASSUME TypeOK, NothingBeyondAGap, [Next]_vars PROVE NothingBeyondAGap'
  OBVIOUS
<1>1. CASE UNCHANGED sector
  BY <1>1 DEF NothingBeyondAGap
<1>2. CASE ProgramWord
  <2>1. [save |-> current, field |-> field] \in Datum
    BY DEF TypeOK, Datum
  <2> QED
    BY <1>2, <2>1, GapProgram DEF ProgramWord
<1>3. CASE PowerLostProgramming
  BY <1>3, GapProgram DEF PowerLostProgramming
<1>4. CASE EraseSector
  BY <1>4 DEF EraseSector, BlankSector, NothingBeyondAGap
<1>5. CASE PowerLostErasing
  <2>1. \A w \in Words : sector'[w] \in {Erased, Torn}
    BY <1>5 DEF PowerLostErasing
  <2> QED
    BY <2>1 DEF NothingBeyondAGap
<1> QED
  BY <1>1, <1>2, <1>3, <1>4, <1>5
     DEF Next, vars, Boot, StartButtonTask, FlashWriteFails, PowerLostIdle, PowerLostBetweenWords

\* No saved word is ever hidden behind an erased one.
THEOREM NothingHidden == Spec => []NothingBeyondAGap
<1>1. Init => NothingBeyondAGap
  BY DEF Init, BlankSector, NothingBeyondAGap
<1> QED
  BY <1>1, TypeInit, TypeStep, GapStep, PTL DEF Spec

-----------------------------------------------------------------------------
(***************************************************************************)
(* What the last save has left in the sector.  A save that is going well   *)
(* has its words, in order, right before the first erased word: this is    *)
(* what makes BootRestoresLastSave inductive.                              *)
(***************************************************************************)
Written == IF pc = "saving" THEN field ELSE 7

NoGap == \A u, w \in Words : u < w /\ sector[u] = Erased => sector[w] = Erased

WordsInPlace ==
    /\ FirstErased(sector) >= Written
    /\ \A k \in Fields : k < Written =>
          sector[FirstErased(sector) - Written + k] = [save |-> current, field |-> k]

WholeInv ==
    /\ ~holes => NoGap
    /\ course = "whole" => ~holes /\ WordsInPlace

\* Without gaps, programming the first erased word moves the search by one.
LEMMA ProgramMovesFirst ==
    ASSUME TypeOK, NoGap, ~IsFull(sector), NEW d \in Datum \cup {Torn},
           sector' = [sector EXCEPT ![FirstErased(sector)] = d]
    PROVE  /\ FirstErased(sector)' = FirstErased(sector) + 1
           /\ NoGap'
           /\ FirstErased(sector) \in Words
           /\ sector'[FirstErased(sector)] = d
           /\ \A w \in Words \ {FirstErased(sector)} : sector'[w] = sector[w]
<1> DEFINE i == FirstErased(sector)
<1>1. i \in Words /\ IsFirstErased(sector, i)
  BY RoomLeft
<1> HIDE DEF i
<1>2. /\ sector'[i] = d
      /\ \A w \in Words : w <= i => sector'[w] # Erased
      /\ \A w \in Words \ {i} : sector'[w] = sector[w]
  BY <1>1, ProgramExtends DEF i
<1>3. sector[i] = Erased
  BY <1>1, SectorAssumption DEF IsFirstErased, Words
<1>4. \A w \in Words : w > i => sector[w] = Erased /\ sector'[w] = Erased
  BY <1>1, <1>2, <1>3, SectorAssumption DEF NoGap, Words
<1>5. i + 1 \in 0 .. SectorWords /\ IsFirstErased(sector', i + 1)
  BY <1>1, <1>2, <1>4, SectorAssumption DEF IsFirstErased, Words
<1>6. FirstErased(sector') = i + 1
  BY <1>5, FirstErasedUnique
<1>7. NoGap'
  <2>1. ASSUME NEW u \in Words, NEW w \in Words, u < w, sector'[u] = Erased
        PROVE  sector'[w] = Erased
    BY <1>1, <1>2, <1>4, <2>1, SectorAssumption DEF Words
  <2> QED
    BY <2>1 DEF NoGap
<1> QED
  BY <1>1, <1>2, <1>6, <1>7 DEF i

LEMMA BlankIsClear ==
    ASSUME sector' = BlankSector
    PROVE  NoGap' /\ FirstErased(sector)' = 0
<1>1. 0 \in 0 .. SectorWords /\ IsFirstErased(sector', 0)
  BY SectorAssumption DEF IsFirstErased, BlankSector, Words
<1> QED
  BY <1>1, FirstErasedUnique DEF NoGap, BlankSector

LEMMA WholeProgram == TypeOK /\ WholeInv /\ ProgramWord => WholeInv'
<1> SUFFICES ASSUME TypeOK, WholeInv, ProgramWord PROVE WholeInv'
  OBVIOUS
<1> DEFINE i == FirstErased(sector)
           d == [save |-> current, field |-> field]
<1>1. d \in Datum /\ ~IsFull(sector) /\ sector' = [sector EXCEPT ![i] = d]
  BY DEF TypeOK, Datum, ProgramWord
<1>2. ASSUME ~holes
      PROVE  /\ FirstErased(sector)' = i + 1 /\ NoGap' /\ i \in Words
             /\ sector'[i] = d
             /\ \A w \in Words \ {i} : sector'[w] = sector[w]
  BY <1>1, <1>2, ProgramMovesFirst DEF WholeInv
<1>3. Written = field /\ Written' = field + 1 /\ field \in 0 .. 6
  BY DEF TypeOK, ProgramWord, NextField, Written, Fields
<1>4. ASSUME course = "whole" PROVE WordsInPlace'
  <2>1. ~holes /\ WordsInPlace
    BY <1>4 DEF WholeInv
  <2>2. FirstErased(sector)' >= Written'
    BY <1>2, <1>3, <2>1, SectorAssumption DEF WordsInPlace, Words
  <2>3. ASSUME NEW k \in Fields, k < Written'
        PROVE  sector'[FirstErased(sector)' - Written' + k] = [save |-> current', field |-> k]
    <3>1. FirstErased(sector)' - Written' + k = i - field + k
      BY <1>2, <1>3, <2>1, SectorAssumption DEF Fields, Words
    <3>2. CASE k = field
      <4>1. i - field + k = i
        BY <1>2, <1>3, <2>1, <3>2, SectorAssumption DEF Words
      <4>2. current' = current
        BY DEF ProgramWord
      <4> QED
        BY <1>2, <2>1, <3>1, <3>2, <4>1, <4>2
    <3>3. CASE k # field
      <4>1. k < field /\ i - field + k \in Words \ {i}
        BY <1>2, <1>3, <2>1, <2>3, <3>3, SectorAssumption DEF WordsInPlace, Fields, Words
      <4>2. sector[i - field + k] = [save |-> current, field |-> k]
        BY <1>3, <2>1, <4>1 DEF WordsInPlace
      <4>3. current' = current
        BY DEF ProgramWord
      <4> QED
        BY <1>2, <2>1, <3>1, <4>1, <4>2, <4>3
    <3> QED
      BY <3>2, <3>3
  <2> QED
    BY <2>2, <2>3 DEF WordsInPlace
<1>5. holes' = holes /\ course' = course
  BY DEF ProgramWord
<1> QED
  BY <1>2, <1>4, <1>5 DEF WholeInv

LEMMA WholeStep == TypeOK /\ WholeInv /\ [Next]_vars => WholeInv'
<1> SUFFICES ASSUME TypeOK, WholeInv, [Next]_vars PROVE WholeInv'
  OBVIOUS
<1>1. CASE UNCHANGED sector /\ UNCHANGED <<holes, course, current>> /\ Written' = Written
  BY <1>1 DEF WholeInv, WordsInPlace, NoGap
<1>2. CASE Boot
  BY <1>1, <1>2 DEF Boot, Written
<1>3. CASE StartButtonTask
  <2>1. FirstErased(sector) \in 0 .. SectorWords
    BY FirstErasedIs
  <2>2. Written' = 0
    BY <1>3 DEF StartButtonTask, Written
  <2>3. WordsInPlace'
    BY <1>3, <2>1, <2>2, SectorAssumption DEF StartButtonTask, WordsInPlace, Fields
  <2> QED
    BY <1>3, <2>3 DEF StartButtonTask, WholeInv, NoGap
<1>4. CASE ProgramWord
  BY <1>4, WholeProgram
<1>5. CASE EraseSector
  <2>1. NoGap' /\ FirstErased(sector)' = 0
    BY <1>5, BlankIsClear DEF EraseSector
  <2>2. ~holes' /\ (course' = "whole" => field = 0 \/ course = "faulty")
    BY <1>5 DEF EraseSector
  <2>3. course' = "whole" => Written' = 0
    BY <1>5 DEF EraseSector, Written
  <2>4. course' = "whole" => WordsInPlace'
    BY <2>1, <2>3 DEF WordsInPlace, Fields
  <2> QED
    BY <2>1, <2>2, <2>4 DEF WholeInv
<1>6. CASE FlashWriteFails \/ PowerLostBetweenWords
  BY <1>6 DEF FlashWriteFails, PowerLostBetweenWords, Fault, WholeInv, NoGap
<1>7. CASE PowerLostIdle
  BY <1>1, <1>7 DEF PowerLostIdle, PowerGoes, Written
<1>8. CASE PowerLostProgramming
  <2>1. ~holes => NoGap'
    BY <1>8, ProgramMovesFirst DEF PowerLostProgramming, WholeInv
  <2> QED
    BY <1>8, <2>1 DEF PowerLostProgramming, Fault, WholeInv
<1>9. CASE PowerLostErasing
  BY <1>9 DEF PowerLostErasing, Fault, WholeInv
<1>10. CASE UNCHANGED vars
  BY <1>1, <1>10 DEF vars, Written
<1> QED
  BY <1>2, <1>3, <1>4, <1>5, <1>6, <1>7, <1>8, <1>9, <1>10 DEF Next

LEMMA WholeInit == Init => WholeInv
BY DEF Init, BlankSector, WholeInv, NoGap

\* What Flash_Read finds after a save that went well.
LEMMA ReadsLastSave ==
    ASSUME TypeOK, WholeInv, course = "whole", pc # "saving", ~IsFull(sector)
    PROVE  Flash_Read(sector) = Record(current)
<1> DEFINE i == FirstErased(sector)
<1>1. i \in Words
  BY RoomLeft
<1>2. WordsInPlace /\ Written = 7
  BY DEF WholeInv, Written
<1>3. i >= 7
  BY <1>2 DEF WordsInPlace
<1>4. Flash_Read(sector) = Window(sector, i)
  BY <1>1, <1>3, SectorAssumption DEF Flash_Read, Words
<1>5. \A k \in Fields : sector[i - 7 + k] = [save |-> current, field |-> k]
  BY <1>2 DEF WordsInPlace, Fields
<1> QED
  BY <1>4, <1>5 DEF Window, Record

\* A boot after a whole save sets the RTC from that save.
THEOREM BootSafe == Spec => BootRestoresLastSave
<1>1. TypeOK /\ WholeInv /\ [Next]_vars
      => [Boots /\ course = "whole" /\ ~IsFull(sector)
            => rtc' = set_rtc_manual(Record(current))]_vars
  BY ReadsLastSave DEF Boots, Next, Boot, StartButtonTask, ProgramWord, EraseSector,
     FlashWriteFails, PowerLostIdle, PowerLostBetweenWords, PowerLostProgramming,
     PowerLostErasing, PowerGoes
<1> QED
  BY <1>1, TypeInit, TypeStep, WholeInit, WholeStep, PTL DEF Spec, BootRestoresLastSave

-----------------------------------------------------------------------------
(***************************************************************************)
(* The log implements SaveStore                                            *)
(***************************************************************************)
\* The words before which Flash_Read takes its window.
WindowEnd(s) == IF IsFull(s) THEN SectorWords - 1 ELSE FirstErased(s)

\* A record is found only where seven words precede the end of the search, and
\* the last of them is its last word.
LEMMA RecordEnds ==
    ASSUME NEW s, NEW v \in Saves, Flash_Read(s) = Record(v)
    PROVE  /\ WindowEnd(s) \in 7 .. SectorWords - 1
           /\ Flash_Read(s) = Window(s, WindowEnd(s))
           /\ s[WindowEnd(s) - 1] = [save |-> v, field |-> 6]
<1> DEFINE e == WindowEnd(s)
<1>1. FirstErased(s) \in 0 .. SectorWords
  BY FirstErasedIs
<1>2. Record(v)[6] = [save |-> v, field |-> 6] /\ Record(v)[6] \in Datum
  BY DEF Record, Fields, Datum
<1>3. ~(FirstErased(s) < 7)
  <2>1. SUFFICES ASSUME FirstErased(s) < 7 PROVE FALSE
    OBVIOUS
  <2>2. Flash_Read(s)[6] = Uninit
    BY <2>1 DEF Flash_Read, Unread, Fields
  <2> QED
    BY <1>2, <2>2, WordsAssumption
<1>4. e \in 7 .. SectorWords - 1 /\ Flash_Read(s) = Window(s, e)
  BY <1>1, <1>3, SectorAssumption DEF Flash_Read, WindowEnd, IsFull
<1>5. Window(s, e)[6] = s[e - 1]
  <2>1. e - 7 + 6 = e - 1
    BY <1>4
  <2> QED
    BY <2>1 DEF Window, Fields
<1> QED
  BY <1>2, <1>4, <1>5

LEMMA RecordInjective ==
    ASSUME NEW v \in Saves, NEW w \in Saves, Record(v) = Record(w)
    PROVE  v = w
<1>1. Record(v)[0] = [save |-> v, field |-> 0] /\ Record(w)[0] = [save |-> w, field |-> 0]
  BY DEF Record, Fields
<1> QED
  BY <1>1

\* Programming a word makes a record readable only if it is the record's last.
LEMMA ProgramReveals ==
    ASSUME TypeOK, NothingBeyondAGap, ~IsFull(sector), NEW d \in Datum \cup {Torn},
           sector' = [sector EXCEPT ![FirstErased(sector)] = d],
           NEW v \in Saves, Flash_Read(sector') = Record(v)
    PROVE  Flash_Read(sector) = Record(v) \/ d = [save |-> v, field |-> 6]
<1> DEFINE i == FirstErased(sector)
           j == FirstErased(sector')
           e == WindowEnd(sector')
<1>1. i \in Words /\ IsFirstErased(sector, i)
  BY RoomLeft
<1>2. j \in 0 .. SectorWords /\ IsFirstErased(sector', j)
  BY FirstErasedIs
<1>3. sector' = [sector EXCEPT ![i] = d]
  OBVIOUS
<1>4. /\ e \in 7 .. SectorWords - 1
      /\ Flash_Read(sector') = Window(sector', e)
      /\ sector'[e - 1] = [save |-> v, field |-> 6]
  BY RecordEnds
<1>5. e = IF j = SectorWords THEN SectorWords - 1 ELSE j
  BY DEF WindowEnd, IsFull
<1>6. WindowEnd(sector) = i /\ (i >= 7 => Flash_Read(sector) = Window(sector, i))
  BY <1>1, SectorAssumption DEF WindowEnd, Flash_Read, Words
<1> HIDE DEF i, j, e
<1>7. /\ sector'[i] = d
      /\ \A w \in Words : w <= i => sector'[w] # Erased
      /\ \A w \in Words \ {i} : sector'[w] = sector[w]
  BY <1>1, <1>3, ProgramExtends
<1>8. j > i
  <2>1. SUFFICES ASSUME j <= i PROVE FALSE
    BY <1>1, <1>2, SectorAssumption DEF Words
  <2>2. j \in Words /\ sector'[j] = Erased
    BY <1>1, <1>2, <2>1, SectorAssumption DEF IsFirstErased, Words
  <2> QED
    BY <1>7, <2>1, <2>2
<1>9. e - 1 \in Words
  BY <1>4, SectorAssumption DEF Words
<1>10. CASE e - 1 = i
  BY <1>4, <1>7, <1>10
<1>11. CASE e - 1 > i
  <2>1. sector[i] = Erased
    BY <1>1, SectorAssumption DEF IsFirstErased, Words
  <2>2. sector'[e - 1] \in {Erased, Torn}
    BY <1>1, <1>7, <1>9, <1>11, <2>1, SectorAssumption DEF NothingBeyondAGap, Words
  <2>3. [save |-> v, field |-> 6] \in Datum
    BY DEF Datum, Fields
  <2> QED
    BY <1>4, <2>2, <2>3, WordsAssumption
<1>12. CASE e - 1 < i
  <2>1. i = SectorWords - 1 /\ e = i
    BY <1>1, <1>2, <1>5, <1>8, <1>12, SectorAssumption DEF Words
  <2>2. ASSUME NEW k \in Fields PROVE sector'[i - 7 + k] = sector[i - 7 + k]
    <3>1. i - 7 + k \in Words \ {i}
      BY <1>1, <1>4, <2>1, SectorAssumption DEF Fields, Words
    <3> QED
      BY <1>7, <3>1
  <2>3. Window(sector', i) = Window(sector, i)
    BY <2>2 DEF Window
  <2> QED
    BY <1>4, <1>6, <2>1, <2>3
<1> QED
  BY <1>1, <1>4, <1>10, <1>11, <1>12, SectorAssumption DEF Words

\* Nothing is readable in a sector that holds no word of a save.
LEMMA NothingReadable ==
    ASSUME NEW s, \A w \in Words : s[w] \in {Erased, Torn}
    PROVE  {v \in Saves : Flash_Read(s) = Record(v)} = {}
<1>1. SUFFICES ASSUME NEW v \in Saves, Flash_Read(s) = Record(v) PROVE FALSE
  OBVIOUS
<1>2. WindowEnd(s) - 1 \in Words /\ s[WindowEnd(s) - 1] = [save |-> v, field |-> 6]
  BY <1>1, RecordEnds, SectorAssumption DEF Words
<1>3. [save |-> v, field |-> 6] \in Datum
  BY DEF Datum, Fields
<1> QED
  BY <1>2, <1>3, WordsAssumption

\* One record at most is readable, so programming a word leaves what was
\* readable, hides it, or reveals the save whose last word it is.
LEMMA ProgramReadable ==
    ASSUME TypeOK, NothingBeyondAGap, ~IsFull(sector), NEW d \in Datum \cup {Torn},
           sector' = [sector EXCEPT ![FirstErased(sector)] = d]
    PROVE  \/ ReadableSave' = ReadableSave \/ ReadableSave' = {}
           \/ \E v \in Saves : d = [save |-> v, field |-> 6] /\ ReadableSave' = {v}
<1>1. SUFFICES ASSUME NEW v \in ReadableSave'
               PROVE  \/ ReadableSave' = ReadableSave
                      \/ \E u \in Saves : d = [save |-> u, field |-> 6] /\ ReadableSave' = {u}
  OBVIOUS
<1>2. v \in Saves /\ Flash_Read(sector') = Record(v)
  BY <1>1 DEF ReadableSave
<1>3. ReadableSave' = {v}
  BY <1>2, RecordInjective DEF ReadableSave
<1>4. CASE Flash_Read(sector) = Record(v)
  <2>1. ReadableSave = {v}
    BY <1>2, <1>4, RecordInjective DEF ReadableSave
  <2> QED
    BY <1>3, <2>1
<1>5. CASE d = [save |-> v, field |-> 6]
  BY <1>2, <1>3, <1>5
<1> QED
  BY <1>2, <1>4, <1>5, ProgramReveals

LEMMA StoreStep ==
    ASSUME TypeOK, NothingBeyondAGap, [Next]_vars
    PROVE  [Abstract!Next]_<<ReadableSave, IF pc = "saving" THEN {current} ELSE {}>>
<1> DEFINE writing == IF pc = "saving" THEN {current} ELSE {}
<1>1. CASE UNCHANGED sector /\ (Boot \/ PowerLostIdle \/ UNCHANGED vars)
  BY <1>1 DEF Boot, PowerLostIdle, PowerGoes, ReadableSave, vars
<1>2. CASE StartButtonTask
  <2>1. ReadableSave' = ReadableSave
    BY <1>2 DEF StartButtonTask, ReadableSave
  <2> QED
    BY <1>2, <2>1 DEF StartButtonTask, Abstract!Next, Abstract!Begin
<1>3. CASE ProgramWord
  <2>1. [save |-> current, field |-> field] \in Datum
    BY DEF TypeOK, Datum
  <2>2. \/ ReadableSave' = ReadableSave \/ ReadableSave' = {}
        \/ field = 6 /\ ReadableSave' = {current}
    <3>1. \/ ReadableSave' = ReadableSave \/ ReadableSave' = {}
          \/ \E v \in Saves : /\ [save |-> current, field |-> field] = [save |-> v, field |-> 6]
                              /\ ReadableSave' = {v}
      BY <1>3, <2>1, ProgramReadable DEF ProgramWord
    <3> QED
      BY <3>1
  <2>3. CASE field = 6
    BY <1>3, <2>2, <2>3 DEF ProgramWord, NextField, Abstract!Next, Abstract!End
  <2>4. CASE field # 6
    BY <1>3, <2>2, <2>4 DEF ProgramWord, NextField, Abstract!Next, Abstract!Work
  <2> QED
    BY <2>3, <2>4
<1>4. CASE EraseSector
  <2>1. ReadableSave' = {}
    BY <1>4, NothingReadable DEF EraseSector, BlankSector, ReadableSave
  <2> QED
    BY <1>4, <2>1 DEF EraseSector, Abstract!Next, Abstract!Work
<1>5. CASE FlashWriteFails
  <2>1. ReadableSave' = ReadableSave
    BY <1>5 DEF FlashWriteFails, ReadableSave
  <2>2. CASE field = 6
    BY <1>5, <2>1, <2>2 DEF FlashWriteFails, NextField, Abstract!Next, Abstract!End
  <2>3. CASE field # 6
    BY <1>5, <2>1, <2>3 DEF FlashWriteFails, NextField, Abstract!Next, Abstract!Work
  <2> QED
    BY <2>2, <2>3
<1>6. CASE PowerLostBetweenWords
  BY <1>6 DEF PowerLostBetweenWords, PowerGoes, ReadableSave, Abstract!Next, Abstract!End
<1>7. CASE PowerLostProgramming
  <2>1. ReadableSave' = ReadableSave \/ ReadableSave' = {}
    <3>1. \A v \in Saves : Torn # [save |-> v, field |-> 6]
      BY WordsAssumption DEF Datum, Fields
    <3> QED
      BY <1>7, <3>1, ProgramReadable DEF PowerLostProgramming
  <2> QED
    BY <1>7, <2>1 DEF PowerLostProgramming, PowerGoes, Abstract!Next, Abstract!End
<1>8. CASE PowerLostErasing
  <2>1. ReadableSave' = {}
    BY <1>8, NothingReadable DEF PowerLostErasing, ReadableSave
  <2> QED
    BY <1>8, <2>1 DEF PowerLostErasing, PowerGoes, Abstract!Next, Abstract!End
<1> QED
  BY <1>1, <1>2, <1>3, <1>4, <1>5, <1>6, <1>7, <1>8
     DEF Next, vars, Boot, PowerLostIdle

\* The log keeps the promise of SaveStore.
THEOREM StoreImplemented == Spec => ImplementsSaveStore
<1>1. Init => Abstract!Init
  <2>1. Init => ReadableSave = {}
    BY NothingReadable DEF Init, BlankSector, ReadableSave
  <2> QED
    BY <2>1 DEF Init, Abstract!Init
<1>2. TypeOK /\ NothingBeyondAGap /\ [Next]_vars
      => [Abstract!Next]_<<ReadableSave, IF pc = "saving" THEN {current} ELSE {}>>
  BY StoreStep
<1> QED
  BY <1>1, <1>2, LogTypeCorrectness, NothingHidden, PTL
     DEF Spec, ImplementsSaveStore, Abstract!Spec
=============================================================================
