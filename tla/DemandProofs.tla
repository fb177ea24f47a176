---------------------------- MODULE DemandProofs ----------------------------
(***************************************************************************)
(* Proofs about DemandGenerator: whatever the scenario, its series and the *)
(* length of the game, the loops of extendDemand and of                    *)
(* generateRandomBlockDemand build what the closed forms of Scenario say.  *)
(***************************************************************************)
EXTENDS DemandGenerator, TLAPS

(* The scenario the call goes on with when Validate found no error. *)
Fixed == normalizedDemandMode(s) = "fixed"
Blocks == normalizedDemandMode(s) = "random_blocks"
Accepted ==
  /\ maxWeeks \in Nat \ {0}
  /\ Fixed \/ Blocks
  /\ Fixed => s.ConsumerDemand # <<>>
  /\ Blocks => /\ s.DemandMin \in Nat /\ s.DemandMax \in Nat
               /\ s.DemandMin <= s.DemandMax
               /\ s.DemandChangePeriod \in Nat \ {0}

(* extendDemand: the weeks written so far, of which none is missing from   *)
(* the series.                                                             *)
Extending ==
  /\ demand \in Seq(Int) /\ Len(demand) <= maxWeeks
  /\ \A i \in 1..Len(demand) : demand[i] = extendDemand(s.ConsumerDemand, maxWeeks)[i]
  /\ Len(demand) < maxWeeks => Len(s.ConsumerDemand) <= Len(demand)

(* generateRandomBlockDemand: the blocks below start are filled, each with *)
(* one value.                                                              *)
BlockOf(i) == (i - 1) \div s.DemandChangePeriod
Draws == [0..BlockOf(maxWeeks) -> s.DemandMin..s.DemandMax]
Filling ==
  /\ demand \in [1..maxWeeks -> Int]
  /\ \E k \in Nat : start = s.DemandChangePeriod * k
  /\ \E value \in Draws : \A i \in 1..maxWeeks : i - 1 < start => demand[i] = value[BlockOf(i)]

(* The invariant of the loops. *)
DemandInv ==
  /\ s \in ScenarioRecord /\ maxWeeks \in Int
  /\ pc \in {"validate", "extend", "blocks", "done", "refused"}
  /\ pc \in {"extend", "blocks", "done"} => Accepted
  /\ pc = "extend" => Fixed /\ Extending
  /\ pc = "blocks" => Blocks /\ ~Fixed /\ Filling
  /\ pc = "done" => /\ demand \in MaterializeDemand(s, maxWeeks)
                    /\ Len(demand) = maxWeeks

-----------------------------------------------------------------------------
(* What the division of weeks into blocks of d weeks is: week n, counted   *)
(* from 0, lies in block q exactly when q*d <= n < q*d + d.                *)
LEMMA BlockUnique ==
  ASSUME NEW d \in Nat \ {0}, NEW q \in Nat, NEW n \in Int, d*q <= n, n < d*q + d
  PROVE  n \div d = q
<1>1. d*q \in Nat /\ n \in Nat
  BY SMT
<1>2. PICK p : p = n \div d
  OBVIOUS
<1>3. p \in Nat /\ d*p <= n /\ n < d*p + d
  BY <1>1, <1>2, SMT
<1>4. p = q
  BY <1>1, <1>3, SMT
<1> QED  BY <1>2, <1>4

(* An earlier week lies in no later block. *)
LEMMA BlockMonotone ==
  ASSUME NEW d \in Nat \ {0}, NEW m \in Nat, NEW n \in Nat, m <= n
  PROVE  m \div d \in 0..(n \div d)
<1>1. PICK p, q : p = m \div d /\ q = n \div d
  OBVIOUS
<1>2. p \in Nat /\ q \in Nat /\ d*p <= m /\ n < d*q + d
  BY <1>1, SMT
<1>3. p <= q
  BY <1>2, SMT
<1> QED  BY <1>1, <1>2, <1>3

(* A scenario Validate has no error for can be materialized. *)
LEMMA ValidAccepted ==
  ASSUME s \in ScenarioRecord, maxWeeks \in Int, Validate(s) = "nil", ~(maxWeeks <= 0)
  PROVE  Accepted
<1>1. ValidateDemand(s) = "nil"
  BY DEF Validate
<1>2. normalizedDemandMode(s) \in {"fixed", "random_blocks"}
  BY <1>1 DEF ValidateDemand
<1>3. Fixed => s.ConsumerDemand # <<>>
  BY <1>1 DEF ValidateDemand, Fixed, ScenarioRecord
<1>4. Blocks => /\ ~(s.DemandMin < 0) /\ ~(s.DemandMax < 0)
                /\ ~(s.DemandMax < s.DemandMin) /\ ~(s.DemandChangePeriod <= 0)
  BY <1>1 DEF ValidateDemand, Blocks
<1>5. s.DemandMin \in Int /\ s.DemandMax \in Int /\ s.DemandChangePeriod \in Int
  BY DEF ScenarioRecord
<1> QED  BY <1>2, <1>3, <1>4, <1>5 DEF Accepted, Fixed, Blocks

-----------------------------------------------------------------------------
(* The invariant holds when the call is made. *)
LEMMA DemandStarts == Init => DemandInv
BY InputAssumption DEF Init, DemandInv

(* The cut series is the beginning of the extended one. *)
LEMMA EnterExtendInv == ASSUME DemandInv, EnterExtend  PROVE DemandInv'
<1>1. PICK c : c = s.ConsumerDemand
  OBVIOUS
<1>2. /\ Accepted /\ Fixed /\ s' = s /\ maxWeeks' = maxWeeks /\ pc' = "extend"
      /\ demand' = IF Len(c) >= maxWeeks THEN SubSeq(c, 1, maxWeeks) ELSE c
  BY <1>1, ValidAccepted DEF DemandInv, EnterExtend, Fixed
<1>3. c \in Seq(Int) /\ maxWeeks \in Nat
  BY <1>1, <1>2 DEF DemandInv, ScenarioRecord, Accepted
<1>4. /\ demand' \in Seq(Int) /\ Len(demand') <= maxWeeks
      /\ \A i \in 1..Len(demand') : i <= Len(c) /\ demand'[i] = c[i]
      /\ Len(demand') < maxWeeks => Len(c) <= Len(demand')
  BY <1>2, <1>3
<1>5. \A i \in 1..Len(demand') : demand'[i] = extendDemand(c, maxWeeks)[i]
  BY <1>3, <1>4 DEF extendDemand
<1>6. Extending'
  BY <1>1, <1>2, <1>4, <1>5 DEF Extending
<1>7. Accepted' /\ Fixed'
  BY <1>2 DEF Accepted, Fixed, Blocks
<1> QED  BY <1>2, <1>6, <1>7 DEF DemandInv

(* Appending the last entry is right past the end of the series. *)
LEMMA ExtendByLastInv == ASSUME DemandInv, ExtendByLast  PROVE DemandInv'
<1>1. PICK c : c = s.ConsumerDemand
  OBVIOUS
<1>2. Accepted /\ Fixed /\ Extending /\ s' = s /\ maxWeeks' = maxWeeks
  BY DEF DemandInv, ExtendByLast
<1>3. /\ c \in Seq(Int) /\ c # <<>> /\ Len(c) \in Nat \ {0}
      /\ maxWeeks \in Nat /\ lastOf(c) = c[Len(c)] /\ lastOf(c) \in Int
  BY <1>1, <1>2 DEF DemandInv, ScenarioRecord, Accepted, lastOf
<1>4. Accepted' /\ Fixed'
  BY <1>2 DEF Accepted, Fixed, Blocks
<1>5. CASE Len(demand) < maxWeeks
  <2>1. demand' = Append(demand, lastOf(c)) /\ pc' = "extend"
    BY <1>1, <1>5 DEF ExtendByLast
  <2>2. /\ demand' \in Seq(Int) /\ Len(demand') = Len(demand) + 1
        /\ \A i \in 1..Len(demand) : demand'[i] = demand[i]
        /\ demand'[Len(demand) + 1] = c[Len(c)]
    BY <1>2, <1>3, <2>1 DEF Extending
  <2>3. Len(demand) \in Nat /\ Len(c) <= Len(demand)
    BY <1>1, <1>2, <1>5 DEF Extending
  <2>4. extendDemand(c, maxWeeks)[Len(demand) + 1] = c[Len(c)]
    BY <1>3, <1>5, <2>3 DEF extendDemand
  <2>5. ASSUME NEW i \in 1..Len(demand')
        PROVE  demand'[i] = extendDemand(c, maxWeeks)[i]
    <3>1. CASE i \in 1..Len(demand)
      BY <1>1, <1>2, <2>2, <3>1 DEF Extending
    <3>2. CASE i = Len(demand) + 1
      BY <2>2, <2>4, <3>2
    <3> QED  BY <2>2, <2>3, <3>1, <3>2
  <2>6. Extending'
    BY <1>1, <1>2, <1>3, <1>5, <2>2, <2>3, <2>5 DEF Extending
  <2> QED  BY <1>2, <1>4, <2>1, <2>6 DEF DemandInv
<1>6. CASE ~(Len(demand) < maxWeeks)
  <2>1. demand' = demand /\ pc' = "done"
    BY <1>6 DEF ExtendByLast
  <2>2. Len(demand) = maxWeeks /\ demand \in [1..maxWeeks -> Int]
    BY <1>2, <1>3, <1>6 DEF Extending
  <2>3. demand = extendDemand(c, maxWeeks)
    BY <1>1, <1>2, <1>3, <2>2 DEF Extending, extendDemand
  <2>4. demand' \in MaterializeDemand(s', maxWeeks') /\ Len(demand') = maxWeeks'
    BY <1>1, <1>2, <2>1, <2>2, <2>3 DEF MaterializeDemand, Fixed
  <2> QED  BY <1>2, <1>4, <2>1, <2>4 DEF DemandInv
<1> QED  BY <1>5, <1>6

(* Before the first block no week is filled. *)
LEMMA EnterBlocksInv == ASSUME DemandInv, EnterBlocks  PROVE DemandInv'
<1>1. /\ Accepted /\ Blocks /\ ~Fixed /\ s' = s /\ maxWeeks' = maxWeeks /\ pc' = "blocks"
      /\ demand' = [i \in 1..maxWeeks |-> 0] /\ start' = 0
  BY ValidAccepted DEF DemandInv, EnterBlocks, Fixed, Blocks
<1>2. s.DemandMin \in Int /\ s.DemandMax \in Int /\ s.DemandMin <= s.DemandMax
      /\ s.DemandChangePeriod \in Int /\ maxWeeks \in Nat
  BY <1>1 DEF Accepted
<1>3. PICK value : value = [b \in 0..BlockOf(maxWeeks) |-> s.DemandMin]
  OBVIOUS
<1>4. value \in Draws
  BY <1>2, <1>3 DEF Draws
<1>5. demand' \in [1..maxWeeks -> Int] /\ start' = s.DemandChangePeriod * 0
  BY <1>1, <1>2
<1>6. \A i \in 1..maxWeeks : ~(i - 1 < start')
  BY <1>1, <1>2
<1>7. Filling'
  BY <1>1, <1>4, <1>5, <1>6 DEF Filling, Draws, BlockOf
<1>8. Accepted' /\ Blocks' /\ ~Fixed'
  BY <1>1 DEF Accepted, Fixed, Blocks
<1> QED  BY <1>1, <1>7, <1>8 DEF DemandInv

(* One more block is filled with one value, and it is block start \div     *)
(* period: every week before its end lies in it or in an earlier one.      *)
LEMMA FillBlockInv == ASSUME DemandInv, FillBlock  PROVE DemandInv'
<1>1. PICK d : d = s.DemandChangePeriod
  OBVIOUS
<1>2. Accepted /\ Blocks /\ ~Fixed /\ Filling /\ s' = s /\ maxWeeks' = maxWeeks
  BY DEF DemandInv, FillBlock
<1>3. /\ d \in Nat \ {0} /\ maxWeeks \in Nat \ {0} /\ s.DemandMin \in Nat
      /\ s.DemandMax \in Nat /\ s.DemandMin <= s.DemandMax
  BY <1>1, <1>2 DEF Accepted
<1>4. PICK k \in Nat : start = d * k
  BY <1>1, <1>2 DEF Filling
<1>5. PICK value \in Draws :
        \A i \in 1..maxWeeks : i - 1 < start => demand[i] = value[BlockOf(i)]
  BY <1>2 DEF Filling
<1>6. start \in Nat
  BY <1>3, <1>4, SMT
<1>7. Accepted' /\ Blocks' /\ ~Fixed'
  BY <1>2 DEF Accepted, Fixed, Blocks
<1>8. CASE start < maxWeeks
  <2>1. PICK x \in BlockValues :
          demand' = [i \in DOMAIN demand |->
                       IF i - 1 >= start /\ i - 1 < blockEnd THEN x ELSE demand[i]]
    BY <1>8 DEF FillBlock
  <2>2. start' = start + d /\ pc' = "blocks"
    BY <1>1, <1>8 DEF FillBlock
  <2>3. x \in s.DemandMin..s.DemandMax
    BY <1>3 DEF BlockValues
  <2>4. PICK filled : filled = [value EXCEPT ![k] = x]
    OBVIOUS
  <2>5. k \in 0..BlockOf(maxWeeks)
    <3>1. start <= maxWeeks - 1 /\ start < d*k + d
      BY <1>3, <1>4, <1>6, <1>8
    <3>2. start \div d = k
      BY <1>3, <1>4, <1>6, <3>1, BlockUnique
    <3> QED  BY <1>1, <1>3, <1>6, <3>1, <3>2, BlockMonotone DEF BlockOf
  <2>6. filled \in Draws
    BY <2>3, <2>4 DEF Draws
  <2>7. demand' \in [1..maxWeeks -> Int]
    BY <1>2, <1>3, <2>1, <2>3 DEF Filling
  <2>8. \E q \in Nat : start' = d * q
    <3>1. start' = d * (k + 1)
      BY <1>3, <1>4, <2>2, SMT
    <3> QED  BY <3>1
  <2>9. ASSUME NEW i \in 1..maxWeeks, i - 1 < start'  PROVE demand'[i] = filled[BlockOf(i)]
    <3>1. CASE i - 1 < start
      <4>1. demand'[i] = demand[i] /\ demand[i] = value[BlockOf(i)]
        BY <1>2, <1>3, <1>5, <1>6, <2>1, <3>1 DEF Filling
      <4>2. BlockOf(i) # k
        <5>1. PICK p : p = (i - 1) \div d
          OBVIOUS
        <5>2. p \in Nat /\ d*p <= i - 1
          BY <1>3, <5>1, SMT
        <5>3. p # k
          BY <1>3, <1>4, <3>1, <5>2
        <5> QED  BY <1>1, <5>1, <5>3 DEF BlockOf
      <4>3. BlockOf(i) \in 0..BlockOf(maxWeeks)
        BY <1>1, <1>3, BlockMonotone DEF BlockOf
      <4> QED  BY <2>4, <4>1, <4>2, <4>3 DEF Draws
    <3>2. CASE i - 1 >= start
      <4>1. i - 1 < d*k + d /\ d*k <= i - 1
        BY <1>3, <1>4, <1>6, <2>2, <2>9, <3>2
      <4>2. BlockOf(i) = k
        BY <1>1, <1>3, <4>1, BlockUnique DEF BlockOf
      <4>3. i - 1 < blockEnd
        BY <1>1, <1>3, <1>6, <2>2, <2>9 DEF blockEnd
      <4>4. demand'[i] = x
        BY <1>2, <1>3, <2>1, <3>2, <4>3 DEF Filling
      <4> QED  BY <2>4, <2>5, <4>2, <4>4 DEF Draws
    <3> QED  BY <1>3, <1>6, <3>1, <3>2
  <2>10. Filling'
    BY <1>1, <1>2, <2>6, <2>7, <2>8, <2>9 DEF Filling, Draws, BlockOf
  <2> QED  BY <1>2, <1>7, <2>2, <2>10 DEF DemandInv
<1>9. CASE ~(start < maxWeeks)
  <2>1. demand' = demand /\ pc' = "done"
    BY <1>9 DEF FillBlock
  <2>2. demand \in [1..maxWeeks -> Int]
    BY <1>2 DEF Filling
  <2>3. \A i \in 1..maxWeeks : demand[i] = value[(i - 1) \div d]
    BY <1>1, <1>3, <1>5, <1>6, <1>9 DEF BlockOf
  <2>4. demand = [i \in 1..maxWeeks |-> value[(i - 1) \div d]]
    BY <2>2, <2>3
  <2>5. value \in [0..((maxWeeks - 1) \div d) -> s.DemandMin..s.DemandMax]
    BY <1>1 DEF Draws, BlockOf
  <2>6. demand \in RandomBlockDemands(maxWeeks, s.DemandMin, s.DemandMax, d)
    BY <2>4, <2>5 DEF RandomBlockDemands
  <2>7. demand \in MaterializeDemand(s, maxWeeks)
    BY <1>1, <1>2, <2>6 DEF MaterializeDemand, Fixed
  <2>8. Len(demand) = maxWeeks
    BY <1>3, <2>2
  <2> QED  BY <1>2, <1>7, <2>1, <2>7, <2>8 DEF DemandInv
<1> QED  BY <1>8, <1>9

(* The invariant of the loops holds throughout the call. *)
THEOREM DemandInvariant == Spec => []DemandInv
<1>1. DemandInv /\ [Next]_vars => DemandInv'
  <2> SUFFICES ASSUME DemandInv, [Next]_vars  PROVE DemandInv'
    OBVIOUS
  <2>1. CASE Refuse
    BY <2>1 DEF Refuse, DemandInv
  <2>2. CASE EnterExtend
    BY <2>2, EnterExtendInv
  <2>3. CASE ExtendByLast
    BY <2>3, ExtendByLastInv
  <2>4. CASE EnterBlocks
    BY <2>4, EnterBlocksInv
  <2>5. CASE FillBlock
    BY <2>5, FillBlockInv
  <2>6. CASE UNCHANGED vars
    BY <2>6 DEF vars, DemandInv, Accepted, Extending, Filling, Draws, BlockOf, Fixed, Blocks
  <2> QED  BY <2>1, <2>2, <2>3, <2>4, <2>5, <2>6 DEF Next
<1> QED  BY <1>1, DemandStarts, PTL DEF Spec

-----------------------------------------------------------------------------
(* A finished call returns a series MaterializeDemand allows, one number   *)
(* per week: generateRandomBlockDemand leaves no week unfilled and draws   *)
(* one value per block, for every range, period and number of weeks.       *)
THEOREM LoopsBuildTheSeries == Spec => []ResultCorrect
<1>1. DemandInv => ResultCorrect
  BY DEF DemandInv, ResultCorrect
<1> QED  BY <1>1, DemandInvariant, PTL

(* Writing a fixed series out to maxWeeks changes the demand of no week    *)
(* that is played.                                                         *)
THEOREM SeriesKept == Spec => []DemandKept
<1>1. DemandInv => DemandKept
  <2> SUFFICES ASSUME DemandInv, pc = "done", Fixed, NEW week \in 0..maxWeeks
               PROVE  DemandForWeek(demand, week) = DemandForWeek(s.ConsumerDemand, week)
    BY DEF DemandKept, Fixed
  <2>1. PICK c : c = s.ConsumerDemand
    OBVIOUS
  <2>2. c \in Seq(Int) /\ Len(c) \in Nat \ {0} /\ maxWeeks \in Nat \ {0}
    BY <2>1 DEF DemandInv, Accepted, ScenarioRecord
  <2>3. demand = extendDemand(c, maxWeeks) /\ Len(demand) = maxWeeks
    BY <2>1 DEF DemandInv, MaterializeDemand, Fixed
  <2> QED  BY <2>1, <2>2, <2>3 DEF extendDemand, DemandForWeek
<1> QED  BY <1>1, DemandInvariant, PTL

-----------------------------------------------------------------------------
(* How many steps are left at most.  A round of the loop over blocks gets  *)
(* nearer to the end only because Validate refuses a change period that is *)
(* not positive.                                                           *)
StepsLeft ==
  CASE pc = "validate" -> IF maxWeeks > 0 THEN maxWeeks + 2 ELSE 1
    [] pc = "extend"   -> maxWeeks - Len(demand) + 1
    [] pc = "blocks"   -> IF start < maxWeeks THEN maxWeeks - start + 1 ELSE 1
    [] OTHER           -> 0
Counted == StepsLeft \in Nat
GetsNearer == Counted /\ Counted' /\ StepsLeft' < StepsLeft

(* The steps left are a number while the invariant holds. *)
LEMMA StepsAreCounted == DemandInv => Counted
<1> SUFFICES ASSUME DemandInv  PROVE StepsLeft \in Nat
  BY DEF Counted
<1>1. maxWeeks \in Int
  BY DEF DemandInv
<1>2. CASE pc = "extend"
  BY <1>2 DEF DemandInv, Accepted, Extending, StepsLeft
<1>3. CASE pc = "blocks"
  <2>1. PICK d \in Nat, k \in Nat : start = d * k
    BY <1>3 DEF DemandInv, Accepted, Filling
  <2>2. start \in Int
    BY <2>1
  <2> QED  BY <1>1, <1>3, <2>2 DEF StepsLeft
<1> QED  BY <1>1, <1>2, <1>3 DEF StepsLeft, DemandInv

(* Every step of a call brings its end nearer: it takes at most two steps  *)
(* more than there are weeks.                                              *)
THEOREM LoopsAdvance == Spec => [][GetsNearer]_vars
<1>1. DemandInv /\ DemandInv' /\ Counted /\ Counted' /\ [Next]_vars => [GetsNearer]_vars
  <2> SUFFICES ASSUME DemandInv, DemandInv', Next  PROVE StepsLeft' < StepsLeft
    BY DEF GetsNearer
  <2>1. CASE Refuse
    BY <2>1 DEF Refuse, StepsLeft, DemandInv
  <2>2. CASE EnterExtend
    <3>1. maxWeeks \in Nat /\ Len(demand') \in Nat
      BY <2>2 DEF EnterExtend, DemandInv, Extending
    <3> QED  BY <2>2, <3>1 DEF EnterExtend, StepsLeft
  <2>3. CASE ExtendByLast
    <3>1. pc = "extend" /\ maxWeeks \in Nat /\ demand \in Seq(Int)
      BY <2>3 DEF ExtendByLast, DemandInv, Extending, Accepted
    <3> QED  BY <2>3, <3>1 DEF ExtendByLast, StepsLeft, DemandInv, Extending
  <2>4. CASE EnterBlocks
    BY <2>4 DEF EnterBlocks, StepsLeft, DemandInv
  <2>5. CASE FillBlock
    <3>1. PICK d \in Nat \ {0}, k \in Nat : start = d * k /\ d = s.DemandChangePeriod
      BY <2>5 DEF FillBlock, DemandInv, Accepted, Filling
    <3>2. start \in Int /\ maxWeeks \in Int
      BY <3>1 DEF DemandInv
    <3> QED  BY <2>5, <3>1, <3>2 DEF FillBlock, StepsLeft
  <2> QED  BY <2>1, <2>2, <2>3, <2>4, <2>5 DEF Next
<1> QED  BY <1>1, DemandInvariant, StepsAreCounted, PTL DEF Spec
=============================================================================
