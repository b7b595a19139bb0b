--------------------------- MODULE PerfRingProofs ---------------------------
(***************************************************************************)
(* The sampler's account of PerfRing, for a ring of any size.              *)
(***************************************************************************)
EXTENDS Protocols, Sequences, TLAPS

Records == [kind : {"sample"}, ip : Addresses \cup {0}] \cup [kind : {"lost"}, count : Nat]

RingTypes == ring \in [0 .. Size - 1 -> Records]

Counters ==
  /\ dataHead \in Nat /\ dataTail \in Nat /\ unsent \in Nat /\ taken \in Nat
  /\ head \in Nat /\ tail \in Nat /\ total \in Nat /\ lost \in Nat

States ==
  /\ enabled \in BOOLEAN
  /\ sampler \in {"polling", "draining", "disabled", "lastDrain", "done", "failed"}

\* The kernel writes into the places given back.
Window == dataTail <= tail /\ tail <= dataHead /\ dataHead - dataTail <= Size

\* The sampler reads what was written when it began, and the last drain,
\* when the event is disabled, all there is.
Drains ==
  /\ Perf!Draining => tail <= head /\ head <= dataHead
  /\ sampler \in {"polling", "disabled", "done"} => tail = dataTail
  /\ sampler \in {"disabled", "lastDrain", "done", "failed"} => ~enabled
  /\ sampler = "lastDrain" => head = dataHead
  /\ sampler = "done" => tail = dataHead

\* The samples a record stands for.
Weight(record) == IF record.kind = "sample" THEN 1 ELSE record.count

\* account[n]: the samples that the records before the nth stand for.
Accounts(account, places, from, to) ==
  \A n \in from .. to - 1 : account[n + 1] = account[n] + Weight(places[Perf!Place(n)])

\* What was read, and with what is still in the ring or unsent, all that
\* was taken.
Accounted ==
  \E account \in [Nat -> Nat] :
    /\ Accounts(account, ring, tail, dataHead)
    /\ account[tail] = total + lost
    /\ account[dataHead] + unsent = taken

PerfInv == RingTypes /\ Counters /\ States /\ Window /\ Drains /\ Accounted

\* Two places of the ring are the same only a whole ring apart.
LEMMA PlacesDiffer ==
  ASSUME NEW m \in Nat, NEW n \in Nat, m < n, n - m < Size
  PROVE  Perf!Place(m) # Perf!Place(n)
<1>1. Size \in Nat /\ Size > 0
  BY RingAssumption
<1>2. ASSUME NEW a \in Nat
      PROVE  a % Size \in Int /\ \E d \in Int : a = d * Size + (a % Size)
  <2>1. a = (a \div Size) * Size + (a % Size) /\ a \div Size \in Int /\ a % Size \in Int
    BY <1>1
  <2> QED
    BY <2>1
<1>3. PICK p \in Int, q \in Int : m = p * Size + (m % Size) /\ n = q * Size + (n % Size)
  BY <1>2
<1>4. SUFFICES ASSUME m % Size = n % Size PROVE FALSE
  BY DEF Perf!Place
<1>5. q * Size - p * Size = n - m
  BY <1>1, <1>2, <1>3, <1>4
<1>6. (q - p) * Size = q * Size - p * Size
  BY <1>1, <1>3
<1>7. CASE q - p >= 1
  <2>1. (q - p) * Size >= Size
    BY <1>1, <1>3, <1>7
  <2> QED
    BY <1>1, <1>5, <1>6, <2>1
<1>8. CASE q - p <= 0
  <2>1. (q - p) * Size <= 0
    BY <1>1, <1>3, <1>8
  <2> QED
    BY <1>1, <1>5, <1>6, <2>1
<1> QED
  BY <1>3, <1>7, <1>8

\* Every count of records has its place.
LEMMA PlaceInRing ==
  ASSUME NEW n \in Nat
  PROVE  Perf!Place(n) \in 0 .. Size - 1
BY RingAssumption DEF Perf!Place

\* An empty ring accounts for nothing.
LEMMA PerfInit == Perf!Init => PerfInv
<1> SUFFICES ASSUME Perf!Init PROVE PerfInv
  OBVIOUS
<1>1. RingTypes /\ Counters /\ States
  BY DEF Perf!Init, RingTypes, Records, Perf!Lost, Counters, States
<1>2. Window /\ Drains
  BY RingAssumption DEF Perf!Init, Window, Drains, Perf!Draining
<1>3. Accounted
  <2> DEFINE account == [n \in Nat |-> 0]
  <2>1. account \in [Nat -> Nat] /\ account[0] = 0
    OBVIOUS
  <2>2. Accounts(account, ring, 0, 0)
    BY DEF Accounts
  <2>3. /\ Accounts(account, ring, tail, dataHead) /\ account[tail] = total + lost
        /\ account[dataHead] + unsent = taken
    BY <2>1, <2>2 DEF Perf!Init
  <2> HIDE DEF account
  <2> QED
    BY <2>1, <2>3 DEF Accounted
<1> QED
  BY <1>1, <1>2, <1>3 DEF PerfInv

(* The kernel writes a sample, behind a report of what it lost, or has no  *)
(* room and counts it.                                                     *)
LEMMA TakeStep ==
  ASSUME PerfInv, NEW ip \in Addresses \cup {0}, Perf!TakeSample(ip)
  PROVE  PerfInv'
<1> DEFINE records == IF unsent > 0 THEN <<Perf!Lost(unsent), Perf!Sample(ip)>>
                      ELSE <<Perf!Sample(ip)>>
<1>0. RingTypes /\ Counters /\ States /\ Window /\ Drains /\ Accounted
  BY DEF PerfInv
<1>1. /\ enabled /\ taken' = taken + 1
      /\ UNCHANGED <<dataTail, enabled, sampler, head, tail, samples, total, lost>>
  BY DEF Perf!TakeSample
<1>2. sampler \in {"polling", "draining"}
  BY <1>0, <1>1 DEF States, Drains
<1>3. PICK account \in [Nat -> Nat] :
        /\ Accounts(account, ring, tail, dataHead)
        /\ account[tail] = total + lost
        /\ account[dataHead] + unsent = taken
  BY <1>0 DEF Accounted
<1>4. CASE ~(Len(records) <= Perf!Room)
  <2>1. unsent' = unsent + 1 /\ UNCHANGED <<ring, dataHead>>
    BY <1>4 DEF Perf!TakeSample
  <2>2. RingTypes' /\ Counters' /\ States' /\ Window' /\ Drains'
    <3>1. RingTypes' /\ States'
      BY <1>0, <1>1, <2>1 DEF RingTypes, States
    <3>2. Counters' /\ Window'
      BY <1>0, <1>1, <2>1 DEF Counters, Window
    <3>3. Drains'
      BY <1>0, <1>1, <2>1 DEF Drains, Perf!Draining
    <3> QED
      BY <3>1, <3>2, <3>3
  <2>3. account[dataHead] \in Nat
    BY <1>0, <1>3 DEF Counters
  <2>4. Accounted'
    BY <1>0, <1>1, <1>3, <2>1, <2>3 DEF Accounted, Accounts, Counters
  <2> QED
    BY <2>2, <2>4 DEF PerfInv
<1>5. CASE Len(records) <= Perf!Room
  <2> DEFINE count == Len(records)
  <2>1. /\ ring' = [i \in DOMAIN ring |->
              IF \E k \in 1 .. count : i = Perf!Place(dataHead + k - 1)
              THEN records[CHOOSE k \in 1 .. count : i = Perf!Place(dataHead + k - 1)]
              ELSE ring[i]]
        /\ dataHead' = dataHead + count /\ unsent' = 0
    BY <1>5 DEF Perf!TakeSample
  <2>2. /\ count \in {1, 2} /\ dataHead + count - dataTail <= Size
        /\ \A k \in 1 .. count : records[k] \in Records
        /\ count = 1 => unsent = 0 /\ Weight(records[1]) = 1
        /\ count = 2 => Weight(records[1]) = unsent /\ Weight(records[2]) = 1
    <3>1. CASE unsent > 0
      <4>1. records = <<Perf!Lost(unsent), Perf!Sample(ip)>>
        BY <3>1
      <4>2. count = 2 /\ records[1] = Perf!Lost(unsent) /\ records[2] = Perf!Sample(ip)
        BY <4>1
      <4> QED
        BY RingAssumption, <1>0, <1>5, <3>1, <4>2 DEF Counters, Perf!Room, Records, Weight,
           Perf!Lost, Perf!Sample
    <3>2. CASE unsent = 0
      <4>1. records = <<Perf!Sample(ip)>>
        BY <3>2
      <4>2. count = 1 /\ records[1] = Perf!Sample(ip)
        BY <4>1
      <4> QED
        BY RingAssumption, <1>0, <1>5, <3>2, <4>2 DEF Counters, Perf!Room, Records, Weight,
           Perf!Sample
    <3> QED
      BY <1>0, <3>1, <3>2 DEF Counters
  <2> HIDE DEF records, count
  <2>0. Counters /\ count \in Nat /\ Size \in Nat /\ Size > 0
    BY RingAssumption, <1>0, <2>2
  <2>3. \A n \in tail .. dataHead - 1 : ring'[Perf!Place(n)] = ring[Perf!Place(n)]
    <3> SUFFICES ASSUME NEW n \in tail .. dataHead - 1
                 PROVE  ring'[Perf!Place(n)] = ring[Perf!Place(n)]
      OBVIOUS
    <3>1. n \in Nat
      BY <2>0 DEF Counters
    <3>2. Perf!Place(n) \in DOMAIN ring
      BY <1>0, <3>1, PlaceInRing DEF RingTypes
    <3>3. ASSUME NEW k \in 1 .. count PROVE Perf!Place(n) # Perf!Place(dataHead + k - 1)
      <4>1. /\ dataHead + k - 1 \in Nat /\ n < dataHead + k - 1
            /\ (dataHead + k - 1) - n < Size
        BY <1>0, <2>0, <2>2, <3>1 DEF Window, Counters
      <4> QED
        BY <3>1, <4>1, PlacesDiffer
    <3> QED
      BY <2>1, <3>2, <3>3
  <2>4. \A k \in 1 .. count : ring'[Perf!Place(dataHead + k - 1)] = records[k]
    <3> SUFFICES ASSUME NEW k \in 1 .. count
                 PROVE  ring'[Perf!Place(dataHead + k - 1)] = records[k]
      OBVIOUS
    <3>1. dataHead + k - 1 \in Nat
      BY <2>0 DEF Counters
    <3>2. Perf!Place(dataHead + k - 1) \in DOMAIN ring
      BY <1>0, <3>1, PlaceInRing DEF RingTypes
    <3>3. ASSUME NEW j \in 1 .. count, Perf!Place(dataHead + k - 1) = Perf!Place(dataHead + j - 1)
          PROVE  j = k
      <4>1. /\ dataHead + j - 1 \in Nat /\ count <= Size /\ j \in Nat /\ k \in Nat
            /\ k <= count /\ j <= count /\ k >= 1 /\ j >= 1
        BY <1>0, <2>0, <2>2 DEF Counters, Window
      <4>2. ASSUME j < k PROVE FALSE
        <5>1. dataHead + j - 1 < dataHead + k - 1
              /\ (dataHead + k - 1) - (dataHead + j - 1) < Size
          BY <2>0, <4>1, <4>2 DEF Counters
        <5> QED
          BY <3>1, <3>3, <4>1, <5>1, PlacesDiffer
      <4>3. ASSUME k < j PROVE FALSE
        <5>1. dataHead + k - 1 < dataHead + j - 1
              /\ (dataHead + j - 1) - (dataHead + k - 1) < Size
          BY <2>0, <4>1, <4>3 DEF Counters
        <5> QED
          BY <3>1, <3>3, <4>1, <5>1, PlacesDiffer
      <4> QED
        BY <4>1, <4>2, <4>3
    <3>4. (CHOOSE j \in 1 .. count :
             Perf!Place(dataHead + k - 1) = Perf!Place(dataHead + j - 1)) = k
      BY <3>3
    <3> QED
      BY <2>1, <3>2, <3>4
  <2>5. RingTypes' /\ Counters' /\ States'
    <3>1. \A i \in DOMAIN ring : ring'[i] \in Records
      BY <1>0, <2>1, <2>2 DEF RingTypes
    <3>2. RingTypes'
      BY <1>0, <2>1, <3>1 DEF RingTypes
    <3>3. Counters'
      BY <1>1, <2>0, <2>1 DEF Counters
    <3>4. States'
      BY <1>0, <1>1 DEF States
    <3> QED
      BY <3>2, <3>3, <3>4
  <2>6. Window' /\ Drains'
    <3>1. Window'
      BY <1>0, <1>1, <2>0, <2>1, <2>2 DEF Window, Counters
    <3>2. Perf!Draining => tail <= head /\ head <= dataHead'
      BY <1>0, <2>0, <2>1 DEF Drains, Perf!Draining, Counters
    <3>3. Drains'
      BY <1>0, <1>1, <1>2, <3>2 DEF Drains, Perf!Draining
    <3> QED
      BY <3>1, <3>3
  <2>7. Accounted'
    <3> DEFINE new == [n \in Nat |->
                         IF n <= dataHead THEN account[n]
                         ELSE IF n = dataHead + 1 /\ count = 2 THEN account[dataHead] + unsent
                         ELSE account[dataHead] + unsent + 1]
    <3>1. account[dataHead] \in Nat
      BY <1>3, <2>0 DEF Counters
    <3>2. new \in [Nat -> Nat]
      BY <1>3, <2>0, <3>1 DEF Counters
    <3>3. new[tail] = total' + lost'
      BY <1>0, <1>1, <1>3, <2>0 DEF Window, Counters
    <3>4. new[dataHead'] = account[dataHead] + unsent + 1
      BY <2>0, <2>1, <2>2 DEF Counters
    <3>5. new[dataHead'] + unsent' = taken'
      BY <1>1, <1>3, <2>0, <2>1, <3>1, <3>4 DEF Counters
    <3>6. Accounts(new, ring', tail, dataHead')
      <4>0. dataHead' - 1 = dataHead + count - 1
        BY <2>0, <2>1 DEF Counters
      <4> HIDE DEF new
      <4> SUFFICES ASSUME NEW n \in tail .. dataHead + count - 1
                   PROVE  new[n + 1] = new[n] + Weight(ring'[Perf!Place(n)])
        BY <4>0 DEF Accounts
      <4> USE DEF new
      <4>1. n \in Nat /\ n >= tail /\ n <= dataHead + count - 1
        BY <2>0 DEF Counters
      <4>2. CASE n < dataHead
        <5>1. account[n + 1] = account[n] + Weight(ring[Perf!Place(n)])
          BY <1>3, <2>0, <4>1, <4>2 DEF Accounts, Counters
        <5>2. ring'[Perf!Place(n)] = ring[Perf!Place(n)]
          BY <2>0, <2>3, <4>1, <4>2 DEF Counters
        <5>3. new[n + 1] = account[n + 1] /\ new[n] = account[n]
          BY <2>0, <4>1, <4>2 DEF Counters
        <5> QED
          BY <5>1, <5>2, <5>3
      <4>3. CASE n = dataHead
        <5>1. ring'[Perf!Place(n)] = records[1]
          BY <2>0, <2>2, <2>4, <4>3 DEF Counters
        <5>2. new[n] = account[dataHead] /\ account[dataHead] \in Nat
          BY <2>0, <3>1, <4>3 DEF Counters
        <5>3. new[n + 1] = IF count = 2 THEN account[dataHead] + unsent
                           ELSE account[dataHead] + unsent + 1
          BY <2>0, <4>1, <4>3 DEF Counters
        <5> QED
          BY <2>0, <2>2, <5>1, <5>2, <5>3 DEF Counters
      <4>4. CASE n = dataHead + 1 /\ count = 2
        <5>1. ring'[Perf!Place(n)] = records[2]
          BY <2>0, <2>2, <2>4, <4>4 DEF Counters
        <5>2. new[n] = account[dataHead] + unsent /\ account[dataHead] \in Nat
          BY <2>0, <3>1, <4>1, <4>4 DEF Counters
        <5>3. new[n + 1] = account[dataHead] + unsent + 1
          BY <2>0, <4>1, <4>4 DEF Counters
        <5> QED
          BY <2>0, <2>2, <4>4, <5>1, <5>2, <5>3 DEF Counters
      <4> QED
        BY <2>0, <2>2, <4>1, <4>2, <4>3, <4>4 DEF Counters
    <3> QED
      BY <1>1, <3>2, <3>3, <3>5, <3>6 DEF Accounted
  <2> QED
    BY <2>5, <2>6, <2>7 DEF PerfInv
<1> QED
  BY <1>4, <1>5

(* The sampler reads the record at its tail.                               *)
LEMMA ReadStep ==
  ASSUME PerfInv, Perf!ReadSample \/ Perf!ReadLost
  PROVE  PerfInv'
<1>0. RingTypes /\ Counters /\ States /\ Window /\ Drains /\ Accounted
  BY DEF PerfInv
<1> DEFINE record == ring[Perf!Place(tail)]
<1>1. /\ Perf!Draining /\ tail < head /\ tail' = tail + 1
      /\ UNCHANGED <<ring, dataHead, dataTail, unsent, taken, enabled, sampler, head>>
      /\ \/ record.kind = "sample" /\ total' = total + 1 /\ lost' = lost
         \/ record.kind = "lost" /\ lost' = lost + record.count /\ total' = total
  BY DEF Perf!ReadSample, Perf!ReadLost
<1>2. record \in Records
  BY <1>0, PlaceInRing DEF RingTypes, Counters
<1>3. total' \in Nat /\ lost' \in Nat /\ total' + lost' = total + lost + Weight(record)
  BY <1>0, <1>1, <1>2 DEF Records, Weight, Counters
<1>4. RingTypes' /\ Counters' /\ States' /\ Window' /\ Drains'
  <2> HIDE DEF record
  <2>1. tail + 1 <= head /\ head <= dataHead /\ dataTail <= tail + 1
    BY <1>0, <1>1 DEF Counters, Window, Drains, Perf!Draining
  <2>2. RingTypes' /\ States'
    BY <1>0, <1>1 DEF RingTypes, States
  <2>3. Counters'
    BY <1>0, <1>1, <1>3 DEF Counters
  <2>4. Window'
    BY <1>0, <1>1, <2>1 DEF Counters, Window
  <2>5. sampler \in {"draining", "lastDrain"}
    BY <1>1 DEF Perf!Draining
  <2>6. Drains'
    BY <1>0, <1>1, <2>1, <2>5 DEF Drains
  <2> QED
    BY <2>2, <2>3, <2>4, <2>6
<1>5. PICK account \in [Nat -> Nat] :
        /\ Accounts(account, ring, tail, dataHead)
        /\ account[tail] = total + lost
        /\ account[dataHead] + unsent = taken
  BY <1>0 DEF Accounted
<1>6. tail \in tail .. dataHead - 1
  BY <1>0, <1>1 DEF Drains, Perf!Draining, Counters
<1>7. account[tail + 1] = total' + lost'
  BY <1>0, <1>3, <1>5, <1>6 DEF Accounts, Counters
<1>8. Accounts(account, ring, tail', dataHead)
  BY <1>0, <1>1, <1>5 DEF Accounts, Counters
<1>9. Accounted'
  BY <1>1, <1>5, <1>7, <1>8 DEF Accounted
<1> QED
  BY <1>4, <1>9 DEF PerfInv

\* Every step of the kernel and of the sampler keeps the account.
LEMMA PerfStep ==
  ASSUME PerfInv, [Perf!Next]_Perf!vars
  PROVE  PerfInv'
<1>1. CASE UNCHANGED Perf!vars
  BY <1>1 DEF Perf!vars, PerfInv, RingTypes, Counters, States, Window, Drains, Perf!Draining,
     Accounted, Accounts
<1>2. CASE Perf!BeginDrain \/ Perf!TableFull \/ Perf!EndDrain \/ Perf!Disable
  <2>1. UNCHANGED <<ring, dataHead, unsent, taken, total, lost>> /\ tail' = tail
    BY <1>2 DEF PerfInv, States, Window, Drains, Perf!BeginDrain, Perf!TableFull,
       Perf!EndDrain, Perf!Disable
  <2>2. Accounted'
    BY <2>1 DEF PerfInv, Accounted, Accounts
  <2>3. RingTypes' /\ Counters' /\ States'
    BY <1>2, <2>1 DEF PerfInv, RingTypes, Counters, States, Perf!BeginDrain, Perf!TableFull,
       Perf!EndDrain, Perf!Disable
  <2>4. Perf!BeginDrain => Window' /\ Drains'
    BY <2>1 DEF PerfInv, Counters, States, Window, Drains, Perf!Draining, Perf!BeginDrain
  <2>5. Perf!TableFull => Window' /\ Drains'
    BY <2>1 DEF PerfInv, Window, Drains, Perf!Draining, Perf!TableFull
  <2>6. Perf!EndDrain => Window' /\ Drains'
    BY RingAssumption, <2>1 DEF PerfInv, Counters, Window, Drains, Perf!Draining, Perf!EndDrain
  <2>7. Perf!Disable => Window' /\ Drains'
    BY <2>1 DEF PerfInv, Window, Drains, Perf!Draining, Perf!Disable
  <2>8. Window' /\ Drains'
    BY <1>2, <2>4, <2>5, <2>6, <2>7
  <2> QED
    BY <2>2, <2>3, <2>8 DEF PerfInv
<1> QED
  BY <1>1, <1>2, TakeStep, ReadStep DEF Perf!Next

(* For a ring of any size and any addresses: what drain_ring read and what *)
(* the kernel reported lost, with the losses not reported, are the samples *)
(* the kernel took.                                                        *)
THEOREM SummaryStaysExact == Perf!Spec => []Perf!SummaryExact
<1>1. Perf!Init => PerfInv
  BY PerfInit
<1>2. PerfInv /\ [Perf!Next]_Perf!vars => PerfInv'
  BY PerfStep
<1>3. PerfInv => Perf!SummaryExact
  <2> SUFFICES ASSUME PerfInv, sampler = "done" PROVE total + lost + unsent = taken
    BY DEF Perf!SummaryExact
  <2> QED
    BY DEF PerfInv, Counters, Window, Drains, Accounted
<1> QED
  BY <1>1, <1>2, <1>3, PTL DEF Perf!Spec

\* In Protocols the steps of the others leave it alone.
LEMMA PerfAlone == Spec => Perf!Spec
<1>1. Init => Perf!Init
  BY DEF Init
<1>2. [Next]_vars => [Perf!Next]_Perf!vars
  BY DEF Next, vars, perfVars, Perf!vars
<1> QED
  BY <1>1, <1>2, PTL DEF Spec, Perf!Spec

(* Among the protocols too, the sampler's summary is exact.                *)
THEOREM SummaryAccounts == Spec => []SummaryExact
BY PerfAlone, SummaryStaysExact, PTL DEF SummaryExact

=============================================================================
