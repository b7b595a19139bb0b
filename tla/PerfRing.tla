------------------------------ MODULE PerfRing ------------------------------
(***************************************************************************)
(* The sampler's side of a perf ring: drain_ring reads the records that    *)
(* the kernel had written when it began, counts samples and losses, and    *)
(* gives the space back.  The kernel writes meanwhile, and reports later   *)
(* what it had to drop.                                                    *)
(***************************************************************************)
EXTENDS Integers, Sequences, FiniteSets

CONSTANTS
  Size,       \* records the ring holds
  Addresses,  \* sampled addresses other than 0
  Slots,      \* SAMPLE_SLOTS
  MaxEvents   \* bound: samples the kernel takes

VARIABLES
  ring,      \* what is stored in each place of the ring
  dataHead,  \* data_head: records the kernel has written
  dataTail,  \* data_tail: records the sampler has given back
  unsent,    \* samples the kernel dropped and has not reported
  taken,     \* samples the kernel took (history)
  enabled,   \* the event counts
  sampler,   \* where the sampler is
  head,      \* head and tail of drain_ring
  tail,
  samples,   \* the sample table: count by address
  total,     \* samples read
  lost       \* samples reported lost

vars == <<ring, dataHead, dataTail, unsent, taken, enabled, sampler, head, tail,
          samples, total, lost>>

Sample(ip) == [kind |-> "sample", ip |-> ip]
Lost(count) == [kind |-> "lost", count |-> count]
Place(n) == n % Size

Init ==
  /\ ring = [i \in 0 .. Size - 1 |-> Lost(0)]
  /\ dataHead = 0 /\ dataTail = 0 /\ unsent = 0 /\ taken = 0 /\ enabled = TRUE
  /\ sampler = "polling" /\ head = 0 /\ tail = 0
  /\ samples = [ip \in Addresses |-> 0] /\ total = 0 /\ lost = 0

-----------------------------------------------------------------------------
(***************************************************************************)
(* The kernel.  A report of earlier losses takes a place of its own before *)
(* the next sample.                                                        *)
(***************************************************************************)

Room == Size - (dataHead - dataTail)

TakeSample(ip) ==
  /\ enabled /\ taken < MaxEvents /\ taken' = taken + 1
  /\ LET records == IF unsent > 0 THEN <<Lost(unsent), Sample(ip)>> ELSE <<Sample(ip)>>
     IN  IF Len(records) <= Room
         THEN /\ ring' = [i \in DOMAIN ring |->
                  IF \E k \in 1 .. Len(records) : i = Place(dataHead + k - 1)
                  THEN records[CHOOSE k \in 1 .. Len(records) : i = Place(dataHead + k - 1)]
                  ELSE ring[i]]
              /\ dataHead' = dataHead + Len(records)
              /\ unsent' = 0
         ELSE unsent' = unsent + 1 /\ UNCHANGED <<ring, dataHead>>
  /\ UNCHANGED <<dataTail, enabled, sampler, head, tail, samples, total, lost>>

-----------------------------------------------------------------------------
(***************************************************************************)
(* The sampler.                                                            *)
(***************************************************************************)

\* Slip: the space is given back before the records are read.
BeginDrain_GivesBack ==
  /\ sampler \in {"polling", "disabled"}
  /\ sampler' = IF sampler = "polling" THEN "draining" ELSE "lastDrain"
  /\ head' = dataHead /\ tail' = dataTail /\ dataTail' = dataHead
  /\ UNCHANGED <<ring, dataHead, unsent, taken, enabled, samples, total, lost>>

\* drain_ring, after poll or at the end.
BeginDrain ==
  /\ sampler \in {"polling", "disabled"}
  /\ sampler' = IF sampler = "polling" THEN "draining" ELSE "lastDrain"
  /\ head' = dataHead /\ tail' = dataTail
  /\ UNCHANGED <<ring, dataHead, dataTail, unsent, taken, enabled, samples, total, lost>>

Draining == sampler \in {"draining", "lastDrain"}
Used == {ip \in Addresses : samples[ip] > 0}

\* add_sample: a new address needs a free slot, and address 0 none.
HasSlot(ip) == ip \in Used \cup {0} \/ Cardinality(Used) < Slots

ReadSample ==
  /\ Draining /\ tail < head
  /\ LET record == ring[Place(tail)]
     IN  /\ record.kind = "sample" /\ HasSlot(record.ip)
         /\ samples' = [ip \in Addresses |->
                          IF ip = record.ip THEN samples[ip] + 1 ELSE samples[ip]]
  /\ total' = total + 1 /\ tail' = tail + 1
  /\ UNCHANGED <<ring, dataHead, dataTail, unsent, taken, enabled, sampler, head, lost>>

\* The table is full: the sampler ends without a summary.
TableFull ==
  /\ Draining /\ tail < head
  /\ LET record == ring[Place(tail)]
     IN  record.kind = "sample" /\ ~HasSlot(record.ip)
  /\ sampler' = "failed" /\ enabled' = FALSE
  /\ UNCHANGED <<ring, dataHead, dataTail, unsent, taken, head, tail, samples, total, lost>>

ReadLost ==
  /\ Draining /\ tail < head
  /\ LET record == ring[Place(tail)]
     IN  record.kind = "lost" /\ lost' = lost + record.count
  /\ tail' = tail + 1
  /\ UNCHANGED <<ring, dataHead, dataTail, unsent, taken, enabled, sampler, head, samples, total>>

EndDrain ==
  /\ Draining /\ tail = head
  /\ dataTail' = tail
  /\ sampler' = IF sampler = "draining" THEN "polling" ELSE "done"
  /\ UNCHANGED <<ring, dataHead, unsent, taken, enabled, head, tail, samples, total, lost>>

\* The time is over, the process gone, or a signal came.
Disable ==
  /\ sampler = "polling" /\ sampler' = "disabled"
  /\ enabled' = FALSE
  /\ UNCHANGED <<ring, dataHead, dataTail, unsent, taken, head, tail, samples, total, lost>>

Next ==
  \/ \E ip \in Addresses \cup {0} : TakeSample(ip)
  \/ BeginDrain \/ ReadSample \/ TableFull \/ ReadLost \/ EndDrain \/ Disable

Spec == Init /\ [][Next]_vars

-----------------------------------------------------------------------------

(* The summary accounts for every sample the kernel took: read once, or    *)
(* reported lost, but for losses no later sample could report.             *)
SummaryExact == sampler = "done" => total + lost + unsent = taken

=============================================================================
