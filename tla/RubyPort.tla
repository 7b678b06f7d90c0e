------------------------------ MODULE RubyPort ------------------------------
(***************************************************************************)
(* Ruby's Sequencer and RubyPort: the ports of one core, the tables of     *)
(* outstanding requests, the refusal and retry of requests, the deadlock   *)
(* check, and draining.  The L1 behind the sequencer answers every request *)
(* it is given, not before the next cycle; the masters resend a refused    *)
(* packet when they are told to and take every response.                   *)
(*                                                                         *)
(* Time is counted in cycles: an outstanding request has an age, the check *)
(* event the cycles left to it, a queued response is due in the next one.  *)
(***************************************************************************)
EXTENDS Integers, Sequences, FiniteSets, Functions

CONSTANTS
  Ports,                       \* the M5Ports of the RubyPort
  Lines,                       \* cache lines
  max_outstanding_requests,
  deadlock_threshold,
  NoPkt,                       \* no packet
  Packets,                     \* port -> the packets its master sends
  MayDrain,                    \* whether the simulator drains the port
  MaxQueued                    \* bound on the responses queued when a fetch is made

ASSUME ParametersAssumption ==
  /\ max_outstanding_requests \in Nat \ {0} /\ deadlock_threshold \in Nat \ {0}
  /\ Packets \in [Ports -> SUBSET [line : Lines, type : {"LD", "ST"}]]
  /\ NoPkt \notin [line : Lines, type : {"LD", "ST"}]
  /\ IsFiniteSet(Ports)
  /\ MayDrain \in BOOLEAN /\ MaxQueued \in Nat

VARIABLES
  sq,         \* the sequencer and the retry list
  queue,      \* queue[p]: the responses of port p, [due, later]
  drain,      \* draining: of the port, of its queues, and the CountedDrainEvent
  aborted     \* "no", or what stopped the simulator

vars == <<sq, queue, drain, aborted>>

Off == -1

Init ==
  /\ sq = [read |-> {}, write |-> {}, outstanding |-> 0, check |-> Off,
           retryList |-> <<>>, refused |-> [p \in Ports |-> NoPkt]]
  /\ queue = [p \in Ports |-> [due |-> 0, later |-> 0]]
  /\ drain = [state |-> "Running", event |-> FALSE, queues |-> {}, count |-> 0]
  /\ aborted = "no"

Outstanding(s) == s.read \cup s.write

Aliased(s, line) == \E r \in Outstanding(s) : r.line = line

ScheduleCheck(s) == IF s.check = Off THEN [s EXCEPT !.check = deadlock_threshold] ELSE s

\* The request joins the table of its kind and is sent to the L1.
Issue(s, p, pkt) ==
  LET r == [line |-> pkt.line, port |-> p, age |-> 0]
      t == [s EXCEPT !.outstanding = @ + 1, !.refused[p] = NoPkt]
  IN IF pkt.type = "ST" THEN [t EXCEPT !.write = @ \cup {r}] ELSE [t EXCEPT !.read = @ \cup {r}]

\* Mutant: the refused port goes to the head of the list.
addToRetryListFirst(s, p, pkt) ==
  LET listed == \E i \in 1..Len(s.retryList) : s.retryList[i] = p
  IN [s EXCEPT !.refused[p] = pkt, !.retryList = IF listed THEN @ ELSE <<p>> \o @]

\* A refused packet's port is recorded for a retry, once.  waitingOnSequencer is
\* the list not being empty.
addToRetryList(s, p, pkt) ==
  LET listed == \E i \in 1..Len(s.retryList) : s.retryList[i] = p
  IN [s EXCEPT !.refused[p] = pkt, !.retryList = IF listed THEN @ ELSE Append(@, p)]

\* Mutant: a load does not wait for an outstanding load.
makeRequestLoadsJoin(s, p, pkt) ==
  IF s.outstanding >= max_outstanding_requests THEN addToRetryList(s, p, pkt)
  ELSE LET t == ScheduleCheck(s)
       IN IF pkt.type = "ST" /\ Aliased(t, pkt.line) THEN addToRetryList(t, p, pkt)
          ELSE Issue(t, p, pkt)

\* makeRequest and insertRequest: a full sequencer refuses at once; otherwise the
\* deadlock check is scheduled, and the request refused if its line is taken.
makeRequest(s, p, pkt) ==
  IF s.outstanding >= max_outstanding_requests THEN addToRetryList(s, p, pkt)
  ELSE LET t == ScheduleCheck(s)
       IN IF Aliased(t, pkt.line) THEN addToRetryList(t, p, pkt) ELSE Issue(t, p, pkt)

\* Mutant: the ports that are refused again are lost.
SendRetriesOnce(s) ==
  LET list == s.retryList
      after[i \in 0..Len(list)] ==
        IF i = 0 THEN s ELSE makeRequest(after[i - 1], list[i], s.refused[list[i]])
  IN [after[Len(list)] EXCEPT !.retryList = <<>>]

\* Every port of the list as it was is told to retry, in its order, and does so
\* at once; it may come back on the new list.
SendRetries(s) ==
  LET list == s.retryList
      after[i \in 0..Len(list)] ==
        IF i = 0 THEN [s EXCEPT !.retryList = <<>>]
        ELSE makeRequest(after[i - 1], list[i], s.refused[list[i]])
  IN after[Len(list)]

-----------------------------------------------------------------------------
Busy(q) == q.due + q.later > 0

\* getDrainCount asks every queue too, and leaves it the drain event.
getDrainCount(s, q) == s.outstanding + Cardinality({p \in Ports : Busy(q[p])})

WithDrainEvent(q) == {p \in Ports : Busy(q[p])}

\* Processing the counted event, which is gone once the drain is over.
Processed(d) == IF d.state = "Draining" THEN [d EXCEPT !.count = @ - 1] ELSE d

\* ruby_hit_callback: the response is queued, the refused ports retry, and a
\* drain in progress is looked at.  getDrainCount asserts that the check is off.
ruby_hit_callback(s, p) ==
  LET t == SendRetries(s)
      q == [queue EXCEPT ![p].later = @ + 1]
      done == getDrainCount(t, q) = 0
  IN /\ sq' = t
     /\ queue' = q
     /\ IF drain.event /\ t.check # Off
        THEN aborted' = "assert" /\ UNCHANGED drain
        ELSE /\ drain' = IF ~drain.event THEN drain
                         ELSE IF done THEN Processed([drain EXCEPT !.event = FALSE])
                         ELSE [drain EXCEPT !.queues = @ \cup WithDrainEvent(q)]
             /\ UNCHANGED aborted

\* A master sends a packet, unless it waits for a retry or is being drained.
recvTimingReq(p) ==
  /\ aborted = "no" /\ drain.state = "Running" /\ sq.refused[p] = NoPkt
  /\ \E pkt \in Packets[p] : sq' = makeRequest(sq, p, pkt)
  /\ UNCHANGED <<queue, drain, aborted>>

Queued == FoldFunction(LAMBDA q, n : n + q.due + q.later, 0, queue)

\* An instruction fetch is answered at once, without the sequencer.
ShortFetch(p) ==
  /\ aborted = "no" /\ drain.state = "Running" /\ sq.refused[p] = NoPkt
  /\ Queued < MaxQueued
  /\ ruby_hit_callback(sq, p)

readCallback(line) ==
  /\ aborted = "no"
  /\ \E r \in sq.read :
       /\ r.line = line /\ r.age > 0
       /\ ruby_hit_callback([sq EXCEPT !.read = @ \ {r}, !.outstanding = @ - 1], r.port)

writeCallback(line) ==
  /\ aborted = "no"
  /\ \E r \in sq.write :
       /\ r.line = line /\ r.age > 0
       /\ ruby_hit_callback([sq EXCEPT !.write = @ \ {r}, !.outstanding = @ - 1], r.port)

\* Mutant: the check ends when no request is old.
wakeupOnce ==
  /\ aborted = "no" /\ sq.check = 0
  /\ IF \E r \in Outstanding(sq) : r.age >= deadlock_threshold
     THEN aborted' = "deadlock" /\ UNCHANGED sq
     ELSE sq' = [sq EXCEPT !.check = Off] /\ UNCHANGED aborted
  /\ UNCHANGED <<queue, drain>>

\* The deadlock check: an old request stops the simulator, any other request
\* keeps the check alive.
wakeup ==
  /\ aborted = "no" /\ sq.check = 0
  /\ IF \E r \in Outstanding(sq) : r.age >= deadlock_threshold
     THEN aborted' = "deadlock" /\ UNCHANGED sq
     ELSE /\ sq' = [sq EXCEPT !.check = IF sq.outstanding > 0 THEN deadlock_threshold ELSE Off]
          /\ UNCHANGED aborted
  /\ UNCHANGED <<queue, drain>>

-----------------------------------------------------------------------------
\* PacketQueue::sendDeferredPacket: an emptied queue processes the drain event
\* it was left.
sendDeferredPacket(p) ==
  /\ aborted = "no" /\ queue[p].due > 0
  /\ queue' = [queue EXCEPT ![p].due = @ - 1]
  /\ drain' = IF p \in drain.queues /\ ~Busy(queue'[p])
              THEN Processed([drain EXCEPT !.queues = @ \ {p}])
              ELSE drain
  /\ UNCHANGED <<sq, aborted>>

\* RubyPort::drain, called until nothing is left to wait for: the first time when
\* the simulator wants to drain, then whenever the counted event has run out.
Drain ==
  /\ aborted = "no" /\ MayDrain
  /\ drain.state = "Running" \/ (drain.state = "Draining" /\ drain.count = 0)
  /\ LET count == getDrainCount(sq, queue)
     IN drain' = [state |-> IF count = 0 THEN "Drained" ELSE "Draining",
                  event |-> drain.event \/ count # 0,
                  queues |-> WithDrainEvent(queue), count |-> count]
  /\ sq' = [sq EXCEPT !.check = Off]
  /\ UNCHANGED <<queue, aborted>>

Resume ==
  /\ aborted = "no" /\ drain.state = "Drained"
  /\ drain' = [drain EXCEPT !.state = "Running"]
  /\ UNCHANGED <<sq, queue, aborted>>

\* A cycle passes once every event that is due has run.  Ages count no further
\* than the oldest the check can miss.
Older(table) ==
  {[r EXCEPT !.age = IF @ < 2 * deadlock_threshold THEN @ + 1 ELSE @] : r \in table}

Tick ==
  /\ aborted = "no" /\ sq.check # 0 /\ \A p \in Ports : queue[p].due = 0
  /\ sq' = [sq EXCEPT !.read = Older(@), !.write = Older(@),
                      !.check = IF @ = Off THEN Off ELSE @ - 1]
  /\ queue' = [p \in Ports |-> [due |-> queue[p].later, later |-> 0]]
  /\ UNCHANGED <<drain, aborted>>

Next ==
  \/ \E p \in Ports : recvTimingReq(p) \/ ShortFetch(p) \/ sendDeferredPacket(p)
  \/ \E line \in Lines : readCallback(line) \/ writeCallback(line)
  \/ wakeup
  \/ Drain \/ Resume
  \/ Tick

Spec == Init /\ [][Next]_vars

\* The L1 answers every request, the queues send what is due, time passes, and
\* the simulator calls drain again and resumes.
Fairness ==
  /\ \A line \in Lines : WF_vars(readCallback(line)) /\ WF_vars(writeCallback(line))
  /\ \A p \in Ports : WF_vars(sendDeferredPacket(p))
  /\ WF_vars(wakeup) /\ WF_vars(Tick)

FairSpec == Spec /\ Fairness

-----------------------------------------------------------------------------
\* The tables, the retry list, the queues and the check's countdown.
TypeOK ==
  /\ \A r \in Outstanding(sq) : r.line \in Lines /\ r.port \in Ports /\ r.age \in 0..2 * deadlock_threshold
  /\ sq.check \in Off..deadlock_threshold
  /\ \A i \in 1..Len(sq.retryList) : sq.retryList[i] \in Ports
  /\ \A p \in Ports : sq.refused[p] \in Packets[p] \cup {NoPkt}
  /\ \A p \in Ports : queue[p].due \in Nat /\ queue[p].later \in Nat
  /\ drain.queues \subseteq Ports

\* The assertions of insertRequest, markRemoved and wakeup: the count is that of
\* the two tables, within the limit; and a line is in one of them at most, so
\* that a callback finds the request it is for.
TablesAgree ==
  /\ sq.outstanding = Cardinality(sq.read) + Cardinality(sq.write)
  /\ sq.outstanding <= max_outstanding_requests
  /\ \A r, s \in Outstanding(sq) : r.line = s.line => r = s
  /\ sq.read \cap sq.write = {}

\* No retry is lost: a port whose packet was refused is on the retry list, once,
\* and some outstanding request is there to wake it up.
RefusedPortsWait ==
  \A p \in Ports :
    /\ Cardinality({i \in 1..Len(sq.retryList) : sq.retryList[i] = p})
         = (IF sq.refused[p] = NoPkt THEN 0 ELSE 1)
    /\ sq.refused[p] # NoPkt => Outstanding(sq) # {}

\* A request that is not answered is reported: unless the port is draining, no
\* request grows as old as two thresholds, and the check is scheduled.
DeadlockDetected ==
  (aborted = "no" /\ drain.state = "Running" /\ ~drain.event) =>
    \A r \in Outstanding(sq) : sq.check # Off /\ r.age < 2 * deadlock_threshold

\* getDrainCount found the deadlock check scheduled while the drain event was
\* set, and its assertion (RubyPort.cc:701) stopped the simulator.
AssertedInDrain == aborted = "assert" /\ drain.event /\ sq.check # Off

\* A refused packet is accepted in the end, however many ports compete for its
\* line or for the last slot.  Two stops leave it unserved: the deadlock check
\* reports a request, or the assertion of getDrainCount fails, because a retry
\* during the drain, or a request after one that left the drain event set, has
\* scheduled the check again.
RetriesServed ==
  \A p \in Ports :
    sq.refused[p] # NoPkt ~>
      (sq.refused[p] = NoPkt \/ aborted = "deadlock" \/ AssertedInDrain)
=============================================================================
