-------------------------- MODULE PolicyMemoryProofs --------------------------
(***************************************************************************)
(* Theorems of PolicyMemory, for every set of maps, identifiers, paths and *)
(* kinds of decision and every bound: what the replay of the log gives is  *)
(* what its decisions and undos declare, a log the repository wrote always *)
(* replays, a command is carried out once and answered so ever after, a    *)
(* receipt tells an event, and the log keeps the promise of PolicyPromise. *)
(* First lemmas about a log and one more event, then the steps of the      *)
(* machine. Last, what decisions mean: every command was prepared in order *)
(* on what its client saw, and the theorems about the rules hold of the    *)
(* policies in force.                                                      *)
(***************************************************************************)
EXTENDS PolicyMemory, PolicyRulesProofs, SequenceTheorems, TLAPS

(* What holds of the decisions of a log that was written event by event.   *)
OneEventPerDecision(events) ==
    \A e, f \in Decisions(events) : e.command.decision = f.command.decision => e = f
UndoneAreRecorded(events) == Undone(events) \subseteq Recorded(events)
SupersededAreRecorded(events) ==
    \A e \in Decisions(events) : e.command.supersedes \subseteq Recorded(events)
(* Of the decisions that supersede one, at most one was not taken back.    *)
OneSuccessor(events) ==
    \A e, f \in Decisions(events) :
        /\ e.command.decision \notin Undone(events)
        /\ f.command.decision \notin Undone(events)
        /\ e.command.supersedes \intersect f.command.supersedes # {}
        => e.command.decision = f.command.decision

Consistent(events) ==
    /\ OneEventPerDecision(events)
    /\ UndoneAreRecorded(events)
    /\ SupersededAreRecorded(events)
    /\ OneSuccessor(events)

SentEvents == {[command |-> c.command, anchors |-> c.anchors] : c \in sent}
LogIsSent == log \in Seq(SentEvents)

(* The inductive invariant.                                                *)
MemoryInv ==
    /\ TypeOK
    /\ LogIsSent
    /\ Consistent(log)
    /\ InForceIsDeclared
    /\ UndoRestores
    /\ ExecutedOnce
    /\ ReceiptsTellTheLog

-----------------------------------------------------------------------------
(* A log and one more event. *)

(* The events of a log with one appended are those of the log and that one. *)
LEMMA EventsAppended ==
    ASSUME NEW T, NEW events \in Seq(T), NEW e \in T
    PROVE  EventsOf(Append(events, e)) = EventsOf(events) \union {e}
<1> DEFINE longer == Append(events, e)
<1>1. /\ longer \in Seq(T)
      /\ Len(longer) = Len(events) + 1
      /\ longer[Len(longer)] = e
      /\ \A i \in 1 .. Len(events) : longer[i] = events[i]
      /\ DOMAIN longer = 1 .. Len(longer) /\ DOMAIN events = 1 .. Len(events)
      /\ Len(events) \in Nat
  OBVIOUS
<1>2. EventsOf(longer) \subseteq EventsOf(events) \union {e}
  <2> SUFFICES ASSUME NEW i \in DOMAIN longer
               PROVE  longer[i] \in EventsOf(events) \union {e}
    BY DEF EventsOf
  <2>1. i = Len(longer) \/ i \in 1 .. Len(events)
    BY <1>1
  <2> QED
    BY <1>1, <2>1 DEF EventsOf
<1>3. EventsOf(events) \subseteq EventsOf(longer)
  <2> SUFFICES ASSUME NEW i \in DOMAIN events
               PROVE  events[i] \in EventsOf(longer)
    BY DEF EventsOf
  <2>1. i \in DOMAIN longer /\ longer[i] = events[i]
    BY <1>1
  <2> QED
    BY <2>1 DEF EventsOf
<1>4. e \in EventsOf(longer)
  BY <1>1 DEF EventsOf
<1> QED
  BY <1>2, <1>3, <1>4

(* A decision appended is one more decision, and takes nothing back.       *)
LEMMA DecisionAppended ==
    ASSUME NEW T, NEW events \in Seq(T), NEW e \in T, IsDecision(e.command)
    PROVE  /\ Decisions(Append(events, e)) = Decisions(events) \union {e}
           /\ Recorded(Append(events, e)) = Recorded(events) \union {e.command.decision}
           /\ Undone(Append(events, e)) = Undone(events)
<1>1. EventsOf(Append(events, e)) = EventsOf(events) \union {e}
  BY EventsAppended
<1>2. Decisions(Append(events, e)) = Decisions(events) \union {e}
  BY <1>1 DEF Decisions
<1>3. EventsOf(Append(events, e)) \ Decisions(Append(events, e)) = EventsOf(events) \ Decisions(events)
  BY <1>1, <1>2 DEF Decisions
<1> QED
  BY <1>2, <1>3 DEF Recorded, Undone

(* An undo appended is no decision, and takes the one it names back.       *)
LEMMA UndoAppended ==
    ASSUME NEW T, NEW events \in Seq(T), NEW e \in T, ~IsDecision(e.command)
    PROVE  /\ Decisions(Append(events, e)) = Decisions(events)
           /\ Recorded(Append(events, e)) = Recorded(events)
           /\ Undone(Append(events, e)) = Undone(events) \union {e.command.decision}
<1>1. EventsOf(Append(events, e)) = EventsOf(events) \union {e}
  BY EventsAppended
<1>2. Decisions(Append(events, e)) = Decisions(events)
  BY <1>1 DEF Decisions
<1>3. EventsOf(Append(events, e)) \ Decisions(Append(events, e))
        = (EventsOf(events) \ Decisions(events)) \union {e}
  BY <1>1, <1>2 DEF Decisions
<1> QED
  BY <1>2, <1>3 DEF Recorded, Undone

(* What a decision of a log supersedes is what its event says.             *)
LEMMA SupersedesOfEvent ==
    ASSUME NEW events, OneEventPerDecision(events), NEW e \in Decisions(events)
    PROVE  Supersedes(events, e.command.decision) = e.command.supersedes
<1>1. DecisionEvent(events, e.command.decision) = e
  BY DEF DecisionEvent, OneEventPerDecision
<1> QED
  BY <1>1 DEF Supersedes

(* A recorded decision is the one of an event.                             *)
LEMMA EventOfDecision ==
    ASSUME NEW events, OneEventPerDecision(events), NEW d \in Recorded(events)
    PROVE  \E e \in Decisions(events) : /\ e.command.decision = d
                                        /\ Supersedes(events, d) = e.command.supersedes
<1>1. PICK e \in Decisions(events) : e.command.decision = d
  BY DEF Recorded
<1> QED
  BY <1>1, SupersedesOfEvent

-----------------------------------------------------------------------------
(* A log that replays a decision stays consistent, the replay gives what   *)
(* the longer log declares, and taking that decision back would restore    *)
(* what the log declared before it.                                        *)
LEMMA DecisionReplays ==
    ASSUME NEW T, NEW events \in Seq(T), NEW e \in T, IsDecision(e.command),
           Consistent(events), Replays(InForceAfter(events), events, e)
    PROVE  /\ Consistent(Append(events, e))
           /\ InForceAfter(Append(events, e)) = AfterEvent(InForceAfter(events), events, e)
           /\ \A u : ~IsDecision(u.command) /\ u.command.decision = e.command.decision =>
                AfterEvent(InForceAfter(Append(events, e)), Append(events, e), u)
                  = InForceAfter(events)
<1> DEFINE longer == Append(events, e)
           d == e.command.decision
           S == e.command.supersedes
           active == InForceAfter(events)
<1>1. /\ Decisions(longer) = Decisions(events) \union {e}
      /\ Recorded(longer) = Recorded(events) \union {d}
      /\ Undone(longer) = Undone(events)
  BY DecisionAppended
<1>2. d \notin Recorded(events) /\ S \subseteq active
  BY DEF Replays
<1>3. active \subseteq Recorded(events) \ Undone(events)
  BY DEF InForceAfter
<1>4. /\ d \notin Undone(events)
      /\ \A f \in Decisions(events) : d \notin f.command.supersedes /\ f.command.decision # d
  BY <1>2 DEF Consistent, UndoneAreRecorded, SupersededAreRecorded, Recorded
<1> HIDE DEF longer, active
<1>5. OneEventPerDecision(longer)
  BY <1>1, <1>4 DEF Consistent, OneEventPerDecision
<1>6. UndoneAreRecorded(longer)
  BY <1>1 DEF Consistent, UndoneAreRecorded
<1>7. SupersededAreRecorded(longer)
  BY <1>1, <1>2, <1>3 DEF Consistent, SupersededAreRecorded
<1>8. \A f \in Decisions(events) :
         f.command.supersedes \intersect S # {} => f.command.decision \in Undone(events)
  BY <1>2 DEF active, InForceAfter
<1>9. OneSuccessor(longer)
  BY <1>1, <1>8 DEF Consistent, OneSuccessor
<1>10. InForceAfter(longer) = (active \ S) \union {d}
  <2>1. ASSUME NEW x \in InForceAfter(longer) PROVE x \in (active \ S) \union {d}
    BY <1>1, <1>4, <2>1 DEF InForceAfter, active
  <2>2. d \in InForceAfter(longer)
    BY <1>1, <1>2, <1>3, <1>4 DEF InForceAfter
  <2>3. ASSUME NEW x \in active \ S PROVE x \in InForceAfter(longer)
    BY <1>1, <2>3 DEF InForceAfter, active
  <2> QED
    BY <2>1, <2>2, <2>3
<1>11. AfterEvent(active, events, e) = (active \ S) \union {d}
  BY DEF AfterEvent
<1>12. ASSUME NEW u, ~IsDecision(u.command), u.command.decision = d
       PROVE  AfterEvent(InForceAfter(longer), longer, u) = active
  <2> DEFINE rest == InForceAfter(longer) \ {d}
  <2>1. rest = active \ S
    BY <1>2, <1>3, <1>10
  <2>2. Supersedes(longer, d) = S
    BY <1>1, <1>5, SupersedesOfEvent
  <2>3. ASSUME NEW x \in S, NEW other \in rest PROVE x \notin Supersedes(longer, other)
    <3>1. PICK f \in Decisions(longer) : /\ f.command.decision = other
                                         /\ Supersedes(longer, other) = f.command.supersedes
      BY <1>1, <1>3, <1>5, <2>1, <2>3, EventOfDecision
    <3>2. f \in Decisions(events) /\ other \notin Undone(events)
      BY <1>1, <1>3, <2>1, <2>3, <3>1
    <3> QED
      BY <1>8, <2>3, <3>1, <3>2
  <2>4. \A x \in S : x \notin Undone(longer) \union {d}
    BY <1>1, <1>2, <1>3
  <2>5. AfterEvent(InForceAfter(longer), longer, u) =
            rest \union {x \in Supersedes(longer, d) :
                            /\ x \notin Undone(longer) \union {d}
                            /\ \A other \in rest : x \notin Supersedes(longer, other)}
    BY <1>12 DEF AfterEvent
  <2> HIDE DEF rest
  <2>6. AfterEvent(InForceAfter(longer), longer, u) = rest \union S
    BY <2>2, <2>3, <2>4, <2>5
  <2> QED
    BY <1>2, <2>1, <2>6
<1> QED
  BY <1>5, <1>6, <1>7, <1>9, <1>10, <1>11, <1>12 DEF Consistent, longer, active

(* The same of an undo.                                                    *)
LEMMA UndoReplays ==
    ASSUME NEW T, NEW events \in Seq(T), NEW e \in T, ~IsDecision(e.command),
           Consistent(events), Replays(InForceAfter(events), events, e)
    PROVE  /\ Consistent(Append(events, e))
           /\ InForceAfter(Append(events, e)) = AfterEvent(InForceAfter(events), events, e)
<1> DEFINE longer == Append(events, e)
           d == e.command.decision
           active == InForceAfter(events)
           rest == active \ {d}
           revived == {x \in Supersedes(events, d) :
                         /\ x \notin Undone(events) \union {d}
                         /\ \A other \in rest : x \notin Supersedes(events, other)}
<1>1. /\ Decisions(longer) = Decisions(events)
      /\ Recorded(longer) = Recorded(events)
      /\ Undone(longer) = Undone(events) \union {d}
  BY UndoAppended
<1>2. d \in active /\ d \in Recorded(events) /\ d \notin Undone(events)
  BY DEF Replays, InForceAfter
<1>3. AfterEvent(active, events, e) = rest \union revived
  BY DEF AfterEvent
<1>4. PICK made \in Decisions(events) : /\ made.command.decision = d
                                        /\ Supersedes(events, d) = made.command.supersedes
  BY <1>2, EventOfDecision DEF Consistent
<1> HIDE DEF longer
<1>5. Consistent(longer)
  BY <1>1, <1>2 DEF Consistent, OneEventPerDecision, UndoneAreRecorded, SupersededAreRecorded,
                    OneSuccessor
<1>6. ASSUME NEW x \in rest PROVE x \in InForceAfter(longer)
  BY <1>1, <1>6 DEF InForceAfter
<1>7. ASSUME NEW x \in revived PROVE x \in InForceAfter(longer)
  <2>1. x \in Recorded(longer) \ Undone(longer)
    BY <1>1, <1>4, <1>7 DEF Consistent, SupersededAreRecorded
  <2>2. ASSUME NEW f \in Decisions(longer), x \in f.command.supersedes
        PROVE  f.command.decision \in Undone(longer)
    BY <1>1, <1>2, <1>4, <1>7, <2>2 DEF Consistent, OneSuccessor
  <2> QED
    BY <2>1, <2>2 DEF InForceAfter
<1>8. ASSUME NEW x \in InForceAfter(longer) PROVE x \in rest \union revived
  <2>1. x \in Recorded(events) /\ x \notin Undone(events) \union {d}
    BY <1>1, <1>8 DEF InForceAfter
  <2>2. CASE x \in active
    BY <2>1, <2>2
  <2>3. CASE x \notin active
    <3>1. PICK f \in Decisions(events) : x \in f.command.supersedes
                                         /\ f.command.decision \notin Undone(events)
      BY <2>1, <2>3 DEF InForceAfter
    <3>2. f.command.decision = d
      BY <1>1, <1>8, <3>1 DEF InForceAfter
    <3>3. x \in Supersedes(events, d)
      BY <1>4, <3>1, <3>2 DEF Consistent, OneEventPerDecision
    <3>4. ASSUME NEW other \in rest PROVE x \notin Supersedes(events, other)
      <4>1. other \in Recorded(events) /\ other \notin Undone(events) \union {d}
        BY <3>4 DEF InForceAfter
      <4>2. PICK g \in Decisions(events) : /\ g.command.decision = other
                                           /\ Supersedes(events, other) = g.command.supersedes
        BY <4>1, EventOfDecision DEF Consistent
      <4> QED
        BY <1>1, <1>8, <4>1, <4>2 DEF InForceAfter
    <3> QED
      BY <2>1, <3>3, <3>4
  <2> QED
    BY <2>2, <2>3
<1> QED
  BY <1>3, <1>5, <1>6, <1>7, <1>8 DEF longer

-----------------------------------------------------------------------------
(* The steps of the machine. *)

(* The event a command becomes.                                            *)
Event(c) == [command |-> c.command, anchors |-> c.anchors]

(* A command that is carried out: it is new, and the log replays it.       *)
LEMMA RecordedReplays ==
    ASSUME MemoryInv, NEW c \in sent, Outcome(c) = "recorded"
    PROVE  /\ EventFor(c.command.id) = {}
           /\ Replays(inForce, log, Event(c))
<1>1. ReplayOutcome(c) = "none"
  BY DEF Outcome, ReplayOutcome
<1>2. EventFor(c.command.id) = {}
  BY <1>1 DEF ReplayOutcome
<1>3. SnapshotOutcome(c) = "ok"
  BY <1>1 DEF Outcome, SnapshotOutcome
<1>4. CASE IsDecision(c.command)
  <2>1. RecordOutcome(c) = "recorded"
    BY <1>1, <1>3, <1>4 DEF Outcome
  <2>2. /\ c.command.decision \notin Recorded(log)
        /\ PreparedIsCompatible([body |-> c.command.body, anchors |-> c.anchors,
                                 supersedes |-> c.command.supersedes], policies)
    BY <2>1 DEF RecordOutcome
  <2>3. SupersedesInForce(c.command.body, c.command.supersedes, policies)
    BY <2>2 DEF PreparedIsCompatible
  <2>4. \A p \in policies : p.decision \in inForce
    BY DEF policies, ActivePolicies, PolicyOf
  <2>5. c.command.supersedes \subseteq inForce
    BY <2>3, <2>4 DEF SupersedesInForce
  <2> QED
    BY <1>2, <1>4, <2>2, <2>5 DEF Replays, Event
<1>5. CASE ~IsDecision(c.command)
  <2>1. UndoOutcome(c) = "recorded"
    BY <1>1, <1>3, <1>5 DEF Outcome
  <2>2. c.command.decision \in inForce
    BY <2>1 DEF UndoOutcome
  <2> QED
    BY <1>2, <1>5, <2>2 DEF Replays, Event
<1> QED
  BY <1>4, <1>5

(* Composing a command leaves what was recorded, and it has its type.      *)
LEMMA SendKeeps ==
    ASSUME MemoryInv, NEW path \in Paths, NEW command, NEW anchors,
           command.id \in CommandIds, command.decision \in DecisionIds,
           command.supersedes \subseteq DecisionIds, Send(path, command, anchors)
    PROVE  MemoryInv'
<1> DEFINE new == [path |-> path, command |-> command, anchors |-> anchors, seen |-> inputRevision]
<1>1. sent' = sent \union {new} /\ UNCHANGED <<account, map, log, inForce, receipts>>
  BY DEF Send
<1>2. path \in {"map", "local"}
  BY MemoryAssumption
<1>3. SentEvents \subseteq SentEvents'
  BY <1>1 DEF SentEvents
<1>4. LogIsSent'
  BY <1>1, <1>3 DEF MemoryInv, LogIsSent
<1>5. EventsOf(log)' \subseteq {[command |-> c.command, anchors |-> c.anchors] : c \in sent}'
  BY <1>1, <1>3 DEF MemoryInv, TypeOK, SentEvents
<1>6. \A c \in sent' : /\ c.path \in {"map", "local"}
                       /\ c.command.id \in CommandIds
                       /\ c.command.decision \in DecisionIds
                       /\ c.command.supersedes \subseteq DecisionIds
  BY <1>1, <1>2 DEF MemoryInv, TypeOK
<1>7. TypeOK'
  BY <1>1, <1>5, <1>6 DEF MemoryInv, TypeOK
<1>8. UndoRestores'
  BY <1>1 DEF MemoryInv, UndoRestores, Command, policyRevision
<1>9. /\ Consistent(log)' /\ InForceIsDeclared' /\ ExecutedOnce' /\ ReceiptsTellTheLog'
  BY <1>1 DEF MemoryInv, InForceIsDeclared, ExecutedOnce, ReceiptsTellTheLog
<1> QED
  BY <1>4, <1>7, <1>8, <1>9 DEF MemoryInv

(* An event written: what the log, the decisions in force and the receipts  *)
(* are afterwards.                                                          *)
LEMMA DeliverKeeps ==
    ASSUME MemoryInv, NEW c \in sent, Deliver(c)
    PROVE  MemoryInv'
<1> DEFINE e == Event(c)
<1>1. /\ log' = Append(log, e)
      /\ inForce' = AfterEvent(inForce, log, e)
      /\ UNCHANGED <<account, map, sent>>
  BY DEF Deliver, Written, Event
<1>2. EventFor(c.command.id) = {} /\ Replays(inForce, log, e)
  BY RecordedReplays DEF Deliver
<1>3. e \in SentEvents /\ log \in Seq(SentEvents) /\ SentEvents' = SentEvents
  BY <1>1 DEF MemoryInv, LogIsSent, SentEvents, Event
<1>4. inForce = InForceAfter(log) /\ Consistent(log)
  BY DEF MemoryInv, InForceIsDeclared
<1>5. e.command = c.command
  BY DEF Event
<1> HIDE DEF e
<1>6. EventsOf(log)' = EventsOf(log) \union {e}
  BY <1>1, <1>3, EventsAppended
<1>7. LogIsSent'
  BY <1>1, <1>3 DEF LogIsSent
<1>8. /\ Consistent(log)'
      /\ InForceIsDeclared'
      /\ UndoRestores'
  <2>1. CASE IsDecision(e.command)
    <3>1. /\ Consistent(Append(log, e))
          /\ InForceAfter(Append(log, e)) = AfterEvent(InForceAfter(log), log, e)
          /\ \A u : ~IsDecision(u.command) /\ u.command.decision = e.command.decision =>
               AfterEvent(InForceAfter(Append(log, e)), Append(log, e), u) = InForceAfter(log)
      BY <1>2, <1>3, <1>4, <2>1, DecisionReplays
    <3>2. inForce' = InForceAfter(log')
      BY <1>1, <1>4, <3>1
    <3>3. SubSeq(log', 1, Len(log') - 1) = log /\ log'[Len(log')] = e
      BY <1>1, <1>3
    <3>4. UndoRestores'
      <4> DEFINE u == [command |-> Command("", e.command.decision, Undo(e.command.decision), {})',
                       anchors |-> {}]
      <4>1. ~IsDecision(u.command) /\ u.command.decision = e.command.decision
        BY DEF IsDecision, Command, Undo
      <4>2. AfterEvent(inForce', log', u) = InForceAfter(log)
        BY <1>1, <3>1, <3>2, <4>1
      <4> QED
        BY <3>3, <4>2 DEF UndoRestores
    <3> QED
      BY <1>1, <3>1, <3>2, <3>4 DEF InForceIsDeclared
  <2>2. CASE ~IsDecision(e.command)
    <3>1. /\ Consistent(Append(log, e))
          /\ InForceAfter(Append(log, e)) = AfterEvent(InForceAfter(log), log, e)
      BY <1>2, <1>3, <1>4, <2>2, UndoReplays
    <3>2. log'[Len(log')] = e
      BY <1>1, <1>3
    <3>3. UndoRestores'
      BY <2>2, <3>2 DEF UndoRestores
    <3> QED
      BY <1>1, <1>4, <3>1, <3>3 DEF InForceIsDeclared
  <2> QED
    BY <2>1, <2>2
<1>9. ExecutedOnce'
  <2>1. \A i \in DOMAIN log : log[i].command.id # c.command.id
    BY <1>2 DEF EventFor, EventsOf
  <2>2. /\ DOMAIN log = 1 .. Len(log) /\ DOMAIN log' = 1 .. (Len(log) + 1)
        /\ Len(log) \in Nat
        /\ \A i \in 1 .. Len(log) : log'[i] = log[i]
        /\ log'[Len(log) + 1] = e
    BY <1>1, <1>3
  <2> QED
    BY <1>5, <2>1, <2>2 DEF MemoryInv, ExecutedOnce
<1>10. ReceiptsTellTheLog' /\ DOMAIN receipts' \subseteq CommandIds
  <2>1. c.command.id \in CommandIds /\ DOMAIN receipts \subseteq CommandIds
    BY DEF MemoryInv, TypeOK
  <2>2. CASE c.path = "local"
    <3>1. receipts' = receipts
      BY <2>2 DEF Deliver, Written
    <3> QED
      BY <1>6, <2>1, <3>1 DEF MemoryInv, ReceiptsTellTheLog
  <2>3. CASE c.path # "local"
    <3>1. receipts' = [id \in DOMAIN receipts \union {c.command.id} |->
                         IF id = c.command.id THEN Fingerprint(c) ELSE receipts[id]]
      BY <2>3 DEF Deliver, Written
    <3>2. Fingerprint(c).command = c.command
      BY DEF Fingerprint
    <3>3. DOMAIN receipts' = DOMAIN receipts \union {c.command.id}
      BY <3>1
    <3>4. ASSUME NEW id \in DOMAIN receipts'
          PROVE  \E f \in EventsOf(log') : f.command = receipts'[id].command /\ f.command.id = id
      <4>1. CASE id = c.command.id
        <5>1. receipts'[id].command = c.command
          BY <3>1, <3>2, <3>3, <4>1
        <5> QED
          BY <1>5, <1>6, <4>1, <5>1
      <4>2. CASE id # c.command.id
        <5>1. id \in DOMAIN receipts /\ receipts'[id] = receipts[id]
          BY <3>1, <3>3, <4>2
        <5> QED
          BY <1>6, <5>1 DEF MemoryInv, ReceiptsTellTheLog
      <4> QED
        BY <4>1, <4>2
    <3> QED
      BY <2>1, <3>3, <3>4 DEF ReceiptsTellTheLog
  <2> QED
    BY <2>2, <2>3
<1>11. TypeOK'
  <2>1. EventsOf(log') \subseteq SentEvents
    BY <1>3, <1>6 DEF MemoryInv, TypeOK, SentEvents
  <2>2. inForce' \subseteq DecisionIds
    <3>1. \A f \in SentEvents : f.command.decision \in DecisionIds
      BY DEF MemoryInv, TypeOK, SentEvents
    <3>2. inForce' \subseteq {f.command.decision : f \in EventsOf(log')}
      BY <1>8 DEF InForceIsDeclared, InForceAfter, Recorded, Decisions
    <3> QED
      BY <2>1, <3>1, <3>2
  <2> QED
    BY <1>1, <1>3, <1>10, <2>1, <2>2 DEF MemoryInv, TypeOK, SentEvents
<1> QED
  BY <1>7, <1>8, <1>9, <1>10, <1>11 DEF MemoryInv

(* Nothing was decided in an empty log.                                    *)
LEMMA NothingDecided ==
    ASSUME NEW events, events = <<>>
    PROVE  /\ EventsOf(events) = {} /\ Decisions(events) = {}
           /\ Recorded(events) = {} /\ Undone(events) = {}
           /\ Consistent(events) /\ InForceAfter(events) = {}
<1>1. EventsOf(events) = {}
  BY DEF EventsOf
<1>2. Decisions(events) = {} /\ Recorded(events) = {} /\ Undone(events) = {}
  BY <1>1 DEF Decisions, Recorded, Undone
<1> QED
  BY <1>1, <1>2 DEF Consistent, OneEventPerDecision, UndoneAreRecorded, SupersededAreRecorded,
                    OneSuccessor, InForceAfter

(* An empty memory, as at the beginning and after the account is deleted.  *)
MemoryIsEmpty ==
    /\ account \in BOOLEAN /\ map \in Maps
    /\ log = <<>> /\ inForce = {} /\ receipts = <<>>
    /\ \A c \in sent : /\ c.path \in {"map", "local"}
                       /\ c.command.id \in CommandIds
                       /\ c.command.decision \in DecisionIds
                       /\ c.command.supersedes \subseteq DecisionIds

(* Of an empty memory the invariant holds.                                 *)
LEMMA EmptyMemory == MemoryIsEmpty => MemoryInv
<1> SUFFICES ASSUME MemoryIsEmpty PROVE MemoryInv
  OBVIOUS
<1> USE DEF MemoryIsEmpty
<1>1. /\ EventsOf(log) = {} /\ Consistent(log) /\ InForceAfter(log) = {}
  BY NothingDecided
<1>2. LogIsSent
  BY DEF LogIsSent
<1>3. TypeOK
  BY <1>1 DEF TypeOK
<1>4. InForceIsDeclared /\ ExecutedOnce /\ ReceiptsTellTheLog /\ UndoRestores
  BY <1>1 DEF InForceIsDeclared, ExecutedOnce, ReceiptsTellTheLog, UndoRestores
<1> QED
  BY <1>1, <1>2, <1>3, <1>4 DEF MemoryInv

(* Every step keeps the invariant.                                         *)
LEMMA NextKeeps == MemoryInv /\ [Next]_vars => MemoryInv'
<1> SUFFICES ASSUME MemoryInv, [Next]_vars PROVE MemoryInv'
  OBVIOUS
<1>1. ASSUME NEW path \in Paths, NEW supersedes \in SUBSET inForce,
             ComposeDecision(path, supersedes)
      PROVE  MemoryInv'
  <2>1. PICK body, anchors : \E name \in Names :
           Send(path, Command(name[1], name[2], body, supersedes), anchors)
    BY <1>1 DEF ComposeDecision
  <2>2. PICK name \in Names : Send(path, Command(name[1], name[2], body, supersedes), anchors)
    BY <2>1
  <2>3. name[1] \in CommandIds /\ name[2] \in DecisionIds
    BY MemoryAssumption
  <2>4. supersedes \subseteq DecisionIds
    BY DEF MemoryInv, TypeOK
  <2> QED
    BY <2>2, <2>3, <2>4, SendKeeps DEF Command
<1>2. ASSUME NEW path \in Paths, NEW id \in CommandIds, NEW d \in inForce,
             ComposeUndo(path, id, d)
      PROVE  MemoryInv'
  <2>1. d \in DecisionIds
    BY DEF MemoryInv, TypeOK
  <2> QED
    BY <1>2, <2>1, SendKeeps DEF ComposeUndo, Command
<1>3. ASSUME NEW c \in sent, Deliver(c) PROVE MemoryInv'
  BY <1>3, DeliverKeeps
<1>4. ASSUME NEW new \in Maps, Scan(new) PROVE MemoryInv'
  BY <1>4 DEF Scan, MemoryInv, TypeOK, LogIsSent, SentEvents, InForceIsDeclared, UndoRestores,
              Command, policyRevision, ExecutedOnce, ReceiptsTellTheLog
<1>5. ASSUME DeleteAccount PROVE MemoryInv'
  <2>1. MemoryIsEmpty'
    BY <1>5 DEF DeleteAccount, MemoryIsEmpty, MemoryInv, TypeOK
  <2> QED
    BY <2>1, EmptyMemory, PTL
<1>6. ASSUME UNCHANGED vars PROVE MemoryInv'
  BY <1>6 DEF vars, MemoryInv, TypeOK, LogIsSent, SentEvents, InForceIsDeclared, UndoRestores,
              Command, policyRevision, ExecutedOnce, ReceiptsTellTheLog
<1> QED
  BY <1>1, <1>2, <1>3, <1>4, <1>5, <1>6 DEF Next

-----------------------------------------------------------------------------
(***************************************************************************)
(* Theorems                                                                *)
(***************************************************************************)

(* The inductive invariant: the log is of sent commands, its decisions are *)
(* unique, those named by undos and replacements are recorded, and no two  *)
(* that stand replace the same one.                                        *)
THEOREM MemoryCorrect == Spec => []MemoryInv
<1>1. Init => MemoryInv
  BY EmptyMemory DEF Init, MemoryIsEmpty
<1>2. MemoryInv /\ [Next]_vars => MemoryInv'
  BY NextKeeps
<1> QED
  BY <1>1, <1>2, PTL DEF Spec

(* Every variable keeps its shape, and the log is of sent commands.        *)
THEOREM TypeCorrect == Spec => []TypeOK
<1>1. MemoryInv => TypeOK
  BY DEF MemoryInv
<1> QED
  BY <1>1, MemoryCorrect, PTL

(* The loop that replays the log, one event after the other with its       *)
(* revivals, gives the decisions neither taken back nor superseded by one  *)
(* that stands (repository.py _active_policies_from_events).               *)
THEOREM ReplayCorrect == Spec => []InForceIsDeclared
<1>1. MemoryInv => InForceIsDeclared
  BY DEF MemoryInv
<1> QED
  BY <1>1, MemoryCorrect, PTL

(* Taking back the decision just made restores what was in force before it. *)
THEOREM UndoCorrect == Spec => []UndoRestores
<1>1. MemoryInv => UndoRestores
  BY DEF MemoryInv
<1> QED
  BY <1>1, MemoryCorrect, PTL

(* A command is carried out at most once, over either path and both.       *)
THEOREM ExecutionCorrect == Spec => []ExecutedOnce
<1>1. MemoryInv => ExecutedOnce
  BY DEF MemoryInv
<1> QED
  BY <1>1, MemoryCorrect, PTL

(* A receipt is of an event of the log: a retry is never told it is corrupt. *)
THEOREM ReceiptsCorrect == Spec => []ReceiptsTellTheLog
<1>1. MemoryInv => ReceiptsTellTheLog
  BY DEF MemoryInv
<1> QED
  BY <1>1, MemoryCorrect, PTL

(* What a step writes to the log, if anything.                             *)
LEMMA StepOfLog ==
    ASSUME MemoryInv, [Next]_vars
    PROVE  \/ log' = log
           \/ log' = <<>>
           \/ \E c \in sent : /\ Replays(inForce, log, Event(c))
                              /\ log' = Append(log, Event(c))
<1>1. ASSUME NEW path \in Paths, NEW supersedes \in SUBSET inForce,
             ComposeDecision(path, supersedes)
      PROVE  log' = log
  BY <1>1 DEF ComposeDecision, Send
<1>2. ASSUME NEW path \in Paths, NEW id \in CommandIds, NEW d \in inForce,
             ComposeUndo(path, id, d)
      PROVE  log' = log
  BY <1>2 DEF ComposeUndo, Send
<1>3. ASSUME NEW c \in sent, Deliver(c)
      PROVE  Replays(inForce, log, Event(c)) /\ log' = Append(log, Event(c))
  BY <1>3, RecordedReplays DEF Deliver, Written, Event
<1>4. ASSUME NEW new \in Maps, Scan(new) PROVE log' = log
  BY <1>4 DEF Scan
<1>5. ASSUME DeleteAccount PROVE log' = <<>>
  BY <1>5 DEF DeleteAccount
<1>6. ASSUME UNCHANGED vars PROVE log' = log
  BY <1>6 DEF vars
<1> QED
  BY <1>1, <1>2, <1>3, <1>4, <1>5, <1>6 DEF Next

(* A log the repository wrote always replays.                              *)
THEOREM LogCorrect == Spec => LogReplays
<1>1. MemoryInv /\ [Next]_vars =>
         [Len(log') > Len(log) => Replays(inForce, log, log'[Len(log')])]_vars
  <2> SUFFICES ASSUME MemoryInv, [Next]_vars, Len(log') > Len(log)
               PROVE  Replays(inForce, log, log'[Len(log')])
    OBVIOUS
  <2>1. log \in Seq(SentEvents) /\ Len(log) \in Nat
    BY DEF MemoryInv, LogIsSent
  <2>2. log' # log /\ log' # <<>>
    BY <2>1
  <2>3. PICK c \in sent : Replays(inForce, log, Event(c)) /\ log' = Append(log, Event(c))
    BY <2>2, StepOfLog
  <2>4. Event(c) \in SentEvents
    BY DEF Event, SentEvents
  <2>5. log'[Len(log')] = Event(c)
    BY <2>1, <2>3, <2>4
  <2> QED
    BY <2>3, <2>5
<1> QED
  BY <1>1, MemoryCorrect, PTL DEF Spec, LogReplays

(* What a command must find to be answered as carried out.                 *)
CarriedOut(c) ==
    /\ EventFor(c.command.id) # {}
    /\ c.path = "map" => /\ c.command.id \in DOMAIN receipts
                         /\ receipts[c.command.id] = Fingerprint(c)
    /\ c.path # "map" => \A e \in EventFor(c.command.id) : e.command = c.command

AnswersAreSound == \A c \in sent : Outcome(c) = "replayed" <=> CarriedOut(c)

(* It is answered so when it finds this, and only then.                    *)
LEMMA AnsweredIsCarriedOut == MemoryInv => AnswersAreSound
<1> SUFFICES ASSUME MemoryInv, NEW c \in sent PROVE Outcome(c) = "replayed" <=> CarriedOut(c)
  BY DEF AnswersAreSound
<1>1. Outcome(c) = "replayed" <=> ReplayOutcome(c) = "replayed"
  <2>1. SnapshotOutcome(c) # "replayed"
    BY DEF SnapshotOutcome
  <2>2. RecordOutcome(c) # "replayed" /\ UndoOutcome(c) # "replayed"
    BY DEF RecordOutcome, UndoOutcome
  <2> QED
    BY <2>1, <2>2 DEF Outcome
<1>2. c.command.id \in DOMAIN receipts => EventFor(c.command.id) # {}
  BY DEF MemoryInv, ReceiptsTellTheLog, EventFor
<1>3. ReplayOutcome(c) = "replayed" <=> CarriedOut(c)
  BY <1>2 DEF ReplayOutcome, CarriedOut
<1> QED
  BY <1>1, <1>3

(* A command that is carried out finds its event and its receipt.          *)
LEMMA DeliveredIsCarriedOut ==
    ASSUME MemoryInv, NEW c \in sent, Deliver(c)
    PROVE  CarriedOut(c)'
<1>1. EventFor(c.command.id) = {} /\ Event(c) \in SentEvents /\ log \in Seq(SentEvents)
  BY RecordedReplays DEF Deliver, Event, SentEvents, MemoryInv, LogIsSent
<1>2. log' = Append(log, Event(c)) /\ Event(c).command = c.command
  BY DEF Deliver, Written, Event
<1>3. EventsOf(log') = EventsOf(log) \union {Event(c)}
  BY <1>1, <1>2, EventsAppended
<1>4. EventFor(c.command.id)' = {Event(c)}
  BY <1>1, <1>2, <1>3 DEF EventFor
<1>5. c.path = "map" => /\ c.command.id \in DOMAIN receipts'
                        /\ receipts'[c.command.id] = Fingerprint(c)
  BY DEF Deliver, Written
<1> QED
  BY <1>2, <1>4, <1>5 DEF CarriedOut, Fingerprint

(* What another command writes leaves them.                                *)
LEMMA CarriedOutStays ==
    ASSUME MemoryInv, NEW c \in sent, CarriedOut(c), NEW d \in sent, Deliver(d)
    PROVE  CarriedOut(c)'
<1>1. EventFor(d.command.id) = {} /\ Event(d) \in SentEvents /\ log \in Seq(SentEvents)
  BY RecordedReplays DEF Deliver, Event, SentEvents, MemoryInv, LogIsSent
<1>2. log' = Append(log, Event(d)) /\ Event(d).command = d.command
  BY DEF Deliver, Written, Event
<1>3. EventsOf(log') = EventsOf(log) \union {Event(d)}
  BY <1>1, <1>2, EventsAppended
<1>4. c.command.id # d.command.id
  BY <1>1 DEF CarriedOut
<1>5. EventFor(c.command.id)' = EventFor(c.command.id)
  BY <1>2, <1>3, <1>4 DEF EventFor
<1>6. c.command.id \in DOMAIN receipts =>
         c.command.id \in DOMAIN receipts' /\ receipts'[c.command.id] = receipts[c.command.id]
  BY <1>4 DEF Deliver, Written
<1> QED
  BY <1>5, <1>6 DEF CarriedOut, Fingerprint

(* A command carried out once is answered so ever after, as long as there  *)
(* is an account.                                                          *)
LEMMA StepOfRetry ==
    ASSUME MemoryInv, [Next]_vars, account', NEW c \in sent, Deliver(c) \/ Outcome(c) = "replayed"
    PROVE  Outcome(c)' = "replayed"
<1>1. AnswersAreSound /\ AnswersAreSound'
  BY NextKeeps, AnsweredIsCarriedOut, PTL
<1>2. sent \subseteq sent'
  BY DEF Next, ComposeDecision, ComposeUndo, Send, Deliver, Scan, DeleteAccount, vars
<1>3. CarriedOut(c)'
  <2>1. CASE Deliver(c)
    BY <2>1, DeliveredIsCarriedOut
  <2>2. CASE Outcome(c) = "replayed"
    <3>1. CarriedOut(c)
      BY <1>1, <2>2 DEF AnswersAreSound
    <3>2. ASSUME NEW d \in sent, Deliver(d) PROVE CarriedOut(c)'
      BY <3>1, <3>2, CarriedOutStays
    <3>3. ASSUME log' = log, receipts' = receipts PROVE CarriedOut(c)'
      BY <3>1, <3>3 DEF CarriedOut, EventFor, Fingerprint
    <3>4. ~DeleteAccount
      BY DEF DeleteAccount
    <3> QED
      BY <3>2, <3>3, <3>4 DEF Next, ComposeDecision, ComposeUndo, Send, Scan, vars
  <2> QED
    BY <2>1, <2>2
<1> QED
  BY <1>1, <1>2, <1>3 DEF AnswersAreSound

(* A command that was carried out is answered as such whenever it arrives  *)
(* again over its path, until the account goes.                            *)
THEOREM RetryCorrect == Spec => RetryIsReplayed
<1>1. MemoryInv /\ [Next]_vars =>
         [\A c \in sent : (Deliver(c) \/ Outcome(c) = "replayed") /\ account'
                              => Outcome(c)' = "replayed"]_vars
  BY StepOfRetry
<1> QED
  BY <1>1, MemoryCorrect, PTL DEF Spec, RetryIsReplayed

(* What the log is read as, and what is in force by the promise.           *)
LEMMA PromiseReads ==
    /\ Promise!Ids = Recorded(log)
    /\ Promise!InForce = InForceAfter(log)
<1> DEFINE Read(x) == [decision |-> x.command.decision, supersedes |-> x.command.supersedes]
<1>1. \A x : Read(x).decision = x.command.decision /\ Read(x).supersedes = x.command.supersedes
  OBVIOUS
<1> HIDE DEF Read
<1>2. {e.decision : e \in {Read(x) : x \in Decisions(log)}} = Recorded(log)
  BY <1>1 DEF Recorded
<1>3. ASSUME NEW d
      PROVE  (\A e \in {Read(x) : x \in Decisions(log)} :
                 d \in e.supersedes => e.decision \in Undone(log))
             <=> \A x \in Decisions(log) :
                    d \in x.command.supersedes => x.command.decision \in Undone(log)
  BY <1>1
<1>4. Promise!Ids = Recorded(log)
  BY <1>2 DEF Promise!Ids, Read
<1>5. Promise!InForce = {d \in Recorded(log) \ Undone(log) :
                           \A e \in {Read(x) : x \in Decisions(log)} :
                              d \in e.supersedes => e.decision \in Undone(log)}
  BY <1>4 DEF Promise!InForce, Read
<1> QED
  BY <1>3, <1>4, <1>5 DEF InForceAfter

(* The log implements the promise of the decisions in force: each step     *)
(* records one, takes one back, forgets them all or leaves them.           *)
THEOREM PromiseCorrect == Spec => KeepsThePromise
<1>1. Init => Promise!Init
  <2>1. log = <<>> => Decisions(log) = {} /\ Undone(log) = {}
    BY NothingDecided
  <2> QED
    BY <2>1 DEF Init, Promise!Init
<1>2. MemoryInv /\ [Next]_vars => [Promise!Next]_(Promise!vars)
  <2> SUFFICES ASSUME MemoryInv, [Next]_vars PROVE [Promise!Next]_(Promise!vars)
    OBVIOUS
  <2>1. CASE log' = log
    BY <2>1 DEF Promise!vars
  <2>2. CASE log' = <<>>
    <3>1. Decisions(log') = {} /\ Undone(log') = {}
      BY <2>2, NothingDecided
    <3> QED
      BY <3>1 DEF Promise!Next, Promise!Forget
  <2>3. ASSUME NEW c \in sent, Replays(inForce, log, Event(c)), log' = Append(log, Event(c))
        PROVE  Promise!Next
    <3>1. log \in Seq(SentEvents) /\ Event(c) \in SentEvents /\ Event(c).command = c.command
      BY DEF MemoryInv, LogIsSent, Event, SentEvents
    <3>2. /\ c.command.decision \in DecisionIds
          /\ c.command.supersedes \subseteq DecisionIds
      BY DEF MemoryInv, TypeOK
    <3>3. inForce = Promise!InForce
      BY PromiseReads DEF MemoryInv, InForceIsDeclared
    <3>4. CASE IsDecision(c.command)
      <4>1. /\ Decisions(log') = Decisions(log) \union {Event(c)}
            /\ Undone(log') = Undone(log)
        BY <2>3, <3>1, <3>4, DecisionAppended
      <4>2. c.command.decision \notin Promise!Ids /\ c.command.supersedes \subseteq Promise!InForce
        BY <2>3, <3>1, <3>3, <3>4, PromiseReads DEF Replays
      <4>3. {[decision |-> x.command.decision, supersedes |-> x.command.supersedes]
               : x \in Decisions(log')}
            = {[decision |-> x.command.decision, supersedes |-> x.command.supersedes]
                 : x \in Decisions(log)}
              \union {[decision |-> c.command.decision, supersedes |-> c.command.supersedes]}
        BY <3>1, <4>1
      <4>4. Promise!Record(c.command.decision, c.command.supersedes)
        BY <4>1, <4>2, <4>3 DEF Promise!Record
      <4> QED
        BY <3>2, <4>4 DEF Promise!Next
    <3>5. CASE ~IsDecision(c.command)
      <4>1. /\ Decisions(log') = Decisions(log)
            /\ Undone(log') = Undone(log) \union {c.command.decision}
        BY <2>3, <3>1, <3>5, UndoAppended
      <4>2. c.command.decision \in Promise!InForce
        BY <2>3, <3>1, <3>3, <3>5 DEF Replays
      <4>3. Promise!TakeBack(c.command.decision)
        BY <4>1, <4>2 DEF Promise!TakeBack
      <4> QED
        BY <3>2, <4>3 DEF Promise!Next
    <3> QED
      BY <3>4, <3>5
  <2> QED
    BY <2>1, <2>2, <2>3, StepOfLog
<1> QED
  BY <1>1, <1>2, MemoryCorrect, PTL DEF Spec, KeepsThePromise, Promise!Spec

-----------------------------------------------------------------------------
(***************************************************************************)
(* What was prepared and what is in force. Whatever a client may send was  *)
(* prepared on what it had seen, and has the shape of a policy; so has     *)
(* every policy in force, and the lemmas of PolicyRulesProofs apply.       *)
(***************************************************************************)

(* The view a command was prepared on, and that it was in order there.     *)
PoliciesSeen(c) == ActivePolicies(c.seen.log, InForceAfter(c.seen.log))
ViewSeen(c) ==
    ApplyLocalPolicies(c.seen.map, Remaining(PoliciesSeen(c), c.command.supersedes))
AsSeen(c) ==
    /\ c.anchors = PreparedAnchors(c.seen.map, ViewSeen(c), c.command.body)
    /\ PreparePolicyOutcome(c.seen.map, ViewSeen(c), PoliciesSeen(c), c.command.body,
                            c.command.supersedes) = "prepared"

ShapeOK(c) == BodyShape(c.command.body) /\ DecisionOK(c.command.body, c.anchors)

SentPrepared == \A c \in sent : IsDecision(c.command) => ShapeOK(c) /\ AsSeen(c)

PreparedInv == MemoryInv /\ SentPrepared

(* Fewer policies are as well formed.                                      *)
LEMMA FewerPoliciesOK ==
    ASSUME NEW P, PoliciesOK(P), NEW Q, Q \subseteq P
    PROVE  PoliciesOK(Q)
BY DEF PoliciesOK

(* The policies of a consistent log are those of commands sent.            *)
LEMMA PoliciesAreOK ==
    ASSUME PreparedInv, NEW D
    PROVE  PoliciesOK(ActivePolicies(log, D))
<1> DEFINE P == ActivePolicies(log, D)
<1>1. \A p \in P : \E e \in Decisions(log) :
         p = PolicyOf(e) /\ p.decision = e.command.decision
         /\ p.body = e.command.body /\ p.anchors = e.anchors
  BY DEF ActivePolicies, PolicyOf
<1>2. ASSUME NEW e \in Decisions(log) PROVE DecisionOK(e.command.body, e.anchors)
  <2>1. e \in EventsOf(log) /\ IsDecision(e.command)
    BY DEF Decisions
  <2>2. PICK c \in sent : e = [command |-> c.command, anchors |-> c.anchors]
    BY <2>1 DEF PreparedInv, MemoryInv, TypeOK
  <2>3. e.command = c.command /\ e.anchors = c.anchors
    BY <2>2
  <2> QED
    BY <2>1, <2>3 DEF PreparedInv, SentPrepared, ShapeOK
<1>3. OneEventPerDecision(log)
  BY DEF PreparedInv, MemoryInv, Consistent
<1> HIDE DEF P
<1>4. \A p \in P : DecisionOK(p.body, p.anchors)
  BY <1>1, <1>2
<1>5. \A p, q \in P : p.decision = q.decision => p = q
  BY <1>1, <1>3 DEF OneEventPerDecision
<1> QED
  BY <1>4, <1>5 DEF PoliciesOK, P

LEMMA InForceAreOK ==
    ASSUME PreparedInv
    PROVE  /\ IsMap(map) /\ PoliciesOK(policies)
           /\ \A supersedes : PoliciesOK(Remaining(policies, supersedes))
<1>1. IsMap(map)
  BY MemoryAssumption DEF PreparedInv, MemoryInv, TypeOK
<1>2. PoliciesOK(policies)
  BY PoliciesAreOK DEF policies
<1>3. \A supersedes : Remaining(policies, supersedes) \subseteq policies
  BY DEF Remaining
<1> QED
  BY <1>1, <1>2, <1>3, FewerPoliciesOK

(* The image of a finite set is finite.                                    *)
LEMMA ImageIsFinite ==
    ASSUME NEW S, IsFiniteSet(S), NEW f, DOMAIN f = S, f = [x \in S |-> f[x]]
    PROVE  IsFiniteSet({f[x] : x \in S})
<1> DEFINE T == {f[x] : x \in S}
<1>1. f \in Surjection(S, T)
  BY DEF Surjection
<1> QED
  BY <1>1, FS_Surjection

(* Groups of the senders, or of the flows, of an automatic source.         *)
LEMMA GroupingsFit ==
    ASSUME IsMap(map), NEW e \in BaselineSources(map), NEW groups,
           groups \in Groupings(SenderAnchors(e)) \union Groupings(FlowAnchors(e))
    PROVE  /\ IsFiniteSet(UNION groups) /\ {} \notin groups
           /\ \A g, h \in groups : g = h \/ g \intersect h = {}
           /\ \A a \in UNION groups : /\ a.kind \in {"sender", "flow_anchor"}
                                      /\ a.kind = "sender" => a.of \in UNION e.selector.sources
<1>1. PICK S : /\ e.selector = Automatic(S)
               /\ e.messages = {m \in map.rows : map.sender[m] \in S}
  BY BaseReads
<1>2. UNION e.selector.sources = S
  BY <1>1 DEF Automatic
<1>3. IsFiniteSet(e.messages)
  BY <1>1, FS_Subset DEF IsMap
<1>4. /\ UNION groups = SenderAnchors(e) \/ UNION groups = FlowAnchors(e)
      /\ {} \notin groups
      /\ \A g, h \in groups : g = h \/ g \intersect h = {}
  BY DEF Groupings
<1>5. IsFiniteSet(SenderAnchors(e))
  <2> DEFINE f == [m \in e.messages |-> [kind |-> "sender", of |-> map.sender[m]]]
  <2>1. SenderAnchors(e) = {f[m] : m \in e.messages}
    BY DEF SenderAnchors
  <2>2. DOMAIN f = e.messages /\ f = [m \in e.messages |-> f[m]]
    OBVIOUS
  <2> HIDE DEF f
  <2> QED
    BY <1>3, <2>1, <2>2, ImageIsFinite
<1>6. IsFiniteSet(FlowAnchors(e))
  <2> DEFINE f == [m \in e.messages |-> [kind |-> "flow_anchor", of |-> FlowOf(map, m)]]
  <2>1. FlowAnchors(e) = {f[m] : m \in e.messages}
    BY DEF FlowAnchors
  <2>2. DOMAIN f = e.messages /\ f = [m \in e.messages |-> f[m]]
    OBVIOUS
  <2> HIDE DEF f
  <2> QED
    BY <1>3, <2>1, <2>2, ImageIsFinite
<1>7. \A a \in SenderAnchors(e) : a.kind = "sender" /\ a.of \in S
  BY <1>1 DEF SenderAnchors
<1>8. \A a \in FlowAnchors(e) : a.kind = "flow_anchor"
  BY DEF FlowAnchors
<1> QED
  BY <1>2, <1>4, <1>5, <1>6, <1>7, <1>8

(* The sources of a map are finitely many, each with messages of its own.  *)
LEMMA BaseIsFinite ==
    ASSUME NEW M, IsMap(M)
    PROVE  IsFiniteSet(BaselineSources(M))
<1> DEFINE X == BaselineSources(M)
           f == [x \in X |-> x.messages]
<1>1. \A x \in X : x.messages \in SUBSET M.rows /\ x.messages # {}
  BY BaseReads
<1>2. \A x, y \in X : x.messages = y.messages => x = y
  BY <1>1, BaseIsOne
<1> HIDE DEF X
<1>3. f \in Injection(X, SUBSET M.rows)
  BY <1>1, <1>2 DEF Injection, IsInjective
<1>4. IsFiniteSet(SUBSET M.rows)
  BY FS_SUBSET DEF IsMap
<1> HIDE DEF f
<1> QED
  BY <1>3, <1>4, FS_Injection DEF X

(* Two or more sources have two or more selectors.                         *)
LEMMA SelectorsOfMany ==
    ASSUME NEW M, IsMap(M), NEW es \in SUBSET BaselineSources(M), Cardinality(es) > 1
    PROVE  Cardinality({e.selector : e \in es}) > 1
<1> DEFINE f == [e \in es |-> e.selector]
           T == {e.selector : e \in es}
<1>1. IsFiniteSet(es)
  BY BaseIsFinite, FS_Subset
<1>2. \A d, e \in es : d.selector = e.selector => d = e
  BY BaseIsOne
<1>3. f \in Surjection(es, T)
  BY DEF Surjection
<1>4. f \in Injection(es, T)
  BY <1>2 DEF Injection, IsInjective
<1> HIDE DEF f, T
<1>5. Cardinality(T) = Cardinality(es)
  BY <1>1, <1>3, <1>4, FS_Surjection
<1> QED
  BY <1>5 DEF T

(* What a client may decide about a view has the shape it should.          *)
LEMMA BodiesHaveShape ==
    ASSUME IsMap(map), NEW Q, PoliciesOK(Q), NEW body \in Bodies(ApplyLocalPolicies(map, Q))
    PROVE  BodyShape(body)
<1> DEFINE V == ApplyLocalPolicies(map, Q)
           automatic == {e \in V.sources : e.selector.kind = "automatic"}
           selectors == {e.selector : e \in V.sources}
           merges == {MergeSources({e.selector : e \in es}) :
                        es \in {x \in SUBSET automatic : Cardinality(x) > 1}}
           Partitions(e) == {PartitionSource(e.selector, gs) :
                               gs \in Groupings(SenderAnchors(e)) \union Groupings(FlowAnchors(e))}
           targets == UNION {ProtectionTargets(kind, V) : kind \in Protectable}
<1>1. \/ \E f \in SourceFields, s \in selectors : body = Correction(f, s)
      \/ \E f \in FlowFields, x \in V.flows : body = Correction(f, x.selector)
      \/ body \in merges
      \/ \E e \in automatic : body \in Partitions(e)
      \/ \E s \in targets : body = ProtectTarget(s)
  <2> DEFINE first == {Correction(f, s) : f \in SourceFields, s \in selectors}
             second == {Correction(f, x.selector) : f \in FlowFields, x \in V.flows}
             parts == UNION {Partitions(e) : e \in automatic}
             protections == {ProtectTarget(s) : s \in targets}
  <2>1. Bodies(V) = first \union second \union merges \union parts \union protections
    BY DEF Bodies
  <2>2. body \in Bodies(V)
    OBVIOUS
  <2>3. /\ body \in first => \E f \in SourceFields, s \in selectors : body = Correction(f, s)
        /\ body \in second => \E f \in FlowFields, x \in V.flows : body = Correction(f, x.selector)
        /\ body \in protections => \E s \in targets : body = ProtectTarget(s)
    OBVIOUS
  <2>4. body \in parts => \E e \in automatic : body \in Partitions(e)
    <3> HIDE DEF Partitions, automatic
    <3> QED
      OBVIOUS
  <2> HIDE DEF first, second, merges, parts, protections, automatic, selectors, Partitions, targets, V
  <2> QED
    BY <2>1, <2>2, <2>3, <2>4
<1>2. \A e \in V.sources : /\ IsSourceSelector(e.selector) /\ PartsAreOwn(e.selector)
                           /\ e.selector.kind = "automatic" => e \in BaselineSources(map)
  <2>1. V.sources = SourcesGiven(map, Q)
    BY ViewReads
  <2> HIDE DEF V
  <2> QED
    BY <2>1, SourcesParted DEF SourceShape
<1>3. \A f \in V.flows : f.selector.kind = "flow" /\ PartsAreOwn(f.selector)
  <2>1. V.flows = FlowsGiven(map, Q)
    BY ViewReads
  <2> HIDE DEF V
  <2> QED
    BY <2>1, HoldersRead DEF PartsAreOwn
<1>4. ASSUME NEW e \in automatic
      PROVE  e \in BaselineSources(map) /\ IsAutomatic(e.selector)
  <2>1. e \in BaselineSources(map)
    BY <1>2
  <2>2. PICK S : S # {} /\ e.selector = Automatic(S)
    BY <2>1, BaseReads
  <2> QED
    BY <2>1, <2>2, AutomaticReads DEF IsAutomatic
<1> HIDE DEF V
<1>5. ASSUME NEW f \in SourceFields, NEW s \in selectors, body = Correction(f, s)
      PROVE  BodyShape(body)
  <2>1. IsSourceSelector(s) /\ PartsAreOwn(s)
    BY <1>2
  <2>2. body.kind = f /\ body.target = s
    BY <1>5 DEF Correction
  <2> QED
    BY <2>1, <2>2 DEF BodyShape, IsStructural, CorrectionFields, SourceFields, FlowFields
<1>6. ASSUME NEW f \in FlowFields, NEW x \in V.flows, body = Correction(f, x.selector)
      PROVE  BodyShape(body)
  <2>1. x.selector.kind = "flow" /\ PartsAreOwn(x.selector)
    BY <1>3
  <2>2. body.kind = f /\ body.target = x.selector
    BY <1>6 DEF Correction
  <2> QED
    BY <2>1, <2>2 DEF BodyShape, IsStructural, CorrectionFields, SourceFields, FlowFields
<1>7. ASSUME body \in merges PROVE BodyShape(body)
  <2>1. PICK es \in SUBSET automatic : /\ Cardinality(es) > 1
                                       /\ body = MergeSources({e.selector : e \in es})
    BY <1>7
  <2>2. es # {}
    BY <2>1, FS_EmptySet
  <2>3. body.kind = "merge" /\ body.participants = {e.selector : e \in es}
    BY <2>1 DEF MergeSources
  <2>4. es \in SUBSET BaselineSources(map)
    BY <1>4
  <2>5. Cardinality(body.participants) > 1
    BY <2>1, <2>3, <2>4, SelectorsOfMany
  <2> QED
    BY <1>4, <2>1, <2>2, <2>3, <2>5 DEF BodyShape, IsStructural
<1>8. ASSUME NEW e \in automatic, body \in Partitions(e) PROVE BodyShape(body)
  <2>1. PICK gs \in Groupings(SenderAnchors(e)) \union Groupings(FlowAnchors(e)) :
           body = PartitionSource(e.selector, gs)
    BY <1>8
  <2>2. body.kind = "partition" /\ body.participants = {e.selector} /\ body.groups = gs
    BY <2>1 DEF PartitionSource
  <2>3. e \in BaselineSources(map) /\ IsAutomatic(e.selector)
    BY <1>4
  <2>4. /\ IsFiniteSet(UNION gs) /\ {} \notin gs
        /\ \A g, h \in gs : g = h \/ g \intersect h = {}
        /\ \A a \in UNION gs : /\ a.kind \in {"sender", "flow_anchor"}
                               /\ a.kind = "sender" => a.of \in UNION e.selector.sources
    BY <2>3, GroupingsFit
  <2> HIDE DEF automatic
  <2>5. GroupsOK(body, {})
    BY <2>2, <2>4 DEF GroupsOK
  <2> QED
    BY <2>2, <2>3, <2>4, <2>5 DEF BodyShape, IsStructural
<1>9. ASSUME NEW s \in targets, body = ProtectTarget(s) PROVE BodyShape(body)
  <2>1. PICK kind \in {"source", "flow", "message", "sender"} : s \in ProtectionTargets(kind, V)
    BY MemoryAssumption
  <2>2. /\ IsSourceSelector(s) \/ s.kind \in {"flow", "message", "sender"}
        /\ PartsAreOwn(s)
    <3>1. CASE kind = "source"
      BY <1>2, <2>1, <3>1 DEF ProtectionTargets
    <3>2. CASE kind = "flow"
      BY <1>3, <2>1, <3>2 DEF ProtectionTargets
    <3>3. CASE kind = "message"
      BY <2>1, <3>3 DEF ProtectionTargets, PartsAreOwn
    <3>4. CASE kind = "sender"
      BY <2>1, <3>4 DEF ProtectionTargets, PartsAreOwn
    <3> QED
      BY <3>1, <3>2, <3>3, <3>4
  <2>3. body.kind = "protect" /\ body.target = s
    BY <1>9 DEF ProtectTarget
  <2> QED
    BY <2>2, <2>3 DEF BodyShape, IsStructural, CorrectionFields, SourceFields, FlowFields
<1> QED
  BY <1>1, <1>5, <1>6, <1>7, <1>8, <1>9

(* What is composed is prepared on what the client sees.                   *)
LEMMA ComposedIsPrepared ==
    ASSUME PreparedInv, NEW path \in Paths, NEW supersedes \in SUBSET inForce,
           ComposeDecision(path, supersedes)
    PROVE  \E c : sent' = sent \union {c} /\ ShapeOK(c) /\ AsSeen(c)
<1> DEFINE R == Remaining(policies, supersedes)
           V == ApplyLocalPolicies(map, R)
<1>1. PICK body \in BodiesOffered(path, V, supersedes) : \E name \in Names :
         Send(path, Command(name[1], name[2], body, supersedes), PreparedAnchors(map, V, body))
  BY DEF ComposeDecision, ViewWithout
<1>2. PICK name \in Names :
         Send(path, Command(name[1], name[2], body, supersedes), PreparedAnchors(map, V, body))
  BY <1>1
<1> DEFINE c == [path |-> path, command |-> Command(name[1], name[2], body, supersedes),
                 anchors |-> PreparedAnchors(map, V, body), seen |-> inputRevision]
<1>3. sent' = sent \union {c}
  BY <1>2 DEF Send
<1>4. /\ c.command.body = body /\ c.command.supersedes = supersedes
      /\ c.anchors = PreparedAnchors(map, V, body)
      /\ c.seen.map = map /\ c.seen.log = log
  BY DEF Command, inputRevision
<1>5. PreparePolicyOutcome(map, V, policies, body, supersedes) = "prepared"
  BY <1>1 DEF BodiesOffered
<1>6. BodyShape(body)
  <2>1. body \in Bodies(ApplyLocalPolicies(map, IF path = "map" THEN policies ELSE R))
    BY <1>1 DEF BodiesOffered, View
  <2> DEFINE Q == IF path = "map" THEN policies ELSE R
  <2>2. PoliciesOK(Q) /\ IsMap(map)
    BY InForceAreOK
  <2> HIDE DEF Q
  <2>3. body \in Bodies(ApplyLocalPolicies(map, Q))
    BY <2>1 DEF Q
  <2> QED
    BY <2>2, <2>3, BodiesHaveShape
<1>7. TargetFound(map, V, body)
  BY <1>5 DEF PreparePolicyOutcome
<1>8. DecisionOK(body, PreparedAnchors(map, V, body))
  BY <1>6, <1>7, InForceAreOK, PreparedOK
<1> HIDE DEF c
<1>9. ShapeOK(c)
  BY <1>4, <1>6, <1>8 DEF ShapeOK
<1>10. PoliciesSeen(c) = policies
  BY <1>4 DEF PreparedInv, MemoryInv, InForceIsDeclared, PoliciesSeen, policies
<1>11. ViewSeen(c) = V
  BY <1>4, <1>10 DEF ViewSeen
<1>12. AsSeen(c)
  BY <1>4, <1>5, <1>10, <1>11 DEF AsSeen
<1> QED
  BY <1>3, <1>9, <1>12

LEMMA PreparedKeeps == PreparedInv /\ [Next]_vars => PreparedInv'
<1> SUFFICES ASSUME PreparedInv, [Next]_vars PROVE SentPrepared'
  BY NextKeeps DEF PreparedInv
<1>1. CASE sent' = sent
  BY <1>1 DEF PreparedInv, SentPrepared
<1>2. ASSUME NEW path \in Paths, NEW supersedes \in SUBSET inForce,
             ComposeDecision(path, supersedes)
      PROVE  SentPrepared'
  BY <1>2, ComposedIsPrepared DEF PreparedInv, SentPrepared
<1>3. ASSUME NEW path \in Paths, NEW id \in CommandIds, NEW d \in inForce,
             ComposeUndo(path, id, d)
      PROVE  SentPrepared'
  <2> DEFINE c == [path |-> path, command |-> Command(id, d, Undo(d), {}), anchors |-> {},
                   seen |-> inputRevision]
  <2>1. sent' = sent \union {c}
    BY <1>3 DEF ComposeUndo, Send
  <2>2. c.command = Command(id, d, Undo(d), {})
    OBVIOUS
  <2>3. ~IsDecision(c.command)
    BY <2>2 DEF Command, Undo, IsDecision
  <2> HIDE DEF c
  <2> QED
    BY <2>1, <2>3 DEF PreparedInv, SentPrepared
<1>4. ASSUME NEW c \in sent, Deliver(c) PROVE sent' = sent
  BY <1>4 DEF Deliver
<1>5. ASSUME NEW new \in Maps, Scan(new) PROVE sent' = sent
  BY <1>5 DEF Scan
<1>6. DeleteAccount => sent' = sent
  BY DEF DeleteAccount
<1>7. UNCHANGED vars => sent' = sent
  BY DEF vars
<1> QED
  BY <1>1, <1>2, <1>3, <1>4, <1>5, <1>6, <1>7 DEF Next

(* Every command sent was prepared in order on what its client had seen,   *)
(* and has the shape of what it decides (prepare_policy_decision).         *)
THEOREM PreparedCorrect == Spec => []PreparedInv
<1>1. Init => PreparedInv
  BY EmptyMemory DEF Init, MemoryIsEmpty, PreparedInv, SentPrepared
<1>2. PreparedInv /\ [Next]_vars => PreparedInv'
  BY PreparedKeeps
<1> QED
  BY <1>1, <1>2, PTL DEF Spec

-----------------------------------------------------------------------------
(* The map is shown whatever is in force: the decisions apply without      *)
(* error, every message is in one source and one flow, none is empty       *)
(* (PolicyApplicationResult, MapProjection).                               *)
THEOREM ViewCorrect == Spec => []ViewIsComplete
<1>1. PreparedInv => ViewIsComplete
  BY InForceAreOK, EveryViewIsComplete DEF ViewIsComplete, View
<1> QED
  BY <1>1, PreparedCorrect, PTL

(* A decision about a merged source or a part of one applies only while    *)
(* the merge or the partition it was made on is in force.                  *)
THEOREM ContextCorrect == Spec => []ContextGoneIsNotApplied
<1>1. PreparedInv => ContextGoneIsNotApplied
  <2> SUFFICES ASSUME PreparedInv, NEW p \in policies, Applies(BindingOf(View, p.decision)),
                      NEW a \in p.anchors
               PROVE  a.structural \subseteq inForce
    BY DEF ContextGoneIsNotApplied
  <2>1. IsMap(map) /\ PoliciesOK(policies)
    BY InForceAreOK
  <2>2. a.structural \subseteq {q.decision : q \in policies}
    BY <2>1, ContextIsInForce DEF View
  <2>3. \A q \in policies : q.decision \in inForce
    BY DEF policies, ActivePolicies, PolicyOf
  <2> QED
    BY <2>2, <2>3
<1> QED
  BY <1>1, PreparedCorrect, PTL

(* A message whose sender or source a user protected stays protected,      *)
(* wherever classifications, merges and partitions put it.                 *)
THEOREM ProtectionCorrect == Spec => []ProtectionFollowsTheMessage
<1>1. PreparedInv => ProtectionFollowsTheMessage
  <2> SUFFICES ASSUME PreparedInv, NEW p \in policies, p.body.kind = "protect",
                      NEW m \in map.rows, Covers(p.body.target, m)
               PROVE  m \in View.protected
    BY DEF ProtectionFollowsTheMessage
  <2>1. IsMap(map) /\ PoliciesOK(policies)
    BY InForceAreOK
  <2>2. CoveredBy(map, p.body.target, m)
    BY DEF Covers, CoveredBy, SourceCovers, IsSourceSelector
  <2> QED
    BY <2>1, <2>2, CoveredIsProtected DEF View
<1> QED
  BY <1>1, PreparedCorrect, PTL

(* What the map path would record was prepared on the map and the log as   *)
(* they are, and its decision is a new one.                                *)
LEMMA RecordableReads ==
    ASSUME PreparedInv, NEW c \in Recordable
    PROVE  /\ ShapeOK(c) /\ c.command.decision \notin Recorded(log)
           /\ c.anchors = PreparedAnchors(map, ViewWithout(c.command.supersedes), c.command.body)
           /\ PreparePolicyOutcome(map, ViewWithout(c.command.supersedes), policies,
                                   c.command.body, c.command.supersedes) = "prepared"
<1>1. c \in sent /\ c.path = "map" /\ IsDecision(c.command) /\ Outcome(c) = "recorded"
  BY DEF Recordable
<1>2. ReplayOutcome(c) = "none"
  BY <1>1 DEF Outcome, ReplayOutcome
<1>3. SnapshotOutcome(c) = "ok"
  BY <1>1, <1>2 DEF Outcome, SnapshotOutcome
<1>4. RecordOutcome(c) = "recorded"
  BY <1>1, <1>2, <1>3 DEF Outcome
<1>5. c.command.decision \notin Recorded(log)
  BY <1>4 DEF RecordOutcome
<1>6. c.seen = inputRevision
  BY <1>1, <1>3 DEF SnapshotOutcome
<1>7. c.seen.map = map /\ c.seen.log = log
  BY <1>6 DEF inputRevision
<1>8. PoliciesSeen(c) = policies
  BY <1>7 DEF PreparedInv, MemoryInv, InForceIsDeclared, PoliciesSeen, policies
<1>9. ViewSeen(c) = ViewWithout(c.command.supersedes)
  BY <1>7, <1>8 DEF ViewSeen, ViewWithout
<1> QED
  BY <1>1, <1>5, <1>7, <1>8, <1>9 DEF PreparedInv, SentPrepared, AsSeen

(* A decision recorded through the map has the anchors it would be given   *)
(* at the moment it is written (record_map_policy).                        *)
THEOREM RecordingCorrect == Spec => []RecordedAsSeen
<1>1. PreparedInv => RecordedAsSeen
  BY RecordableReads DEF RecordedAsSeen
<1> QED
  BY <1>1, PreparedCorrect, PTL

(* A decision recorded through the map takes effect at once: it binds to   *)
(* what it names and stands in conflict with nothing.                      *)
THEOREM EffectCorrect == Spec => []RecordedApplies
<1>1. PreparedInv => RecordedApplies
  <2> SUFFICES ASSUME PreparedInv, NEW c \in Recordable
               PROVE  Applies(BindingOf(ViewAfter(c), c.command.decision))
    BY DEF RecordedApplies
  <2> DEFINE supersedes == c.command.supersedes
             R == Remaining(policies, supersedes)
             n == PolicyOf([command |-> c.command, anchors |-> c.anchors])
  <2>1. /\ n.decision = c.command.decision /\ n.body = c.command.body /\ n.anchors = c.anchors
    BY DEF PolicyOf
  <2>2. ViewAfter(c) = ApplyLocalPolicies(map, R \union {n})
    BY DEF ViewAfter
  <2> HIDE DEF n
  <2>3. /\ ShapeOK(c) /\ c.command.decision \notin Recorded(log)
        /\ c.anchors = PreparedAnchors(map, ViewWithout(supersedes), c.command.body)
        /\ PreparePolicyOutcome(map, ViewWithout(supersedes), policies, c.command.body,
                                supersedes) = "prepared"
    BY RecordableReads
  <2>4. IsMap(map) /\ PoliciesOK(R)
    BY InForceAreOK
  <2>5. \A q \in R : q.decision \in Recorded(log)
    BY DEF Remaining, policies, ActivePolicies, PolicyOf, Recorded
  <2>6. PoliciesOK(R \union {n})
    BY <2>1, <2>3, <2>4, <2>5 DEF PoliciesOK, ShapeOK
  <2> HIDE DEF R
  <2>7. BodyShape(n.body)
    BY <2>1, <2>3 DEF ShapeOK
  <2>8. /\ PreparePolicyOutcome(map, ApplyLocalPolicies(map, R), policies, n.body, supersedes)
             = "prepared"
        /\ n.anchors = PreparedAnchors(map, ApplyLocalPolicies(map, R), n.body)
    BY <2>1, <2>3 DEF ViewWithout, R
  <2>9. Applies(BindingOf(ApplyLocalPolicies(map, R \union {n}), n.decision))
    BY <2>4, <2>6, <2>7, <2>8, PreparedTakesEffect DEF R
  <2> QED
    BY <2>1, <2>2, <2>9
<1> QED
  BY <1>1, PreparedCorrect, PTL
=============================================================================
